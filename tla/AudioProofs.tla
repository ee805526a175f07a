---------------------------- MODULE AudioProofs ----------------------------
(***************************************************************************)
(* The sound ring for every size of it, of a frame and of a callback: it   *)
(* is the queue of samples that SampleQueue describes, though two threads  *)
(* share its pointers without a lock. And where the step of the frequency  *)
(* control stays, for every filling of the ring.                           *)
(***************************************************************************)
EXTENDS AudioRing, ModularArith, SequenceTheorems

\* The part of a frame that w will still pass.
Coming == IF main.pc = "idle" THEN 0
          ELSE IF held.main THEN Frame
          ELSE IF main.pc = "store" THEN main.left + 1 ELSE main.left

Taken == buf[Ahead(w, Size - 1)]
Turned == buf[Ahead(cb.w, Size - 1)]  \* the last sample a callback may play

\* The main thread moves its own pointer from w on, frame after frame.
MainSound ==
  /\ main.pc = "idle" => main.left = 0
  /\ (sent + main.left) % Frame = 0
  /\ main.pc = "write" => main.left >= 1
  /\ main.pc = "store" => main.left <= Frame - 1 /\ (held.main => main.left = 0)
  /\ main.pc # "idle" => main.w = Ahead(w, Unstored) /\ sent + main.left <= MaxSent

\* The callback, from the start of the device on.
CallbackSound ==
  /\ paused => frun /\ cb.pc = "idle"
  /\ frun => out = 0 /\ cb.pc # "play"
  /\ cb.pc = "idle" => ~cb.busy
  /\ cb.pc \in {"start", "clear"} => frun /\ ~cb.busy /\ main.pc = "idle"
  /\ cb.pc = "clear" => r = 0 /\ w = Fill /\ cb.r = 0 /\ cb.w = Fill
  /\ cb.pc # "idle" => cb.left >= 1

\* What comes fits behind what waits. A callback that holds the pointers is
\* passed by one frame at most, and is ahead of r by what it has played.
Fits ==
  /\ Count + Coming <= Size
  /\ Holds => /\ Count = Used(cb.r, cb.w) + Used(cb.w, w)
              /\ Used(r, cb.r) + Used(cb.r, cb.w) = Used(r, cb.w)
              /\ Used(cb.w, w) + Coming <= Frame
              /\ ~cb.busy => main.pc = "idle" /\ cb.w = w
              /\ Used(r, cb.r) + cb.left <= OutLen

\* Samples wait in the order they were sent, after all that were heard.
Ordered ==
  /\ \A i, j \in 0 .. Count - 1 :
       i <= j => buf[Ahead(Reader, i)] <= buf[Ahead(Reader, j)]
  /\ \A i \in 0 .. Count - 1 : out <= buf[Ahead(Reader, i)]
  /\ out <= Taken /\ Taken + Unstored <= sent
  /\ \A j \in 0 .. Unstored - 1 : buf[Ahead(w, j)] = sent - Unstored + 1 + j
  /\ Holds => /\ out <= Turned
              /\ \A j \in 0 .. Used(cb.w, w) - 1 : Turned <= buf[Ahead(cb.w, j)]

Inv ==
  /\ TypeOK /\ MainSound /\ CallbackSound
  /\ ~frun => Fits /\ Ordered
-----------------------------------------------------------------------------
(* Slots and segments of the ring.                                         *)

\* The constants, as numbers.
LEMMA Sizes ==
  /\ Size \in Nat /\ Size >= 2 /\ Frame \in Nat /\ 1 <= Frame /\ Frame <= Size - 1
  /\ Fill \in Nat /\ 1 <= Fill /\ Fill <= Size - 1
  /\ OutLen \in Nat /\ 1 <= OutLen /\ Period \in Nat /\ 1 <= Period
  /\ Step \subseteq Nat /\ MaxSent \in Nat
BY AudioAssumption DEF AudioAssumption

\* At most one turn ahead of a slot.
LEMMA AheadIs ==
  ASSUME NEW i \in Slot, NEW n \in 0 .. Size
  PROVE  /\ Ahead(i, n) \in Slot
         /\ Ahead(i, n) = IF i + n < Size THEN i + n ELSE i + n - Size
<1>1. i + n \in Int /\ Size \in Nat \ {0}
  BY Sizes DEF Slot
<1>2. CASE i + n < Size
  BY <1>1, <1>2, ModSmall, Sizes DEF Ahead, Slot
<1>3. CASE i + n >= Size
  <2>1. Size * 1 + (i + n - Size) = i + n /\ i + n - Size \in 0 .. Size - 1
    BY <1>1, <1>3, Sizes DEF Slot
  <2>2. (Size * 1 + (i + n - Size)) % Size = i + n - Size
    BY <1>1, <2>1, ModUnique
  <2> QED BY <2>1, <2>2, <1>3, Sizes DEF Ahead, Slot
<1> QED BY <1>1, <1>2, <1>3, Sizes

\* Going on from a slot ahead.
LEMMA AheadAgain ==
  ASSUME NEW i \in Slot, NEW m \in 0 .. Size, NEW n \in 0 .. Size, m + n \in 0 .. Size
  PROVE  Ahead(Ahead(i, m), n) = Ahead(i, m + n)
<1> DEFINE a == Ahead(i, m)
<1>1. a \in Slot /\ a = IF i + m < Size THEN i + m ELSE i + m - Size
  BY AheadIs
<1> HIDE DEF a
<1>2. Ahead(a, n) = IF a + n < Size THEN a + n ELSE a + n - Size
  BY <1>1, AheadIs
<1>3. Ahead(i, m + n) = IF i + (m + n) < Size THEN i + (m + n) ELSE i + (m + n) - Size
  BY AheadIs
<1>4. Ahead(a, n) = Ahead(i, m + n)
  BY <1>1, <1>2, <1>3, Sizes DEF Slot
<1> QED BY <1>4 DEF a

\* One turn ahead is the same slot, and no other is met before.
LEMMA AheadDiffers ==
  ASSUME NEW i \in Slot, NEW m \in 0 .. Size - 1, NEW n \in 0 .. Size - 1, m # n
  PROVE  Ahead(i, m) # Ahead(i, n)
<1>1. /\ Ahead(i, m) = IF i + m < Size THEN i + m ELSE i + m - Size
      /\ Ahead(i, n) = IF i + n < Size THEN i + n ELSE i + n - Size
  BY AheadIs, Sizes
<1> QED BY <1>1, Sizes DEF Slot

\* The distance between two slots, going forward round the ring.
LEMMA UsedIs ==
  ASSUME NEW a \in Slot, NEW b \in Slot
  PROVE  /\ Used(a, b) \in Slot
         /\ Used(a, b) = IF b >= a THEN b - a ELSE b - a + Size
<1>1. b - a \in Int /\ Size \in Nat \ {0}
  BY Sizes DEF Slot
<1>2. CASE b >= a
  BY <1>1, <1>2, ModSmall, Sizes DEF Used, Slot
<1>3. CASE b < a
  <2>1. Size * (-1) + (b - a + Size) = b - a /\ b - a + Size \in 0 .. Size - 1
    BY <1>1, <1>3, Sizes DEF Slot
  <2>2. (Size * (-1) + (b - a + Size)) % Size = b - a + Size
    BY <1>1, <2>1, ModUnique
  <2> QED BY <2>1, <2>2, <1>3, Sizes DEF Used, Slot
<1> QED BY <1>1, <1>2, <1>3, Sizes DEF Slot

\* Ahead and Used undo each other.
LEMMA UsedAhead ==
  ASSUME NEW a \in Slot, NEW n \in 0 .. Size - 1
  PROVE  Used(a, Ahead(a, n)) = n
<1>1. n \in 0 .. Size
  BY Sizes
<1> DEFINE c == Ahead(a, n)
<1>2. c \in Slot /\ c = IF a + n < Size THEN a + n ELSE a + n - Size
  BY <1>1, AheadIs
<1> HIDE DEF c
<1>3. Used(a, c) = IF c >= a THEN c - a ELSE c - a + Size
  BY <1>2, UsedIs
<1>4. Used(a, c) = n
  BY <1>2, <1>3, Sizes DEF Slot
<1> QED BY <1>4 DEF c

\* Going that far arrives.
LEMMA AheadUsed ==
  ASSUME NEW a \in Slot, NEW b \in Slot
  PROVE  Ahead(a, Used(a, b)) = b
<1> DEFINE n == Used(a, b)
<1>1. n \in Slot /\ n = IF b >= a THEN b - a ELSE b - a + Size
  BY UsedIs
<1>2. n \in 0 .. Size
  BY <1>1, Sizes DEF Slot
<1> HIDE DEF n
<1>3. Ahead(a, n) = IF a + n < Size THEN a + n ELSE a + n - Size
  BY <1>2, AheadIs
<1> QED BY <1>1, <1>3, Sizes DEF Slot, n

\* The samples in n slots of a ring b from slot i on.
Segment(b, i, n) == [k \in 1 .. n |-> b[Ahead(i, k - 1)]]

\* A stretch of the ring as a sequence.
LEMMA SegmentIs ==
  ASSUME NEW b \in [Slot -> Nat], NEW i \in Slot, NEW n \in 0 .. Size
  PROVE  /\ Segment(b, i, n) \in Seq(Nat) /\ Len(Segment(b, i, n)) = n
         /\ \A k \in 1 .. n : Segment(b, i, n)[k] = b[Ahead(i, k - 1)]
<1> DEFINE s == Segment(b, i, n)
<1>1. \A k \in 1 .. n : b[Ahead(i, k - 1)] \in Nat
  <2> TAKE k \in 1 .. n
  <2>1. k - 1 \in 0 .. Size
    BY Sizes
  <2> QED BY <2>1, AheadIs
<1>2. s \in [1 .. n -> Nat]
  BY <1>1 DEF Segment
<1>3. n \in Nat
  BY Sizes
<1>4. s \in Seq(Nat)
  BY <1>2, <1>3, SeqDef
<1>5. Len(s) = n
  BY <1>2, <1>3, <1>4, LenProperties
<1> QED BY <1>4, <1>5 DEF Segment

\* The segment without its first sample.
LEMMA SegmentTail ==
  ASSUME NEW b \in [Slot -> Nat], NEW i \in Slot, NEW n \in 1 .. Size
  PROVE  /\ Tail(Segment(b, i, n)) = Segment(b, Ahead(i, 1), n - 1)
         /\ Head(Segment(b, i, n)) = b[i] /\ Segment(b, i, n) # <<>>
<1> DEFINE s == Segment(b, i, n)
           t == Segment(b, Ahead(i, 1), n - 1)
<1>0. n \in 0 .. Size
  BY Sizes
<1>1. s \in Seq(Nat) /\ Len(s) = n /\ \A k \in 1 .. n : s[k] = b[Ahead(i, k - 1)]
  BY <1>0, SegmentIs
<1>2. Ahead(i, 1) \in Slot
  BY AheadIs, Sizes
<1>3. n - 1 \in 0 .. Size
  BY Sizes
<1>4. t \in Seq(Nat) /\ Len(t) = n - 1
      /\ \A k \in 1 .. n - 1 : t[k] = b[Ahead(Ahead(i, 1), k - 1)]
  BY <1>2, <1>3, SegmentIs
<1> HIDE DEF s, t
<1>5. s # <<>>
  BY <1>1, Sizes
<1>6. Tail(s) \in Seq(Nat) /\ Len(Tail(s)) = n - 1
      /\ \A k \in 1 .. Len(Tail(s)) : Tail(s)[k] = s[k + 1]
  BY <1>1, <1>5, HeadTailProperties
<1>7. \A k \in 1 .. n - 1 : Tail(s)[k] = t[k]
  <2> TAKE k \in 1 .. n - 1
  <2>1. k + 1 \in 1 .. n /\ (k + 1) - 1 = k /\ k \in 0 .. Size /\ k - 1 \in 0 .. Size
        /\ 1 \in 0 .. Size /\ 1 + (k - 1) = k
    BY Sizes
  <2>2. Ahead(Ahead(i, 1), k - 1) = Ahead(i, k)
    BY <2>1, AheadAgain
  <2>3. Tail(s)[k] = s[k + 1] /\ s[k + 1] = b[Ahead(i, k)]
    BY <1>1, <1>6, <2>1
  <2> QED BY <2>2, <2>3, <1>4
<1>8. Tail(s) = t
  BY <1>4, <1>6, <1>7, SeqEqual
<1>9. Head(s) = b[i]
  <2>1. 1 \in 1 .. n /\ Ahead(i, 1 - 1) = i
    BY AheadIs, Sizes DEF Slot
  <2> QED BY <1>1, <1>5, <2>1
<1> QED BY <1>5, <1>8, <1>9 DEF s, t

\* The segment with u more samples, numbered from x + 1 on.
LEMMA SegmentExtended ==
  ASSUME NEW b \in [Slot -> Nat], NEW i \in Slot, NEW n \in 0 .. Size,
         NEW u \in 0 .. Size, n + u \in 0 .. Size, NEW x \in Nat,
         \A j \in 0 .. u - 1 : b[Ahead(i, n + j)] = x + 1 + j
  PROVE  Segment(b, i, n + u) = Segment(b, i, n) \o [k \in 1 .. u |-> x + k]
<1> DEFINE s == Segment(b, i, n)
           t == [k \in 1 .. u |-> x + k]
           v == Segment(b, i, n + u)
<1>1. /\ s \in Seq(Nat) /\ Len(s) = n /\ \A k \in 1 .. n : s[k] = b[Ahead(i, k - 1)]
      /\ v \in Seq(Nat) /\ Len(v) = n + u
      /\ \A k \in 1 .. n + u : v[k] = b[Ahead(i, k - 1)]
  BY SegmentIs
<1>2. t \in Seq(Nat) /\ Len(t) = u /\ \A k \in 1 .. u : t[k] = x + k
  <2>1. t \in [1 .. u -> Nat] /\ u \in Nat
    BY Sizes
  <2>2. t \in Seq(Nat)
    BY <2>1, SeqDef
  <2>3. Len(t) = u
    BY <2>1, <2>2, LenProperties
  <2> QED BY <2>2, <2>3
<1> HIDE DEF s, t, v
<1>3. /\ s \o t \in Seq(Nat) /\ Len(s \o t) = n + u
      /\ \A k \in 1 .. n + u : (s \o t)[k] = IF k <= n THEN s[k] ELSE t[k - n]
  BY <1>1, <1>2, ConcatProperties
<1>4. ASSUME NEW k \in 1 .. n + u PROVE v[k] = (s \o t)[k]
  <2>1. CASE k <= n
    <3>1. k \in 1 .. n
      BY <2>1, Sizes
    <3> QED BY <1>1, <1>3, <2>1, <3>1
  <2>2. CASE ~(k <= n)
    <3>1. k - n \in 1 .. u /\ k - n - 1 \in 0 .. u - 1 /\ n + (k - n - 1) = k - 1
          /\ x + 1 + (k - n - 1) = x + (k - n)
      BY <2>2, Sizes
    <3>2. v[k] = x + (k - n)
      BY <1>1, <3>1
    <3>3. (s \o t)[k] = t[k - n] /\ t[k - n] = x + (k - n)
      BY <1>2, <1>3, <2>2, <3>1
    <3> QED BY <3>2, <3>3
  <2> QED BY <2>1, <2>2
<1>5. v = s \o t
  BY <1>1, <1>3, <1>4, SeqEqual
<1> QED BY <1>5 DEF s, t, v
-----------------------------------------------------------------------------
(* The two threads by themselves.                                          *)

Basic == TypeOK /\ MainSound /\ CallbackSound

MainType     == [pc : {"idle", "write", "store"}, left : 0 .. Frame, w : Slot]
CallbackType == [pc : {"idle", "start", "clear", "play"}, left : 0 .. OutLen,
                 r : Slot, w : Slot, xinc : Nat, busy : BOOLEAN]

\* The slots a cleared ring starts with.
LEMMA ZeroSlot == 0 \in Slot /\ Fill \in Slot
  BY Sizes DEF Slot

\* The pointers and their copies at the start.
LEMMA BasicInit == Init => Basic
<1> SUFFICES ASSUME Init PROVE Basic
  OBVIOUS
<1>1. main \in MainType /\ cb \in CallbackType /\ main.pc = "idle" /\ cb.pc = "idle"
      /\ ~cb.busy /\ main.left = 0
  BY ZeroSlot, Sizes DEF Init, Resting, Silent, MainType, CallbackType
<1>3. (sent + main.left) % Frame = 0
  <2>1. sent + main.left = 0 /\ 0 \in 0 .. Frame - 1 /\ Frame \in Nat \ {0}
    BY <1>1, Sizes DEF Init
  <2> QED BY <2>1, ModSmall
<1>2. buf \in [Slot -> 0 .. MaxSent]
  BY Sizes DEF Init
<1> QED BY <1>1, <1>2, <1>3, ZeroSlot, Sizes
        DEF Init, Basic, TypeOK, MainSound, CallbackSound, MainType, CallbackType

\* The main thread begins a frame: it fits, by the pointers it has read.
LEMMA BeginBasic == ASSUME Basic, Begin PROVE Basic'
<1>0. /\ main.left = 0 /\ sent \in Nat /\ sent % Frame = 0
      /\ (sent + Frame) % Frame = 0
  <2>1. main.left = 0 /\ sent \in Nat /\ (sent + main.left) % Frame = 0
    BY Sizes DEF Begin, Basic, TypeOK, MainSound
  <2>2. sent + main.left = sent /\ Frame \in Nat \ {0}
    BY <2>1, Sizes
  <2> DEFINE d == sent \div Frame
  <2>3. d \in Int /\ sent = Frame * d
    BY <2>1, <2>2, DivMod, Distribute
  <2> HIDE DEF d
  <2>4. sent + Frame = Frame * (d + 1) + 0 /\ d + 1 \in Int /\ 0 \in 0 .. Frame - 1
    BY <2>2, <2>3, Distribute, Sizes
  <2>5. (Frame * (d + 1) + 0) % Frame = 0
    BY <2>2, <2>4, ModUnique
  <2> QED BY <2>1, <2>2, <2>4, <2>5
<1>1. cb' = [cb EXCEPT !.busy = @ \/ cb.pc # "idle"] /\ cb \in CallbackType
  BY DEF Begin, Basic, TypeOK, CallbackType
<1>2. /\ cb' \in CallbackType /\ cb'.pc = cb.pc /\ cb'.left = cb.left
      /\ cb'.busy = (cb.busy \/ cb.pc # "idle") /\ cb.pc \notin {"start", "clear"}
  BY <1>1 DEF CallbackType, Begin
<1>3. CallbackSound'
  BY <1>2 DEF Basic, CallbackSound, Begin
<1>4. main' \in MainType /\ MainSound' /\ sent' \in 0 .. MaxSent
  <2>1. CASE Room
    <3>1. main' = [pc |-> "write", left |-> Frame, w |-> w] /\ sent' = sent
          /\ sent + Frame <= MaxSent /\ w \in Slot /\ w' = w /\ held' = held
      BY <2>1 DEF Begin, Basic, TypeOK
    <3>2. main' \in MainType /\ main'.pc = "write" /\ main'.left = Frame /\ main'.w = w
      BY <3>1, Sizes DEF MainType
    <3>3. Unstored' = 0
      BY <3>1, <3>2, Sizes DEF Unstored
    <3>4. Ahead(w, 0) = w
      BY <3>1, AheadIs, Sizes DEF Slot
    <3>5. main'.w = Ahead(w', Unstored')
      BY <3>1, <3>2, <3>3, <3>4
    <3> QED BY <1>0, <3>1, <3>2, <3>5, Sizes DEF MainSound, Basic, TypeOK
  <2>2. CASE ~Room
    <3>1. (sent' + main'.left) % Frame = 0
      <4>1. sent' = sent + Frame /\ main' = main /\ sent + Frame + 0 = sent + Frame
        BY <1>0, <2>2, Sizes DEF Begin
      <4> QED BY <1>0, <4>1
    <3> QED BY <2>2, <3>1, Sizes DEF Begin, Basic, TypeOK, MainSound, Unstored, MainType
  <2> QED BY <2>1, <2>2
<1> QED BY <1>2, <1>3, <1>4 DEF Basic, TypeOK, MainType, CallbackType, Begin

\* It writes a sample: the slot is one it has not stored yet.
LEMMA WriteBasic ==
  ASSUME Basic, Write
  PROVE  /\ Basic' /\ Unstored' = Unstored + 1 /\ Coming' = Coming
         /\ buf' = [buf EXCEPT ![Ahead(w, Unstored)] = sent + 1]
         /\ Unstored \in 0 .. Frame - 1 /\ Unstored + 1 <= Coming /\ Coming <= Frame
<1>1. /\ main \in MainType /\ w \in Slot /\ held \in [main : BOOLEAN, cb : BOOLEAN]
      /\ main.pc = "write" /\ main.left \in 1 .. Frame
      /\ main.w = Ahead(w, Unstored) /\ sent + main.left <= MaxSent
      /\ buf \in [Slot -> 0 .. MaxSent] /\ sent \in 0 .. MaxSent
  BY Sizes DEF Basic, TypeOK, MainSound, Write, MainType
<1>2. Unstored = (IF held.main THEN Frame - main.left ELSE 0)
      /\ Unstored \in 0 .. Frame - 1 /\ Unstored \in 0 .. Size
  BY <1>1, Sizes DEF Unstored
<1>3. Ahead(w, 0) = w /\ Ahead(w, Unstored) \in Slot
  <2>1. 0 \in 0 .. Size
    BY Sizes
  <2>2. w + 0 < Size /\ w + 0 = w
    BY <1>1, Sizes DEF Slot
  <2> QED BY <1>1, <1>2, <2>1, <2>2, AheadIs
<1> DEFINE at == Ahead(w, Unstored)
           p  == IF held.main /\ main.left > 1 THEN "write" ELSE "store"
<1>4. (IF held.main THEN main.w ELSE w) = at
  BY <1>1, <1>2, <1>3
<1>5. /\ buf' = [buf EXCEPT ![at] = sent + 1]
      /\ main' = [main EXCEPT !.w = Advance(at), !.left = @ - 1, !.pc = p]
      /\ sent' = sent + 1 /\ UNCHANGED <<r, w, frac, frun, paused, held, cb, out>>
  BY <1>4 DEF Write
<1>6. Advance(at) \in Slot /\ Advance(at) = Ahead(w, Unstored + 1)
  <2>1. 1 \in 0 .. Size /\ Unstored + 1 \in 0 .. Size
    BY <1>2, Sizes
  <2> QED BY <1>1, <1>2, <1>3, <2>1, AheadIs, AheadAgain DEF Advance
<1> HIDE DEF at
<1>7. /\ main' \in MainType /\ main'.w = Advance(at) /\ main'.left = main.left - 1
      /\ main'.pc = p
  <2>1. p \in {"write", "store"} /\ main.left - 1 \in 0 .. Frame
    BY <1>1, Sizes
  <2> HIDE DEF p
  <2> QED BY <1>1, <1>5, <1>6, <2>1 DEF MainType
<1>8. Unstored' = Unstored + 1
  BY <1>1, <1>2, <1>5, <1>7, Sizes DEF Unstored
<1>9. Coming' = Coming /\ Unstored + 1 <= Coming /\ Coming <= Frame
  BY <1>1, <1>2, <1>5, <1>7, Sizes DEF Coming
<1>10. buf' \in [Slot -> 0 .. MaxSent] /\ sent' \in 0 .. MaxSent
  <2>1. sent + 1 \in 0 .. MaxSent
    BY <1>1, Sizes
  <2> QED BY <1>1, <1>5, <2>1
<1>11. MainSound'
  <2>1. sent' + main'.left = sent + main.left /\ main'.pc # "idle"
    BY <1>1, <1>5, <1>7
  <2>2. (sent' + main'.left) % Frame = 0
    BY <2>1 DEF Basic, MainSound
  <2> QED BY <1>1, <1>5, <1>6, <1>7, <1>8, <2>1, <2>2, Sizes DEF MainSound
<1>12. CallbackSound'
  BY <1>1, <1>5, <1>7 DEF Basic, CallbackSound
<1>13. TypeOK'
  BY <1>5, <1>7, <1>10 DEF Basic, TypeOK, MainType
<1> QED BY <1>2, <1>5, <1>8, <1>9, <1>11, <1>12, <1>13 DEF Basic, at

\* It stores its pointer: what was written is now the callback's to play.
LEMMA StoreBasic ==
  ASSUME Basic, Store
  PROVE  /\ Basic' /\ Unstored' = 0 /\ Coming' = Coming - Unstored
         /\ w' = Ahead(w, Unstored) /\ Unstored \in 1 .. Frame
         /\ Unstored <= Coming /\ Coming <= Frame
<1>1. /\ main \in MainType /\ w \in Slot /\ held \in [main : BOOLEAN, cb : BOOLEAN]
      /\ main.pc = "store" /\ main.left \in 0 .. Frame - 1
      /\ (held.main => main.left = 0)
      /\ main.w = Ahead(w, Unstored) /\ sent + main.left <= MaxSent
      /\ main.w \in Slot /\ sent \in 0 .. MaxSent
  BY Sizes DEF Basic, TypeOK, MainSound, Store, MainType
<1>2. Unstored = (IF held.main THEN Frame ELSE 1) /\ Unstored \in 1 .. Frame
      /\ Coming = (IF held.main THEN Frame ELSE main.left + 1) /\ Unstored <= Coming
      /\ Coming <= Frame
  BY <1>1, Sizes DEF Unstored, Coming
<1>3. /\ w' = main.w
      /\ main' = IF main.left = 0 THEN Resting ELSE [main EXCEPT !.pc = "write"]
      /\ UNCHANGED <<buf, r, frac, frun, paused, held, cb, sent, out>>
  BY DEF Store
<1>4. /\ main' \in MainType
      /\ main'.pc = IF main.left = 0 THEN "idle" ELSE "write"
      /\ main'.left = main.left
      /\ main.left # 0 => main'.w = main.w
  BY <1>1, <1>3, ZeroSlot, Sizes DEF MainType, Resting
<1>5. Unstored' = 0 /\ Coming' = Coming - Unstored
  BY <1>1, <1>2, <1>3, <1>4, Sizes DEF Unstored, Coming
<1>6. Ahead(w', 0) = w'
  <2>1. 0 \in 0 .. Size /\ w' + 0 < Size /\ w' + 0 = w'
    BY <1>1, <1>3, Sizes DEF Slot
  <2> QED BY <1>1, <1>3, <2>1, AheadIs
<1>7. MainSound'
  <2>1. (sent' + main'.left) % Frame = 0
    BY <1>3, <1>4 DEF Basic, MainSound
  <2> QED BY <1>1, <1>3, <1>4, <1>5, <1>6, <2>1, Sizes DEF MainSound
<1>8. CallbackSound'
  BY <1>1, <1>3, <1>4 DEF Basic, CallbackSound
<1>9. TypeOK'
  BY <1>1, <1>3, <1>4 DEF Basic, TypeOK, MainType
<1> QED BY <1>1, <1>2, <1>3, <1>5, <1>7, <1>8, <1>9 DEF Basic

\* A step of the callback leaves the main thread alone.
LEMMA MainUntouched ==
  ASSUME Basic, UNCHANGED <<main, held, w, sent>>
  PROVE  MainSound' /\ Unstored' = Unstored /\ Coming' = Coming
<1>1. Unstored' = Unstored
  BY DEF Unstored
<1>2. Coming' = Coming
  BY DEF Coming
<1> QED BY <1>1, <1>2 DEF Basic, MainSound

\* A callback begins: it has the pointers as they are.
LEMMA CallBasic ==
  ASSUME Basic, NEW x \in Step, ~paused, cb.pc = "idle", frun => main.pc = "idle",
         cb' = [cb EXCEPT !.pc = IF frun THEN "start" ELSE "play",
                          !.left = OutLen, !.r = r, !.w = w, !.xinc = x,
                          !.busy = main.pc # "idle"],
         UNCHANGED <<buf, r, w, frac, frun, paused, held, main, sent, out>>
  PROVE  /\ Basic' /\ Unstored' = Unstored /\ Coming' = Coming
         /\ cb'.pc = (IF frun THEN "start" ELSE "play") /\ cb'.r = r /\ cb'.w = w
         /\ cb'.busy = (main.pc # "idle") /\ cb'.left = OutLen
<1> DEFINE p == IF frun THEN "start" ELSE "play"
           b == main.pc # "idle"
<1>1. /\ cb \in CallbackType /\ r \in Slot /\ w \in Slot /\ x \in Nat
      /\ OutLen \in 0 .. OutLen /\ p \in {"idle", "start", "clear", "play"}
      /\ b \in BOOLEAN
  BY Sizes DEF Basic, TypeOK, CallbackType
<1>2. cb' = [cb EXCEPT !.pc = p, !.left = OutLen, !.r = r, !.w = w, !.xinc = x, !.busy = b]
  OBVIOUS
<1> HIDE DEF p, b
<1>3. /\ cb' \in CallbackType /\ cb'.pc = p /\ cb'.left = OutLen /\ cb'.r = r
      /\ cb'.w = w /\ cb'.busy = b
  BY <1>1, <1>2 DEF CallbackType
<1>4. CallbackSound'
  <2>1. /\ paused' = paused /\ frun' = frun /\ main' = main /\ out' = out /\ w' = w
        /\ OutLen >= 1
    BY Sizes
  <2>2. (frun => out = 0) /\ (b = FALSE <=> main.pc = "idle") /\ frun \in BOOLEAN
    BY DEF Basic, TypeOK, CallbackSound, b
  <2>3. p = IF frun THEN "start" ELSE "play"
    BY DEF p
  <2> QED BY <1>1, <1>3, <2>1, <2>2, <2>3 DEF CallbackSound
<1> QED BY <1>3, <1>4, MainUntouched DEF Basic, TypeOK, CallbackType, p, b

\* The first callback after a pause goes on to clear the ring.
LEMMA StartBasic ==
  ASSUME Basic, Start
  PROVE  Basic' /\ frun'
<1>1. cb \in CallbackType /\ cb.pc = "start"
  BY DEF Basic, TypeOK, CallbackType, Start
<1>2. /\ cb' \in CallbackType /\ cb'.pc = "clear" /\ cb'.left = cb.left /\ cb'.r = 0
      /\ cb'.w = Fill /\ cb'.busy = cb.busy
  BY <1>1, ZeroSlot DEF CallbackType, Start
<1>3. CallbackSound' /\ frun'
  BY <1>1, <1>2 DEF Basic, CallbackSound, Start
<1>4. MainSound'
  BY <1>1 DEF Basic, MainSound, CallbackSound, Start
<1>5. r' \in Slot /\ w' \in Slot /\ frac' \in 0 .. Period - 1
  BY ZeroSlot, Sizes DEF Start
<1> QED BY <1>2, <1>3, <1>4, <1>5 DEF Basic, TypeOK, CallbackType, Start

\* It clears the ring while the main thread is idle.
LEMMA ClearBasic ==
  ASSUME Basic, Clear
  PROVE  /\ Basic' /\ Unstored' = 0 /\ Coming' = 0 /\ frun
         /\ r' = 0 /\ w' = Fill /\ cb'.r = 0 /\ cb'.w = Fill /\ cb'.pc = "play"
         /\ main'.pc = "idle" /\ ~frun' /\ out' = 0 /\ held' = held
         /\ cb'.left \in 0 .. OutLen
<1>1. cb \in CallbackType /\ cb.pc = "clear" /\ main.pc = "idle" /\ frun
  BY DEF Basic, TypeOK, CallbackType, Clear, CallbackSound
<1>2. /\ cb' \in CallbackType /\ cb'.pc = "play" /\ cb'.left = cb.left /\ cb'.r = cb.r
      /\ cb'.w = cb.w /\ cb'.busy = cb.busy
  BY <1>1 DEF CallbackType, Clear
<1>3. CallbackSound'
  BY <1>1, <1>2 DEF Basic, CallbackSound, Clear
<1>4. MainSound' /\ Unstored' = 0 /\ Coming' = 0
  BY <1>1 DEF Basic, MainSound, Clear, Unstored, Coming
<1>5. buf' \in [Slot -> 0 .. MaxSent]
  BY Sizes DEF Clear
<1> QED BY <1>1, <1>2, <1>3, <1>4, <1>5
        DEF Basic, TypeOK, CallbackType, CallbackSound, Clear

\* The pointers in Play: those held, or those shared.
PlayAt    == IF held.cb THEN cb.r ELSE r
PlayLimit == IF held.cb THEN cb.w ELSE w
PlayNext  == IF PlayAt # PlayLimit /\ Fraction(cb.xinc).over THEN Advance(PlayAt)
             ELSE PlayAt
PlaySample == buf[IF PlayAt = PlayLimit THEN Ahead(PlayAt, Size - 1) ELSE PlayAt]

\* A sample is played: the pointer moves by one slot or not, never past the
\* writer.
LEMMA PlayBasic ==
  ASSUME Basic, Play
  PROVE  /\ Basic' /\ Unstored' = Unstored /\ Coming' = Coming
         /\ UNCHANGED <<buf, w, frun, held, main, sent>> /\ ~frun
         /\ PlayAt \in Slot /\ PlayLimit \in Slot
         /\ PlayNext \in {PlayAt, Advance(PlayAt)} /\ PlayNext \in Slot
         /\ PlayAt = PlayLimit => PlayNext = PlayAt
         /\ out' = (IF PlaySample = 0 THEN out ELSE PlaySample)
         /\ \/ /\ cb'.pc = "play" /\ cb'.r = PlayNext /\ cb'.w = cb.w /\ cb'.busy = cb.busy
               /\ cb'.left = cb.left - 1
               /\ r' = IF held.cb THEN r ELSE PlayNext
            \/ cb'.pc = "idle" /\ r' = PlayNext
<1>1. /\ cb \in CallbackType /\ cb.pc = "play" /\ ~frun /\ r \in Slot /\ w \in Slot
      /\ buf \in [Slot -> 0 .. MaxSent] /\ out \in 0 .. MaxSent
      /\ frac \in 0 .. Period - 1 /\ cb.left >= 1 /\ ~paused
      /\ cb.r \in Slot /\ cb.w \in Slot /\ cb.left \in 0 .. OutLen
      /\ cb.xinc \in Nat
  BY Sizes DEF Basic, TypeOK, CallbackType, Play, CallbackSound
<1>2. PlayAt \in Slot /\ PlayLimit \in Slot
  BY <1>1 DEF PlayAt, PlayLimit
<1>3. Ahead(PlayAt, Size - 1) \in Slot /\ Advance(PlayAt) \in Slot
  <2>1. Size - 1 \in 0 .. Size /\ 1 \in 0 .. Size
    BY Sizes
  <2> QED BY <1>2, <2>1, AheadIs DEF Advance
<1>4. PlayNext \in {PlayAt, Advance(PlayAt)} /\ PlayNext \in Slot
      /\ (PlayAt = PlayLimit => PlayNext = PlayAt)
  BY <1>2, <1>3 DEF PlayNext
<1>5. PlaySample \in 0 .. MaxSent
  BY <1>1, <1>2, <1>3 DEF PlaySample
<1>6. /\ out' = (IF PlaySample = 0 THEN out ELSE PlaySample)
      /\ frac' = IF PlayAt = PlayLimit THEN frac ELSE Fraction(cb.xinc).rest
      /\ r' = IF held.cb /\ cb.left > 1 THEN r ELSE PlayNext
      /\ cb' = IF cb.left > 1 THEN [cb EXCEPT !.left = @ - 1, !.r = PlayNext] ELSE Silent
      /\ UNCHANGED <<buf, w, frun, paused, held, main, sent>>
  BY DEF Play, PlaySample, PlayNext, PlayAt, PlayLimit
<1>7. Fraction(cb.xinc).rest \in 0 .. Period - 1
  <2>1. frac + cb.xinc \in Int /\ Period \in Nat \ {0}
    BY <1>1, Sizes
  <2>2. (frac + cb.xinc) % Period \in 0 .. Period - 1
    BY <2>1, DivMod
  <2> QED BY <2>2 DEF Fraction
<1> HIDE DEF PlayAt, PlayLimit, PlayNext, PlaySample
<1>8. CASE cb.left > 1
  <2>1. cb.left - 1 \in 0 .. OutLen /\ cb.left - 1 >= 1
    BY <1>1, <1>8, Sizes
  <2>2. cb' = [cb EXCEPT !.left = cb.left - 1, !.r = PlayNext]
    BY <1>6, <1>8
  <2>3. /\ cb' \in CallbackType /\ cb'.pc = "play" /\ cb'.r = PlayNext /\ cb'.w = cb.w
        /\ cb'.busy = cb.busy /\ cb'.left = cb.left - 1
    BY <1>1, <1>4, <2>1, <2>2 DEF CallbackType
  <2>4. CallbackSound'
    BY <1>1, <1>6, <2>1, <2>3 DEF CallbackSound
  <2>5. r' = IF held.cb THEN r ELSE PlayNext
    BY <1>6, <1>8
  <2>6. TypeOK'
    BY <1>1, <1>4, <1>5, <1>6, <1>7, <2>3, <2>5 DEF Basic, TypeOK, CallbackType
  <2> QED BY <1>1, <1>2, <1>4, <1>6, <2>3, <2>4, <2>5, <2>6, MainUntouched DEF Basic
<1>9. CASE ~(cb.left > 1)
  <2>1. cb' = Silent /\ r' = PlayNext
    BY <1>6, <1>9
  <2>2. cb' \in CallbackType /\ cb'.pc = "idle" /\ ~cb'.busy
    BY <2>1, ZeroSlot, Sizes DEF CallbackType, Silent
  <2>3. CallbackSound'
    BY <1>1, <1>6, <2>2 DEF CallbackSound
  <2>4. TypeOK'
    BY <1>1, <1>4, <1>5, <1>6, <1>7, <2>1, <2>2 DEF Basic, TypeOK, CallbackType
  <2> QED BY <1>1, <1>2, <1>4, <1>6, <2>1, <2>2, <2>3, <2>4, MainUntouched DEF Basic
<1> QED BY <1>8, <1>9

\* A reset touches what the next callback clears.
LEMMA ResetBasic ==
  ASSUME Basic, Reset
  PROVE  Basic' /\ frun /\ frun'
  BY MainUntouched DEF Basic, TypeOK, CallbackSound, Reset

\* Nothing changes.
LEMMA StutterBasic ==
  ASSUME Basic, UNCHANGED vars
  PROVE  Basic' /\ Unstored' = Unstored /\ Coming' = Coming
<1>1. UNCHANGED <<main, held, w, sent>>
  BY DEF vars
<1> QED BY <1>1, MainUntouched DEF vars, Basic, TypeOK, CallbackSound
-----------------------------------------------------------------------------
(* The ring, once the device plays.                                        *)

Ring == Basic /\ ~frun /\ Fits /\ Ordered

\* The ring, once round.
LEMMA Turn ==
  /\ 0 \in 0 .. Size /\ 1 \in 0 .. Size /\ Size - 1 \in 0 .. Size /\ Size \in 0 .. Size
  /\ 0 \in 0 .. Size - 1
  /\ \A n \in 0 .. Size - 1 : n \in 0 .. Size
  /\ \A i \in Slot : /\ Ahead(i, 0) = i /\ Ahead(i, Size) = i /\ Used(i, i) = 0
                    /\ Advance(i) = Ahead(i, 1) /\ Advance(i) \in Slot
<1>1. 0 \in 0 .. Size /\ 1 \in 0 .. Size /\ Size - 1 \in 0 .. Size /\ Size \in 0 .. Size
  BY Sizes
<1>2. ASSUME NEW i \in Slot PROVE Ahead(i, 0) = i /\ Ahead(i, Size) = i /\ Used(i, i) = 0
  <2>1. Ahead(i, 0) = IF i + 0 < Size THEN i + 0 ELSE i + 0 - Size
    BY <1>1, AheadIs
  <2>2. Ahead(i, Size) = IF i + Size < Size THEN i + Size ELSE i + Size - Size
    BY <1>1, AheadIs
  <2>3. Used(i, i) = IF i >= i THEN i - i ELSE i - i + Size
    BY UsedIs
  <2> QED BY <2>1, <2>2, <2>3, Sizes DEF Slot
<1>3. ASSUME NEW i \in Slot PROVE Advance(i) = Ahead(i, 1) /\ Advance(i) \in Slot
  BY <1>1, AheadIs DEF Advance
<1> QED BY <1>1, <1>2, <1>3, Sizes

\* The pointers and counts in their ranges.
LEMMA Types ==
  ASSUME Basic
  PROVE  /\ r \in Slot /\ w \in Slot /\ cb.r \in Slot /\ cb.w \in Slot /\ Reader \in Slot
         /\ buf \in [Slot -> Nat] /\ out \in Nat /\ sent \in Nat
         /\ Unstored \in 0 .. Coming /\ Coming \in 0 .. Frame
         /\ cb.left \in 0 .. OutLen
<1>1. /\ main \in MainType /\ cb \in CallbackType /\ held \in [main : BOOLEAN, cb : BOOLEAN]
      /\ r \in Slot /\ w \in Slot /\ buf \in [Slot -> 0 .. MaxSent]
      /\ out \in 0 .. MaxSent /\ sent \in 0 .. MaxSent
  BY DEF Basic, TypeOK, MainType, CallbackType
<1>2. cb.r \in Slot /\ cb.w \in Slot /\ cb.left \in 0 .. OutLen
  BY <1>1 DEF CallbackType
<1>3. Reader \in Slot
  BY <1>1, <1>2 DEF Reader
<1>4. buf \in [Slot -> Nat]
  BY <1>1, Sizes
<1>5. Unstored \in 0 .. Coming /\ Coming \in 0 .. Frame
  BY <1>1, Sizes DEF Unstored, Coming, MainType, Basic, MainSound
<1> QED BY <1>1, <1>2, <1>3, <1>4, <1>5, Sizes

\* What waits ends at w.
LEMMA Spans ==
  ASSUME Basic
  PROVE  /\ Count \in 0 .. Size /\ w = Ahead(Reader, Count)
         /\ ~Holds => Count = Used(r, w) /\ Reader = r
         /\ Count < Size => Count = Used(Reader, w)
<1>1. r \in Slot /\ w \in Slot /\ cb.r \in Slot /\ cb.w \in Slot /\ Reader \in Slot
  BY Types
<1>2. CASE Holds /\ cb.r = w /\ cb.w # w
  BY <1>1, <1>2, Turn, Sizes DEF Count, Reader
<1>3. CASE ~(Holds /\ cb.r = w /\ cb.w # w)
  <2>1. Count = Used(Reader, w) /\ Used(Reader, w) \in Slot
    BY <1>1, <1>3, UsedIs DEF Count
  <2>2. Used(Reader, w) \in 0 .. Size
    BY <2>1, Sizes DEF Slot
  <2> QED BY <1>1, <2>1, <2>2, AheadUsed DEF Reader
<1> QED BY <1>2, <1>3

\* The newest sample is the last that waits; the last that a callback may play
\* is one of those that wait unless it has played them all.
LEMMA Ends ==
  ASSUME Ring
  PROVE  /\ Taken \in Nat /\ Turned \in Nat
         /\ Count >= 1 => Taken = buf[Ahead(Reader, Count - 1)]
         /\ Holds => /\ Used(cb.r, cb.w) \in 0 .. Size - 1 /\ Used(cb.w, w) \in 0 .. Frame
                     /\ Count = Used(cb.r, cb.w) + Used(cb.w, w)
                     /\ Used(cb.r, cb.w) >= 1 =>
                          Turned = buf[Ahead(Reader, Used(cb.r, cb.w) - 1)]
                     /\ Turned <= Taken
                     /\ Used(cb.w, w) = 0 => Turned = Taken
<1>1. /\ r \in Slot /\ w \in Slot /\ cb.r \in Slot /\ cb.w \in Slot /\ Reader \in Slot
      /\ buf \in [Slot -> Nat] /\ Coming \in 0 .. Frame
  BY Types DEF Ring
<1>2. \A i \in Slot : Ahead(i, Size - 1) \in Slot
  BY Turn, AheadIs
<1>3. ASSUME NEW i \in Slot, NEW n \in 1 .. Size
      PROVE  Ahead(Ahead(i, n), Size - 1) = Ahead(i, n - 1)
  <2> DEFINE a == Ahead(i, n)
  <2>1. a \in Slot /\ a = IF i + n < Size THEN i + n ELSE i + n - Size
    BY AheadIs, Sizes
  <2>2. n - 1 \in 0 .. Size
    BY Sizes
  <2>3. Ahead(i, n - 1) = IF i + (n - 1) < Size THEN i + (n - 1) ELSE i + (n - 1) - Size
    BY <2>2, AheadIs
  <2> HIDE DEF a
  <2>4. Ahead(a, Size - 1) = IF a + (Size - 1) < Size THEN a + (Size - 1)
                             ELSE a + (Size - 1) - Size
    BY <2>1, Turn, AheadIs
  <2>5. Ahead(a, Size - 1) = Ahead(i, n - 1)
    BY <2>1, <2>3, <2>4, Sizes DEF Slot
  <2> QED BY <2>5 DEF a
<1>4. Taken \in Nat /\ Turned \in Nat
  BY <1>1, <1>2 DEF Taken, Turned
<1>5. Count \in 0 .. Size /\ w = Ahead(Reader, Count)
  BY Spans DEF Ring
<1>6. Count >= 1 => Taken = buf[Ahead(Reader, Count - 1)]
  <2> SUFFICES ASSUME Count >= 1 PROVE Taken = buf[Ahead(Reader, Count - 1)]
    OBVIOUS
  <2>1. Count \in 1 .. Size
    BY <1>5, Sizes
  <2> QED BY <1>1, <1>3, <1>5, <2>1 DEF Taken
<1>7. ASSUME Holds
      PROVE  /\ Used(cb.r, cb.w) \in 0 .. Size - 1 /\ Used(cb.w, w) \in 0 .. Frame
             /\ Count = Used(cb.r, cb.w) + Used(cb.w, w)
             /\ Used(cb.r, cb.w) >= 1 =>
                  Turned = buf[Ahead(Reader, Used(cb.r, cb.w) - 1)]
             /\ Turned <= Taken
             /\ Used(cb.w, w) = 0 => Turned = Taken
  <2> DEFINE m == Used(cb.r, cb.w)
             k == Used(cb.w, w)
  <2>1. m \in 0 .. Size - 1 /\ k \in 0 .. Size - 1
    BY <1>1, UsedIs DEF Slot
  <2>2. Count = m + k /\ k + Coming <= Frame /\ Reader = cb.r
    BY <1>7 DEF Ring, Fits, Reader
  <2>3. cb.w = Ahead(cb.r, m) /\ w = Ahead(cb.w, k)
    BY <1>1, AheadUsed
  <2>4. \A j \in 0 .. k - 1 : Turned <= buf[Ahead(cb.w, j)]
    BY <1>7 DEF Ring, Ordered
  <2> HIDE DEF m, k
  <2>5. k \in 0 .. Frame
    BY <1>1, <2>1, <2>2, Sizes
  <2>6. ASSUME m >= 1 PROVE Turned = buf[Ahead(Reader, m - 1)]
    <3>1. m \in 1 .. Size
      BY <2>1, <2>6, Sizes
    <3> QED BY <1>1, <1>3, <2>2, <2>3, <3>1 DEF Turned
  <2>7. ASSUME k = 0 PROVE Turned = Taken
    BY <1>1, <2>3, <2>7, Turn DEF Turned, Taken
  <2>8. ASSUME k >= 1 PROVE Turned <= Taken
    <3>1. k \in 1 .. Size /\ k - 1 \in 0 .. k - 1
      BY <2>1, <2>8, Sizes
    <3>2. Taken = buf[Ahead(cb.w, k - 1)]
      BY <1>1, <1>3, <2>3, <3>1 DEF Taken
    <3> QED BY <2>4, <3>1, <3>2
  <2>9. Turned <= Taken
    BY <1>4, <2>1, <2>7, <2>8
  <2> QED BY <2>1, <2>2, <2>5, <2>6, <2>7, <2>9 DEF m, k
<1> QED BY <1>4, <1>6, <1>7

\* The queue of the abstract specification is a stretch of the ring.
LEMMA QueueIs ==
  /\ Waiting = Segment(buf, Reader, Count) /\ Waiting' = Segment(buf', Reader', Count')
  /\ Taken = buf[Ahead(w, Size - 1)] /\ Taken' = buf'[Ahead(w', Size - 1)]
  BY DEF Waiting, Segment, Taken

\* The main thread does not move the callback's pointers.
LEMMA SameReader ==
  ASSUME UNCHANGED <<r, held, cb>>
         \/ (UNCHANGED <<r, held>> /\ cb'.pc = cb.pc /\ cb'.r = cb.r /\ cb'.w = cb.w)
  PROVE  Reader' = Reader /\ Holds' = Holds /\ (w' = w => Count' = Count)
<1>1. /\ r' = r /\ held' = held /\ cb'.pc = cb.pc /\ cb'.r = cb.r /\ cb'.w = cb.w
  OBVIOUS
<1>2. Holds' = Holds
  BY <1>1 DEF Holds
<1>3. Reader' = Reader
  BY <1>1, <1>2 DEF Reader
<1> QED BY <1>1, <1>2, <1>3 DEF Count

\* Beginning a frame changes no queue; a frame that does not fit is dropped.
LEMMA BeginRing ==
  ASSUME Ring, Begin
  PROVE  Fits' /\ Ordered' /\ (SQ!Next \/ UNCHANGED SQ!qvars)
<1>1. /\ cb' = [cb EXCEPT !.busy = @ \/ cb.pc # "idle"] /\ cb \in CallbackType
      /\ UNCHANGED <<buf, r, w, frac, frun, paused, held, out>>
      /\ main.pc = "idle" /\ ~cb.busy
  BY DEF Begin, Ring, Basic, TypeOK, CallbackType
<1>2. /\ cb'.pc = cb.pc /\ cb'.r = cb.r /\ cb'.w = cb.w /\ cb'.left = cb.left
      /\ cb'.busy = (cb.busy \/ cb.pc # "idle")
  BY <1>1 DEF CallbackType
<1>3. Reader' = Reader /\ Holds' = Holds /\ Count' = Count
  BY <1>1, <1>2, SameReader
<1>4. Unstored' = 0 /\ Unstored = 0 /\ Coming = 0
      /\ ((Coming' = 0 /\ main' = main) \/ (Coming' = Frame /\ Room))
  <2>1. main' = IF Room THEN [pc |-> "write", left |-> Frame, w |-> w] ELSE main
    BY DEF Begin
  <2> QED BY <1>1, <2>1, Sizes DEF Unstored, Coming
<1>5. /\ r \in Slot /\ w \in Slot /\ cb.r \in Slot /\ cb.w \in Slot /\ Reader \in Slot
      /\ sent \in Nat
  BY Types DEF Ring
<1>6. sent' \in Nat /\ sent' >= sent
  BY <1>5, Sizes DEF Begin
<1>7. Holds => cb.w = w /\ Count = Used(cb.r, w) /\ Used(w, w) = 0
               /\ Used(r, cb.r) + Used(cb.r, w) = Used(r, w)
  <2> SUFFICES ASSUME Holds
               PROVE  cb.w = w /\ Count = Used(cb.r, w) /\ Used(w, w) = 0
                      /\ Used(r, cb.r) + Used(cb.r, w) = Used(r, w)
    OBVIOUS
  <2>1. cb.w = w /\ Used(w, w) = 0
    BY <1>1, <1>5, Turn DEF Ring, Fits
  <2>2. Used(cb.r, w) \in Nat
    <3>1. Used(cb.r, w) \in Slot
      BY <1>5, UsedIs
    <3> QED BY <3>1 DEF Slot
  <2>3. /\ Count = Used(cb.r, cb.w) + Used(cb.w, w)
        /\ Used(r, cb.r) + Used(cb.r, cb.w) = Used(r, cb.w)
    BY DEF Ring, Fits
  <2> QED BY <2>1, <2>2, <2>3
<1>8. Count + Coming' <= Size
  <2>1. Used(r, w) \in Slot /\ Used(w, r) \in Slot
        /\ Used(r, w) = (IF w >= r THEN w - r ELSE w - r + Size)
        /\ Used(w, r) = (IF r >= w THEN r - w ELSE r - w + Size)
    BY <1>5, UsedIs
  <2>2. Used(r, cb.r) \in Slot /\ Used(cb.r, w) \in Slot
    BY <1>5, UsedIs
  <2>3. Count <= Used(r, w)
    <3>1. CASE Holds
      BY <1>7, <2>1, <2>2, <3>1 DEF Slot
    <3>2. CASE ~Holds
      BY <2>1, <3>2, Spans DEF Ring, Slot
    <3> QED BY <3>1, <3>2
  <2>4. Count \in 0 .. Size
    BY Spans DEF Ring
  <2>5. Room => Used(r, w) + Frame <= Size
    BY <1>5, <2>1, Sizes DEF Room, Slot
  <2> QED BY <1>4, <2>1, <2>3, <2>4, <2>5, Sizes DEF Slot
<1>9. Fits'
  <2>1. Count' + Coming' <= Size
    BY <1>3, <1>8
  <2>2. ASSUME Holds
        PROVE  /\ Count' = Used(cb'.r, cb'.w) + Used(cb'.w, w')
               /\ Used(r', cb'.r) + Used(cb'.r, cb'.w) = Used(r', cb'.w)
               /\ Used(cb'.w, w') + Coming' <= Frame
               /\ cb'.busy
               /\ Used(r', cb'.r) + cb'.left <= OutLen
    <3>1. cb.pc = "play"
      BY <2>2 DEF Holds
    <3>2. Count = Used(cb.r, cb.w) + Used(cb.w, w)
          /\ Used(r, cb.r) + Used(cb.r, cb.w) = Used(r, cb.w)
          /\ Used(r, cb.r) + cb.left <= OutLen
      BY <2>2 DEF Ring, Fits
    <3>3. cb'.busy
      BY <1>2, <3>1
    <3>4. Used(cb.w, w) = 0 /\ Coming' \in Nat /\ Coming' <= Frame
      BY <1>4, <1>7, <2>2, Sizes
    <3>5. cb'.r = cb.r /\ cb'.w = cb.w /\ r' = r /\ w' = w /\ cb'.left = cb.left
      BY <1>1, <1>2
    <3> QED BY <1>3, <3>2, <3>3, <3>4, <3>5
  <2> QED BY <1>3, <2>1, <2>2 DEF Fits
<1>10. Taken' = Taken /\ Turned' = Turned
  BY <1>1, <1>2 DEF Taken, Turned
<1>11. Ordered'
  <2>1. Taken \in Nat
    BY Ends
  <2>2. Taken' + Unstored' <= sent'
    BY <1>4, <1>5, <1>6, <1>10, <2>1 DEF Ring, Ordered
  <2> HIDE DEF Taken, Turned
  <2> QED BY <1>1, <1>2, <1>3, <1>4, <1>10, <2>2 DEF Ring, Ordered
<1>12. CASE Room
  <2>1. sent' = sent
    BY <1>12 DEF Begin
  <2> QED BY <1>1, <1>3, <1>4, <1>9, <1>11, <2>1, QueueIs DEF SQ!qvars
<1>13. CASE ~Room
  <2>1. sent' = sent + Frame /\ Used(w, r) # 0 /\ Used(w, r) < Frame
    <3>1. Used(w, r) \in Slot
      BY <1>5, UsedIs
    <3> QED BY <1>13, <3>1, Sizes DEF Begin, Room, Slot
  <2>2. Size - Count < Frame + OutLen
    <3>1. Used(w, r) = Size - Used(r, w) /\ Used(r, w) \in Nat
      <4>1. /\ Used(w, r) = (IF r >= w THEN r - w ELSE r - w + Size)
            /\ Used(r, w) = (IF w >= r THEN w - r ELSE w - r + Size)
        BY <1>5, UsedIs
      <4> QED BY <1>5, <2>1, <4>1, Sizes DEF Slot
    <3>2. Count \in Nat /\ Count + OutLen >= Used(r, w)
      <4>1. CASE Holds
        <5>1. Used(r, cb.r) + Used(cb.r, w) = Used(r, w) /\ Count = Used(cb.r, w)
          BY <1>7, <4>1
        <5>2. Used(r, cb.r) + cb.left <= OutLen /\ cb.left \in 0 .. OutLen
          BY <4>1, Types DEF Ring, Fits
        <5>3. Used(r, cb.r) \in Slot /\ Used(cb.r, w) \in Slot
          BY <1>5, UsedIs
        <5> QED BY <5>1, <5>2, <5>3, Sizes DEF Slot
      <4>2. CASE ~Holds
        BY <3>1, <4>2, Spans, Sizes DEF Ring
      <4> QED BY <4>1, <4>2
    <3> QED BY <2>1, <3>1, <3>2, Sizes
  <2>3. sent % Frame = 0 /\ sent - Unstored = sent /\ sent' - Unstored' = sent + Frame
    <3>1. (sent + main.left) % Frame = 0 /\ main.left = 0
      BY <1>1 DEF Ring, Basic, MainSound
    <3>2. sent + main.left = sent
      BY <1>5, <3>1
    <3> QED BY <1>4, <1>5, <2>1, <3>1, <3>2, Sizes
  <2>4. Len(Waiting) = Count /\ Waiting' = Waiting
    <3>1. Count \in 0 .. Size /\ buf \in [Slot -> Nat]
      BY Spans, Types DEF Ring
    <3> QED BY <1>1, <1>3, <1>5, <3>1, SegmentIs, QueueIs
  <2>5. SQ!Drop
    BY <1>1, <1>10, <2>2, <2>3, <2>4, QueueIs DEF SQ!Drop, SQ!EndOfFrame, Ring
  <2> QED BY <1>9, <1>11, <2>5 DEF SQ!Next
<1> QED BY <1>12, <1>13

\* Writing a sample changes no queue, as its slot is outside of it.
LEMMA WriteRing ==
  ASSUME Ring, Write
  PROVE  Fits' /\ Ordered' /\ UNCHANGED SQ!qvars
<1>1. /\ UNCHANGED <<r, w, frac, frun, paused, held, cb, out>> /\ sent' = sent + 1
      /\ main.pc = "write" /\ main'.pc # "idle"
  <2>1. main \in MainType
    BY DEF Ring, Basic, TypeOK, MainType
  <2> QED BY <2>1 DEF Write, MainType
<1>2. /\ buf' = [buf EXCEPT ![Ahead(w, Unstored)] = sent + 1]
      /\ Unstored \in 0 .. Frame - 1 /\ Unstored + 1 <= Coming /\ Coming <= Frame
      /\ Unstored' = Unstored + 1 /\ Coming' = Coming
  BY WriteBasic DEF Ring
<1>3. Reader' = Reader /\ Holds' = Holds /\ Count' = Count
  BY <1>1, SameReader
<1>4. /\ r \in Slot /\ w \in Slot /\ cb.r \in Slot /\ cb.w \in Slot /\ Reader \in Slot
      /\ sent \in Nat /\ buf \in [Slot -> Nat] /\ Coming \in 0 .. Frame
  BY Types DEF Ring
<1>5. Count \in 0 .. Size /\ w = Ahead(Reader, Count) /\ Count + Coming <= Size
  BY Spans DEF Ring, Fits
<1> DEFINE u == Unstored
           at == Ahead(w, u)
<1>6. at \in Slot /\ u \in 0 .. Size
  BY <1>2, <1>4, AheadIs, Sizes
<1>7. \A i \in 0 .. Count - 1 : buf'[Ahead(Reader, i)] = buf[Ahead(Reader, i)]
  <2> TAKE i \in 0 .. Count - 1
  <2>1. i \in 0 .. Size - 1 /\ Count + u \in 0 .. Size - 1 /\ Count + u # i /\ i \in 0 .. Size
        /\ Count + u \in 0 .. Size
    BY <1>2, <1>4, <1>5, Sizes
  <2>2. at = Ahead(Reader, Count + u)
    BY <1>4, <1>5, <1>6, <2>1, AheadAgain
  <2>3. at # Ahead(Reader, i) /\ Ahead(Reader, i) \in Slot
    BY <1>4, <2>1, <2>2, AheadDiffers, AheadIs
  <2> QED BY <1>2, <1>4, <2>3
<1>8. Taken' = Taken
  <2>1. u \in 0 .. Size - 1 /\ Size - 1 \in 0 .. Size - 1 /\ u # Size - 1
    BY <1>2, Sizes
  <2>2. at # Ahead(w, Size - 1) /\ Ahead(w, Size - 1) \in Slot
    BY <1>4, <2>1, AheadDiffers, AheadIs, Turn
  <2> QED BY <1>1, <1>2, <1>4, <2>2 DEF Taken
<1>9. \A j \in 0 .. u' - 1 : buf'[Ahead(w, j)] = sent' - u' + 1 + j
  <2> TAKE j \in 0 .. u' - 1
  <2>1. j \in 0 .. u
    BY <1>2
  <2>2. CASE j = u
    BY <1>1, <1>2, <1>4, <1>6, <2>2
  <2>3. CASE j # u
    <3>1. j \in 0 .. u - 1 /\ j \in 0 .. Size - 1 /\ u \in 0 .. Size - 1
      BY <1>2, <2>1, <2>3, Sizes
    <3>2. at # Ahead(w, j) /\ Ahead(w, j) \in Slot
      BY <1>4, <2>3, <3>1, AheadDiffers, AheadIs, Turn
    <3>3. buf'[Ahead(w, j)] = buf[Ahead(w, j)]
      BY <1>2, <1>4, <3>2
    <3>4. buf[Ahead(w, j)] = sent - u + 1 + j
      BY <3>1 DEF Ring, Ordered
    <3> QED BY <1>1, <1>2, <1>4, <3>1, <3>3, <3>4
  <2> QED BY <2>2, <2>3
<1>10. ASSUME Holds
       PROVE  /\ Turned' = Turned
              /\ \A j \in 0 .. Used(cb.w, w) - 1 : buf'[Ahead(cb.w, j)] = buf[Ahead(cb.w, j)]
  <2> DEFINE k == Used(cb.w, w)
  <2>1. k \in Slot /\ Ahead(cb.w, k) = w /\ k + Coming <= Frame
    BY <1>4, <1>10, UsedIs, AheadUsed DEF Ring, Fits
  <2> HIDE DEF k
  <2>2. k + u \in 0 .. Size - 2 /\ k \in 0 .. Size
    BY <1>2, <1>4, <2>1, Sizes DEF Slot
  <2>3. at = Ahead(cb.w, k + u)
    <3>1. k + u \in 0 .. Size
      BY <2>2, Sizes
    <3> QED BY <1>4, <1>6, <2>1, <2>2, <3>1, AheadAgain
  <2>4. ASSUME NEW j \in 0 .. Size - 1, j # k + u
        PROVE  buf'[Ahead(cb.w, j)] = buf[Ahead(cb.w, j)]
    <3>1. k + u \in 0 .. Size - 1 /\ j \in 0 .. Size
      BY <2>2, Sizes
    <3>2. at # Ahead(cb.w, j) /\ Ahead(cb.w, j) \in Slot
      BY <1>4, <2>3, <2>4, <3>1, AheadDiffers, AheadIs
    <3> QED BY <1>2, <1>4, <3>2
  <2>5. Turned' = Turned
    <3>1. Size - 1 \in 0 .. Size - 1 /\ Size - 1 # k + u
      BY <2>2, Sizes
    <3> QED BY <1>1, <2>4, <3>1 DEF Turned
  <2>6. \A j \in 0 .. k - 1 : buf'[Ahead(cb.w, j)] = buf[Ahead(cb.w, j)]
    <3> TAKE j \in 0 .. k - 1
    <3>1. j \in 0 .. Size - 1 /\ j # k + u
      BY <1>2, <2>2, Sizes
    <3> QED BY <2>4, <3>1
  <2> QED BY <2>5, <2>6 DEF k
<1>11. Fits'
  BY <1>1, <1>2, <1>3 DEF Ring, Fits
<1>12. Ordered'
  <2>1. Taken \in Nat
    BY Ends
  <2>2. Taken' + u' <= sent'
    BY <1>1, <1>2, <1>4, <1>8, <2>1 DEF Ring, Ordered
  <2>3. out' <= Taken'
    BY <1>1, <1>8 DEF Ring, Ordered
  <2>4. \A i, j \in 0 .. Count - 1 :
          i <= j => buf'[Ahead(Reader, i)] <= buf'[Ahead(Reader, j)]
    BY <1>7 DEF Ring, Ordered
  <2>5. \A i \in 0 .. Count - 1 : out' <= buf'[Ahead(Reader, i)]
    BY <1>1, <1>7 DEF Ring, Ordered
  <2>6. ASSUME Holds
        PROVE  /\ out' <= Turned'
               /\ \A j \in 0 .. Used(cb.w, w) - 1 : Turned' <= buf'[Ahead(cb.w, j)]
    BY <1>1, <1>10, <2>6 DEF Ring, Ordered
  <2> QED BY <1>1, <1>3, <1>9, <2>2, <2>3, <2>4, <2>5, <2>6 DEF Ordered
<1>13. Waiting' = Waiting
  <2>1. \A k \in 1 .. Count : buf'[Ahead(Reader, k - 1)] = buf[Ahead(Reader, k - 1)]
    <3> TAKE k \in 1 .. Count
    <3>1. k - 1 \in 0 .. Count - 1
      BY <1>5
    <3> QED BY <1>7, <3>1
  <2> QED BY <1>3, <2>1, QueueIs DEF Segment
<1>14. sent' - Unstored' = sent - Unstored
  BY <1>1, <1>2, <1>4
<1> QED BY <1>1, <1>8, <1>11, <1>12, <1>13, <1>14, QueueIs DEF SQ!qvars

\* Storing the pointer appends the samples written since, in order.
LEMMA StoreRing ==
  ASSUME Ring, Store
  PROVE  Fits' /\ Ordered' /\ SQ!Next
<1>1. UNCHANGED <<buf, r, frac, frun, paused, held, cb, sent, out>> /\ main.pc = "store"
  BY DEF Store
<1> DEFINE n == Count
           u == Unstored
<1>2. /\ w' = Ahead(w, u) /\ u \in 1 .. Frame /\ u <= Coming /\ Coming <= Frame
      /\ Unstored' = 0 /\ Coming' = Coming - u
  BY StoreBasic DEF Ring
<1>3. Reader' = Reader /\ Holds' = Holds
  BY <1>1, SameReader
<1>4. /\ r \in Slot /\ w \in Slot /\ cb.r \in Slot /\ cb.w \in Slot /\ Reader \in Slot
      /\ sent \in Nat /\ buf \in [Slot -> Nat] /\ Coming \in 0 .. Frame /\ out \in Nat
  BY Types DEF Ring
<1>5. n \in 0 .. Size /\ w = Ahead(Reader, n) /\ n + Coming <= Size
  BY Spans DEF Ring, Fits
<1>6. u \in 0 .. Size /\ n + u \in 1 .. Size /\ n + u \in 0 .. Size
  BY <1>2, <1>4, <1>5, Sizes
<1>7. w' = Ahead(Reader, n + u) /\ w' \in Slot
  BY <1>2, <1>4, <1>5, <1>6, AheadAgain, AheadIs
<1>8. \A i \in 0 .. u - 1 : buf[Ahead(Reader, n + i)] = sent - u + 1 + i
  <2> TAKE i \in 0 .. u - 1
  <2>1. i \in 0 .. Size /\ n + i \in 0 .. Size
    BY <1>4, <1>5, <1>6, <1>2, Sizes
  <2>2. Ahead(Reader, n + i) = Ahead(w, i)
    BY <1>4, <1>5, <2>1, AheadAgain
  <2> QED BY <2>2 DEF Ring, Ordered
<1>9. Taken' = sent
  <2>1. u - 1 \in 0 .. u - 1 /\ u - 1 \in 0 .. Size
    BY <1>2, <1>6, Sizes
  <2>2. buf[Ahead(w, u - 1)] = sent
    <3>1. buf[Ahead(w, u - 1)] = sent - u + 1 + (u - 1)
      BY <2>1 DEF Ring, Ordered
    <3> QED BY <1>2, <1>4, <3>1
  <2>3. Ahead(w', Size - 1) = Ahead(w, u - 1)
    <3>1. w' = IF w + u < Size THEN w + u ELSE w + u - Size
      BY <1>2, <1>4, <1>6, AheadIs
    <3>2. Ahead(w', Size - 1) = IF w' + (Size - 1) < Size THEN w' + (Size - 1)
                                ELSE w' + (Size - 1) - Size
      BY <1>7, Turn, AheadIs
    <3>3. Ahead(w, u - 1) = IF w + (u - 1) < Size THEN w + (u - 1) ELSE w + (u - 1) - Size
      BY <1>4, <2>1, AheadIs
    <3> HIDE DEF u
    <3>4. w \in 0 .. Size - 1 /\ u \in 1 .. Frame /\ Size \in Nat /\ Frame <= Size - 1
          /\ Frame \in Nat
      BY <1>2, <1>4, Sizes DEF Slot
    <3>5. CASE w + u < Size
      BY <3>1, <3>2, <3>3, <3>4, <3>5
    <3>6. CASE w + u >= Size
      BY <3>1, <3>2, <3>3, <3>4, <3>6
    <3> QED BY <3>4, <3>5, <3>6
  <2> QED BY <1>1, <2>2, <2>3, QueueIs
<1>10. Taken \in Nat /\ Taken + u <= sent /\ out <= Taken
       /\ (Holds => Turned <= Taken) /\ Turned \in Nat
  BY Ends DEF Ring, Ordered
<1>11. \A i \in 0 .. n - 1 : buf[Ahead(Reader, i)] <= Taken /\ buf[Ahead(Reader, i)] \in Nat
  <2> TAKE i \in 0 .. n - 1
  <2>1. n >= 1 /\ n - 1 \in 0 .. n - 1 /\ i \in 0 .. Size /\ i <= n - 1
    BY <1>5, Sizes
  <2>2. Taken = buf[Ahead(Reader, n - 1)] /\ Ahead(Reader, i) \in Slot
    BY <1>4, <2>1, Ends, AheadIs
  <2> QED BY <1>4, <2>1, <2>2 DEF Ring, Ordered
<1>12. \A i \in 0 .. n + u - 1 :
         \/ i \in 0 .. n - 1
         \/ i >= n /\ buf[Ahead(Reader, i)] = sent - u + 1 + (i - n)
  <2> TAKE i \in 0 .. n + u - 1
  <2>1. CASE i >= n
    <3>1. i - n \in 0 .. u - 1 /\ n + (i - n) = i
      BY <1>2, <1>5, <2>1
    <3> QED BY <1>8, <2>1, <3>1
  <2>2. CASE i < n
    BY <1>5, <2>2
  <2> QED BY <1>5, <2>1, <2>2
<1>13. /\ \A i, j \in 0 .. n + u - 1 :
            i <= j => buf[Ahead(Reader, i)] <= buf[Ahead(Reader, j)]
       /\ \A i \in 0 .. n + u - 1 : out <= buf[Ahead(Reader, i)]
  <2>1. ASSUME NEW i \in 0 .. n + u - 1, NEW j \in 0 .. n + u - 1, i <= j
        PROVE  buf[Ahead(Reader, i)] <= buf[Ahead(Reader, j)]
    <3>1. CASE j \in 0 .. n - 1
      <4>1. i \in 0 .. n - 1
        BY <2>1, <3>1, <1>5
      <4> QED BY <2>1, <3>1, <4>1 DEF Ring, Ordered
    <3>2. CASE j >= n /\ buf[Ahead(Reader, j)] = sent - u + 1 + (j - n)
      <4>1. CASE i \in 0 .. n - 1
        <5>1. buf[Ahead(Reader, i)] <= Taken /\ buf[Ahead(Reader, i)] \in Nat
          BY <1>11, <4>1
        <5> HIDE DEF u, n
        <5> QED BY <1>2, <1>4, <1>5, <1>6, <1>10, <3>2, <5>1
      <4>2. CASE i >= n /\ buf[Ahead(Reader, i)] = sent - u + 1 + (i - n)
        <5> HIDE DEF u, n
        <5> QED BY <1>2, <1>4, <1>5, <1>6, <2>1, <3>2, <4>2
      <4> QED BY <1>12, <4>1, <4>2
    <3> QED BY <1>12, <3>1, <3>2
  <2>2. ASSUME NEW i \in 0 .. n + u - 1 PROVE out <= buf[Ahead(Reader, i)]
    <3>1. CASE i \in 0 .. n - 1
      BY <3>1 DEF Ring, Ordered
    <3>2. CASE i >= n /\ buf[Ahead(Reader, i)] = sent - u + 1 + (i - n)
      <4> HIDE DEF u, n
      <4> QED BY <1>2, <1>4, <1>5, <1>6, <1>10, <2>2, <3>2
    <3> QED BY <1>12, <3>1, <3>2
  <2> QED BY <2>1, <2>2
<1> DEFINE k == Used(cb.w, w)
<1>14. ASSUME Holds
       PROVE  /\ Used(cb.w, w') = k + u /\ k + Coming <= Frame /\ k \in Nat /\ Reader = cb.r
              /\ n = Used(cb.r, cb.w) + k /\ Used(cb.r, cb.w) \in Nat /\ cb.w # w'
  <2>1. k \in Slot /\ Ahead(cb.w, k) = w /\ k + Coming <= Frame /\ Reader = cb.r
        /\ n = Used(cb.r, cb.w) + k /\ Used(cb.r, cb.w) \in Slot
    BY <1>4, <1>14, UsedIs, AheadUsed DEF Ring, Fits, Reader
  <2> HIDE DEF k, u
  <2>2. k + u \in 0 .. Size - 1 /\ k \in 0 .. Size /\ k + u \in 0 .. Size /\ k + u >= 1
    BY <1>2, <1>4, <2>1, Sizes DEF Slot
  <2>3. w' = Ahead(cb.w, k + u)
    BY <1>2, <1>4, <1>6, <2>1, <2>2, AheadAgain
  <2>4. Used(cb.w, w') = k + u
    BY <1>4, <2>2, <2>3, UsedAhead
  <2>5. Used(cb.w, cb.w) = 0
    BY <1>4, Turn
  <2> QED BY <2>1, <2>2, <2>4, <2>5 DEF Slot
<1>15. Count' = n + u \/ (n + u = Size /\ Count' = 0 /\ ~Holds)
  <2>1. CASE n + u < Size
    <3>1. n + u \in 0 .. Size - 1
      BY <1>6, <2>1, Sizes
    <3>2. Used(Reader, w') = n + u
      BY <1>4, <1>7, <3>1, UsedAhead
    <3>3. Reader' # w'
      <4>1. Used(Reader, Reader) = 0
        BY <1>4, Turn
      <4> QED BY <1>3, <1>6, <3>2, <4>1
    <3>4. Holds => cb'.r # w'
      BY <1>1, <1>3, <1>14, <3>3
    <3> QED BY <1>1, <1>3, <3>2, <3>4 DEF Count
  <2>2. CASE n + u = Size
    <3>1. w' = Reader
      BY <1>4, <1>7, <2>2, Turn
    <3>2. CASE Holds
      BY <1>1, <1>3, <1>14, <2>2, <3>1, <3>2 DEF Count
    <3>3. CASE ~Holds
      BY <1>1, <1>3, <1>4, <2>2, <3>1, <3>3, Turn DEF Count
    <3> QED BY <3>2, <3>3
  <2> QED BY <1>6, <2>1, <2>2, Sizes
<1> HIDE DEF n, u, k
<1>16. Fits'
  <2>1. Count' + Coming' <= Size
    BY <1>2, <1>4, <1>5, <1>6, <1>15, Sizes
  <2>2. ASSUME Holds
        PROVE  /\ Count' = Used(cb'.r, cb'.w) + Used(cb'.w, w')
               /\ Used(r', cb'.r) + Used(cb'.r, cb'.w) = Used(r', cb'.w)
               /\ Used(cb'.w, w') + Coming' <= Frame
               /\ cb'.busy
               /\ Used(r', cb'.r) + cb'.left <= OutLen
    <3>1. Count' = n + u
      BY <1>15, <2>2
    <3>2. Used(r, cb.r) + Used(cb.r, cb.w) = Used(r, cb.w)
      BY <2>2 DEF Ring, Fits
    <3>3. cb.busy /\ Used(r, cb.r) + cb.left <= OutLen
      BY <1>1, <2>2 DEF Ring, Fits
    <3> QED BY <1>1, <1>2, <1>4, <1>14, <2>2, <3>1, <3>2, <3>3
  <2> QED BY <1>3, <2>1, <2>2 DEF Fits
<1>17. Count' \in 0 .. n + u
  BY <1>5, <1>6, <1>15
<1>18. Ordered'
  <2>1. \A i \in 0 .. Count' - 1 : i \in 0 .. n + u - 1
    <3> DEFINE c == Count'
    <3>1. n \in Int /\ u \in Int /\ n + u >= c /\ c \in Int
      BY <1>2, <1>5, <1>6, <1>17, Sizes
    <3> HIDE DEF c
    <3>2. \A i \in 0 .. c - 1 : i \in 0 .. n + u - 1
      BY <3>1
    <3> QED BY <3>2 DEF c
  <2>2. ASSUME Holds, NEW j \in 0 .. Used(cb.w, w') - 1
        PROVE  Turned <= buf[Ahead(cb.w, j)]
    <3>1. CASE j < k
      <4>1. j \in 0 .. k - 1
        BY <1>14, <2>2, <3>1
      <4> QED BY <2>2, <4>1 DEF Ring, Ordered, k
    <3>2. CASE j >= k
      <4>1. Ahead(cb.w, k) = w
        BY <1>4, AheadUsed DEF k
      <4>2. j - k \in 0 .. u - 1 /\ j - k \in 0 .. Size /\ j \in 0 .. Size /\ k \in 0 .. Size
            /\ k + (j - k) = j
        BY <1>2, <1>4, <1>6, <1>14, <2>2, <3>2, Sizes
      <4>3. Ahead(cb.w, j) = Ahead(w, j - k)
        BY <1>4, <4>1, <4>2, AheadAgain
      <4>4. buf[Ahead(w, j - k)] = sent - u + 1 + (j - k)
        BY <4>2 DEF Ring, Ordered, u
      <4> QED BY <1>2, <1>4, <1>10, <2>2, <4>2, <4>3, <4>4
    <3> QED BY <1>14, <2>2, <3>1, <3>2
  <2>3. Turned' = Turned
    BY <1>1 DEF Turned
  <2>4. Holds => out <= Turned
    BY DEF Ring, Ordered
  <2>5. out' <= Taken' /\ Taken' + Unstored' <= sent'
    BY <1>1, <1>2, <1>4, <1>6, <1>9, <1>10
  <2>6. \A i, j \in 0 .. Count' - 1 :
          i <= j => buf'[Ahead(Reader', i)] <= buf'[Ahead(Reader', j)]
    BY <1>1, <1>3, <1>13, <2>1
  <2>7. \A i \in 0 .. Count' - 1 : out' <= buf'[Ahead(Reader', i)]
    BY <1>1, <1>3, <1>13, <2>1
  <2>8. \A j \in 0 .. Unstored' - 1 : buf'[Ahead(w', j)] = sent' - Unstored' + 1 + j
    BY <1>2
  <2>9. Holds' => /\ out' <= Turned'
                  /\ \A j \in 0 .. Used(cb'.w, w') - 1 : Turned' <= buf'[Ahead(cb'.w, j)]
    BY <1>1, <1>3, <2>2, <2>3, <2>4
  <2> QED BY <2>5, <2>6, <2>7, <2>8, <2>9 DEF Ordered
<1>19. SQ!Next
  <2> DEFINE q  == Segment(buf, Reader, n)
             q2 == Segment(buf', Reader', Count')
  <2>1. /\ q \in Seq(Nat) /\ Len(q) = n
        /\ \A i \in 1 .. n : q[i] = buf[Ahead(Reader, i - 1)]
    BY <1>4, <1>5, SegmentIs
  <2>2. ~frun /\ ~frun' /\ Waiting = q /\ Waiting' = q2 /\ out' = out
    BY <1>1, QueueIs DEF Ring, n
  <2> DEFINE x == sent - u
  <2>3. x \in Nat /\ x + u = sent /\ Taken' = x + u /\ sent' - Unstored' = x + u
        /\ u \in 1 .. Frame
    BY <1>1, <1>2, <1>4, <1>6, <1>9, <1>10
  <2>4. CASE Count' = n + u
    <3>1. q2 = Segment(buf, Reader, n + u)
      BY <1>1, <1>3, <2>4
    <3>2. \A j \in 0 .. u - 1 : buf[Ahead(Reader, n + j)] = x + 1 + j
      BY <1>8 DEF n, u
    <3>3. Segment(buf, Reader, n + u) = Segment(buf, Reader, n) \o [i \in 1 .. u |-> x + i]
      <4> HIDE DEF x
      <4>1. \A y \in Nat :
              (\A j \in 0 .. u - 1 : buf[Ahead(Reader, n + j)] = y + 1 + j)
                => Segment(buf, Reader, n + u)
                     = Segment(buf, Reader, n) \o [i \in 1 .. u |-> y + i]
        BY <1>4, <1>5, <1>6, SegmentExtended
      <4> QED BY <2>3, <3>2, <4>1
    <3>4. Len(q2) = n + u
      BY <1>4, <1>6, <3>1, SegmentIs
    <3> HIDE DEF q, q2
    <3> DEFINE y == IF frun THEN 0 ELSE sent - Unstored
    <3>5. y = x /\ (IF frun' THEN 0 ELSE sent' - Unstored') = y + u
      BY <2>2, <2>3 DEF u
    <3> HIDE DEF x, y
    <3>6. q2 = q \o [i \in 1 .. u |-> y + i]
      BY <3>1, <3>3, <3>5 DEF q
    <3>7. SQ!Put
      <4>1. SQ!Take(u)
        BY <1>1, <2>2, <2>3, <3>5, QueueIs DEF SQ!Take, y
      <4>2. Waiting' = Waiting \o [i \in 1 .. u |-> y + i]
        BY <2>2, <3>6
      <4> QED BY <1>6, <2>2, <2>3, <3>4, <4>1, <4>2, Sizes DEF SQ!Put, y
    <3> QED BY <3>7 DEF SQ!Next
  <2>5. CASE n + u = Size /\ Count' = 0
    <3>1. q2 \in Seq(Nat) /\ Len(q2) = 0
      BY <1>1, <1>3, <1>4, <2>5, SegmentIs, Turn
    <3> HIDE DEF q, q2
    <3>2. q2 = <<>>
      BY <3>1, EmptySeq
    <3>3. (x + u) % Frame = 0
      <4>1. Coming = u
        BY <1>2, <1>4, <1>5, <2>5
      <4>2. main.left = 0
        BY <1>1, <1>2, <4>1, Sizes DEF Coming, Unstored, u, Ring, Basic, MainSound, TypeOK
      <4>3. (sent + main.left) % Frame = 0 /\ sent + main.left = x + u
        BY <1>4, <2>3, <4>2 DEF Ring, Basic, MainSound
      <4> QED BY <4>3
    <3>4. SQ!Overrun
      BY <1>1, <2>1, <2>2, <2>3, <2>5, <3>2, <3>3, QueueIs
      DEF SQ!Overrun, SQ!Take, SQ!EndOfFrame, u
    <3> QED BY <3>4 DEF SQ!Next
  <2> QED BY <1>15, <2>4, <2>5
<1> QED BY <1>16, <1>18, <1>19

\* A callback that begins changes no queue.
LEMMA CallRing ==
  ASSUME Ring, Call
  PROVE  Fits' /\ Ordered' /\ UNCHANGED SQ!qvars
<1>1. PICK x \in Step :
        cb' = [cb EXCEPT !.pc = IF frun THEN "start" ELSE "play",
                         !.left = OutLen, !.r = r, !.w = w, !.xinc = x,
                         !.busy = main.pc # "idle"]
  BY DEF Call
<1>2. /\ UNCHANGED <<buf, r, w, frac, frun, paused, held, main, sent, out>>
      /\ ~paused /\ cb.pc = "idle" /\ ~frun
  BY DEF Call, Ring
<1>3. /\ Unstored' = Unstored /\ Coming' = Coming /\ cb'.pc = "play" /\ cb'.r = r
      /\ cb'.w = w /\ cb'.busy = (main.pc # "idle") /\ cb'.left = OutLen
  BY <1>1, <1>2, CallBasic DEF Ring
<1>4. /\ r \in Slot /\ w \in Slot /\ sent \in Nat /\ Coming \in 0 .. Frame
      /\ buf \in [Slot -> Nat] /\ Used(r, w) \in Slot
  <2>1. /\ r \in Slot /\ w \in Slot /\ sent \in Nat /\ Coming \in 0 .. Frame
        /\ buf \in [Slot -> Nat]
    BY Types DEF Ring
  <2> QED BY <2>1, UsedIs
<1>5. ~Holds /\ Count = Used(r, w) /\ Reader = r
  <2>1. ~Holds
    BY <1>2 DEF Holds
  <2> QED BY <2>1, Spans DEF Ring
<1>6. Reader' = Reader /\ Count' = Count
  <2>1. Reader' = r
    BY <1>2, <1>3 DEF Reader
  <2> QED BY <1>2, <1>3, <1>5, <2>1 DEF Count
<1>7. Used(r, r) = 0 /\ Used(w, w) = 0
  BY <1>4, Turn
<1>8. Fits'
  <2>1. Count' + Coming' <= Size
    BY <1>3, <1>6 DEF Ring, Fits
  <2>2. /\ Count' = Used(cb'.r, cb'.w) + Used(cb'.w, w')
        /\ Used(r', cb'.r) + Used(cb'.r, cb'.w) = Used(r', cb'.w)
        /\ Used(cb'.w, w') + Coming' <= Frame
    <3>1. Used(r, w) \in Nat
      BY <1>4 DEF Slot
    <3> QED BY <1>2, <1>3, <1>4, <1>5, <1>6, <1>7, <3>1, Sizes
  <2>3. ~cb'.busy => main'.pc = "idle" /\ cb'.w = w'
    BY <1>2, <1>3
  <2>4. Used(r', cb'.r) + cb'.left <= OutLen
    BY <1>2, <1>3, <1>7, Sizes
  <2> QED BY <2>1, <2>2, <2>3, <2>4 DEF Fits
<1>9. Taken' = Taken /\ Turned' = Taken
  BY <1>2, <1>3 DEF Taken, Turned
<1>10. Ordered'
  <2>1. \A j \in 0 .. Used(cb'.w, w') - 1 : Turned' <= buf'[Ahead(cb'.w, j)]
    BY <1>2, <1>3, <1>7
  <2> HIDE DEF Taken
  <2> QED BY <1>2, <1>3, <1>6, <1>9, <2>1 DEF Ring, Ordered
<1>11. UNCHANGED SQ!qvars
  BY <1>2, <1>3, <1>6, QueueIs DEF SQ!qvars
<1> QED BY <1>8, <1>10, <1>11

\* Clearing loses the whole queue.
LEMMA ClearRing ==
  ASSUME Basic, Clear
  PROVE  Fits' /\ Ordered' /\ SQ!Next
<1>1. /\ Basic' /\ Unstored' = 0 /\ Coming' = 0 /\ frun
      /\ r' = 0 /\ w' = Fill /\ cb'.r = 0 /\ cb'.w = Fill /\ cb'.pc = "play"
      /\ main'.pc = "idle" /\ ~frun' /\ out' = 0 /\ held' = held
      /\ cb'.left \in 0 .. OutLen
  BY ClearBasic
<1>2. buf' = [i \in Slot |-> 0] /\ sent' = sent /\ sent \in Nat /\ out' = out
  BY Types DEF Clear
<1>3. Reader' = 0
  BY <1>1 DEF Reader
<1>4. Used(0, 0) = 0 /\ Used(Fill, Fill) = 0 /\ Used(0, Fill) = Fill
  <2>1. Used(0, Fill) = IF Fill >= 0 THEN Fill - 0 ELSE Fill - 0 + Size
    BY ZeroSlot, UsedIs
  <2> QED BY <2>1, ZeroSlot, Turn, Sizes
<1>5. Count' = Fill
  BY <1>1, <1>3, <1>4 DEF Count
<1>6. Fits'
  <2>1. Used(r', cb'.r) + cb'.left <= OutLen
    BY <1>1, <1>4, Sizes
  <2> QED BY <1>1, <1>4, <1>5, <2>1, Sizes DEF Fits
<1>7. \A i \in Slot, n \in 0 .. Size - 1 : buf'[Ahead(i, n)] = 0
  BY <1>2, AheadIs, Turn
<1>8. Taken' = 0 /\ Turned' = 0
  <2>1. Size - 1 \in 0 .. Size - 1
    BY Sizes
  <2> QED BY <1>1, <1>7, <2>1, ZeroSlot DEF Taken, Turned
<1>9. \A i \in 0 .. Fill - 1 : i \in 0 .. Size - 1
  BY Sizes
<1>10. Ordered'
  <2>1. \A i \in 0 .. Count' - 1 : buf'[Ahead(Reader', i)] = 0
    BY <1>3, <1>5, <1>7, <1>9, ZeroSlot
  <2>2. Used(cb'.w, w') = 0
    BY <1>1, <1>4
  <2>3. \A j \in 0 .. Used(cb'.w, w') - 1 : Turned' <= buf'[Ahead(cb'.w, j)]
    BY <2>2
  <2> QED BY <1>1, <1>2, <1>8, <2>1, <2>3 DEF Ordered
<1>11. SQ!Start
  <2>1. Waiting' \in Seq({0})
    <3>1. \A k \in 1 .. Fill : k - 1 \in 0 .. Size - 1
      BY Sizes
    <3>2. \A k \in 1 .. Fill : buf'[Ahead(0, k - 1)] = 0
      BY <1>7, <3>1, ZeroSlot
    <3>3. Segment(buf', 0, Fill) \in [1 .. Fill -> {0}] /\ Fill \in Nat
      BY <3>2, Sizes DEF Segment
    <3>4. Segment(buf', 0, Fill) \in Seq({0})
      BY <3>3, SeqDef
    <3> QED BY <1>3, <1>5, <3>4, QueueIs
  <2>2. sent' - Unstored' \in Nat /\ (sent' - Unstored') % Frame = 0
    <3>1. (sent' + main'.left) % Frame = 0 /\ main'.left = 0
      BY <1>1 DEF Basic, MainSound
    <3>2. sent' + main'.left = sent' - Unstored' /\ sent' - Unstored' = sent'
      BY <1>1, <1>2, <3>1
    <3> QED BY <1>2, <3>1, <3>2
  <2>3. frun' = FALSE /\ frun = TRUE
    BY <1>1 DEF Clear, Basic, TypeOK
  <2> QED BY <1>1, <1>2, <1>8, <2>1, <2>2, <2>3, QueueIs DEF SQ!Start, SQ!EndOfFrame
<1> QED BY <1>6, <1>10, <1>11 DEF SQ!Next

\* What a callback plays is not older than what was heard, nor newer than what
\* waits.
LEMMA PlayHears ==
  ASSUME Ring, Play
  PROVE  /\ PlayAt = Reader /\ (PlayAt # PlayLimit => Count >= 1)
         /\ PlaySample \in Nat /\ out <= PlaySample /\ PlaySample <= Taken
         /\ \A i \in 0 .. Count - 1 : PlaySample <= buf[Ahead(Reader, i)]
         /\ PlayAt # PlayLimit => PlaySample = buf[Reader]
         /\ Count = 0 => PlaySample = Taken
         /\ Holds => PlaySample <= Turned /\ (PlayAt # PlayLimit => Used(cb.r, cb.w) >= 1)
<1>1. cb.pc = "play" /\ ~frun /\ PlayAt = Reader
  BY DEF Play, PlayAt, Reader, Holds, Ring
<1>2. /\ r \in Slot /\ w \in Slot /\ cb.r \in Slot /\ cb.w \in Slot /\ Reader \in Slot
      /\ buf \in [Slot -> Nat] /\ out \in Nat
  BY Types DEF Ring
<1>3. Count \in 0 .. Size /\ (~Holds => Count = Used(r, w))
  BY Spans DEF Ring
<1>4. \A i \in Slot, n \in 0 .. Size : buf[Ahead(i, n)] \in Nat
  BY <1>2, AheadIs
<1>5. /\ \A i, j \in 0 .. Count - 1 :
            i <= j => buf[Ahead(Reader, i)] <= buf[Ahead(Reader, j)]
      /\ \A i \in 0 .. Count - 1 : out <= buf[Ahead(Reader, i)]
      /\ out <= Taken /\ (Holds => out <= Turned)
  BY DEF Ring, Ordered
<1>6. Ahead(Reader, 0) = Reader
  BY <1>2, Turn
<1>7. CASE Count >= 1 /\ PlayAt # PlayLimit
  <2>1. 0 \in 0 .. Count - 1 /\ Count - 1 \in 0 .. Count - 1
    BY <1>3, <1>7
  <2>2. PlaySample = buf[Reader] /\ Taken = buf[Ahead(Reader, Count - 1)]
    BY <1>1, <1>7, Ends DEF PlaySample
  <2>3. \A i \in 0 .. Count - 1 : i >= 0 /\ PlaySample <= buf[Ahead(Reader, i)]
    BY <1>5, <1>6, <2>1, <2>2
  <2>4. ASSUME Holds PROVE PlaySample <= Turned /\ Used(cb.r, cb.w) >= 1
    <3>1. PlayAt = cb.r /\ PlayLimit = cb.w
      BY <2>4 DEF PlayAt, PlayLimit, Holds
    <3>2. Used(cb.r, cb.w) \in Slot /\ Used(cb.r, cb.w) # 0
      <4>1. Used(cb.r, cb.w) \in Slot /\ Ahead(cb.r, Used(cb.r, cb.w)) = cb.w
        BY <1>2, UsedIs, AheadUsed
      <4>2. Ahead(cb.r, 0) = cb.r
        BY <1>2, Turn
      <4> QED BY <1>7, <3>1, <4>1, <4>2
    <3>3. Used(cb.r, cb.w) >= 1 /\ Used(cb.r, cb.w) - 1 \in 0 .. Count - 1
      <4>1. Count = Used(cb.r, cb.w) + Used(cb.w, w) /\ Used(cb.w, w) \in 0 .. Frame
        BY <2>4, Ends
      <4> QED BY <3>2, <4>1, Sizes DEF Slot
    <3>4. Turned = buf[Ahead(Reader, Used(cb.r, cb.w) - 1)]
      BY <2>4, <3>3, Ends
    <3> QED BY <2>3, <3>3, <3>4
  <2>5. PlaySample \in Nat
    BY <1>2, <2>2
  <2> QED BY <1>1, <1>3, <1>5, <1>6, <1>7, <2>1, <2>2, <2>3, <2>4, <2>5
<1>8. CASE PlayAt = PlayLimit /\ ~Holds
  <2>1. Reader = r /\ PlayLimit = w /\ Count = 0
    <3>1. Reader = r /\ PlayLimit = w
      BY <1>1, <1>8 DEF Reader, PlayLimit, Holds
    <3> QED BY <1>1, <1>2, <1>3, <1>8, <3>1, Turn
  <2>2. PlaySample = Taken
    BY <1>1, <1>8, <2>1 DEF PlaySample, Taken
  <2> QED BY <1>1, <1>5, <1>8, <2>1, <2>2, Ends
<1>9. CASE PlayAt = PlayLimit /\ Holds
  <2>1. Reader = cb.r /\ cb.r = cb.w
    BY <1>1, <1>9 DEF Reader, PlayLimit, Holds
  <2>2. PlaySample = Turned
    BY <1>1, <1>9, <2>1 DEF PlaySample, Turned
  <2>3. Used(cb.r, cb.w) = 0
    BY <1>2, <2>1, Turn
  <2>4. Count = Used(cb.w, w)
    BY <1>9, <2>3, Ends
  <2>5. \A i \in 0 .. Count - 1 : Turned <= buf[Ahead(Reader, i)]
    BY <1>9, <2>1, <2>4 DEF Ring, Ordered
  <2> QED BY <1>1, <1>5, <1>9, <2>2, <2>4, <2>5, Ends
<1>10. Count >= 1 \/ PlayAt = PlayLimit
  <2> SUFFICES ASSUME Count = 0 PROVE PlayAt = PlayLimit
    BY <1>3
  <2>1. CASE ~Holds
    <3>1. Used(r, w) = 0 /\ Reader = r /\ PlayLimit = w
      BY <1>1, <1>3, <2>1 DEF Reader, PlayLimit, Holds
    <3> QED BY <1>1, <1>2, <3>1, AheadUsed, Turn
  <2>2. CASE Holds
    <3>1. Used(cb.r, cb.w) = 0 /\ Reader = cb.r /\ PlayLimit = cb.w
      <4>1. Used(cb.r, cb.w) \in 0 .. Size - 1 /\ Used(cb.w, w) \in 0 .. Frame
            /\ Count = Used(cb.r, cb.w) + Used(cb.w, w)
        BY <2>2, Ends
      <4> QED BY <2>2, <4>1, Sizes DEF Reader, PlayLimit, Holds
    <3> QED BY <1>1, <1>2, <3>1, AheadUsed, Turn
  <2> QED BY <2>1, <2>2
<1> QED BY <1>7, <1>8, <1>9, <1>10

\* The pointer after a sample: the same, the next, or, after a callback that was
\* passed by the whole ring, that of an empty ring.
LEMMA PlayMoves ==
  ASSUME Ring, Play
  PROVE  /\ Reader' = PlayNext
         /\ \/ PlayNext = Reader /\ Count' = Count
            \/ PlayNext = Ahead(Reader, 1) /\ Count >= 1 /\ Count' = Count - 1
            \/ PlayNext = Reader /\ Count = Size /\ Count' = 0 /\ ~Holds'
<1>1. /\ UNCHANGED <<buf, w, frun, held, main, sent>> /\ ~frun
      /\ PlayNext \in {PlayAt, Advance(PlayAt)} /\ PlayNext \in Slot
      /\ PlayAt = PlayLimit => PlayNext = PlayAt
      /\ \/ /\ cb'.pc = "play" /\ cb'.r = PlayNext /\ cb'.w = cb.w /\ cb'.busy = cb.busy
            /\ cb'.left = cb.left - 1
            /\ r' = IF held.cb THEN r ELSE PlayNext
         \/ cb'.pc = "idle" /\ r' = PlayNext
  BY PlayBasic DEF Ring
<1>2. /\ PlayAt = Reader /\ (PlayAt # PlayLimit => Count >= 1)
      /\ Holds => (PlayAt # PlayLimit => Used(cb.r, cb.w) >= 1)
  BY PlayHears
<1>3. /\ r \in Slot /\ w \in Slot /\ cb.r \in Slot /\ cb.w \in Slot /\ Reader \in Slot
  BY Types DEF Ring
<1>4. Count \in 0 .. Size /\ w = Ahead(Reader, Count)
      /\ (Count < Size => Count = Used(Reader, w))
  BY Spans DEF Ring
<1>5. Reader' = PlayNext
  BY <1>1 DEF Reader, Holds
<1>6. Advance(Reader) = Ahead(Reader, 1)
  BY <1>3, Turn
<1>7. cb.pc = "play" /\ (Holds' => Holds)
  BY <1>1 DEF Play, Holds
<1>8. Holds' => cb'.w = cb.w
  BY <1>1 DEF Holds
<1>9. CASE PlayNext = Reader
  <2>1. CASE Count < Size
    <3>1. ~(Holds /\ Reader = w /\ cb.w # w)
      <4>1. Holds /\ Reader = w /\ cb.w # w => Count = Size
        BY DEF Count, Reader
      <4> QED BY <1>4, <2>1, <4>1, Sizes
    <3>2. Count' = Used(Reader', w')
      <4>1. ~(Holds' /\ Reader' = w' /\ cb'.w # w')
        BY <1>1, <1>5, <1>7, <1>8, <1>9, <3>1
      <4>2. Holds' => Reader' = cb'.r
        BY DEF Reader
      <4> QED BY <4>1, <4>2 DEF Count
    <3> QED BY <1>1, <1>4, <1>5, <1>9, <2>1, <3>2
  <2>2. CASE Count = Size
    <3>1. Reader = w
      BY <1>3, <1>4, <2>2, Turn
    <3>2. Holds /\ cb.w # w
      <4>1. Used(w, w) = 0
        BY <1>3, Turn
      <4> QED BY <2>2, <3>1, <4>1, Sizes DEF Count, Reader
    <3>3. CASE Holds'
      <4>1. cb'.r = w' /\ cb'.w # w'
        BY <1>1, <1>5, <1>8, <1>9, <3>1, <3>2, <3>3 DEF Reader
      <4>2. Count' = Size
        BY <3>3, <4>1 DEF Count
      <4> QED BY <1>5, <1>9, <2>2, <4>2
    <3>4. CASE ~Holds'
      <4>1. Count' = Used(Reader', w')
        BY <3>4 DEF Count
      <4>2. Count' = 0
        BY <1>1, <1>3, <1>5, <1>9, <3>1, <4>1, Turn
      <4> QED BY <1>5, <1>9, <2>2, <3>4, <4>2
    <3> QED BY <3>3, <3>4
  <2> QED BY <1>4, <2>1, <2>2, Sizes
<1>10. CASE PlayNext # Reader
  <2>1. PlayNext = Ahead(Reader, 1) /\ PlayAt # PlayLimit /\ Count >= 1
    BY <1>1, <1>2, <1>6, <1>10
  <2>2. Count - 1 \in 0 .. Size - 1 /\ Count - 1 \in 0 .. Size /\ 1 + (Count - 1) = Count
    BY <1>4, <2>1, Sizes
  <2>3. w = Ahead(PlayNext, Count - 1)
    BY <1>3, <1>4, <2>1, <2>2, AheadAgain, Turn
  <2>4. Used(PlayNext, w) = Count - 1
    BY <1>1, <2>2, <2>3, UsedAhead
  <2>5. ~(Holds' /\ PlayNext = w /\ cb.w # w)
    <3> SUFFICES ASSUME Holds', PlayNext = w, cb.w # w PROVE FALSE
      OBVIOUS
    <3>1. Count = 1
      <4>1. Used(w, w) = 0
        BY <1>3, Turn
      <4> QED BY <1>4, <2>2, <2>4, <4>1
    <3>2. /\ Used(cb.r, cb.w) >= 1 /\ Used(cb.r, cb.w) \in 0 .. Size - 1
          /\ Used(cb.w, w) \in 0 .. Frame
          /\ Count = Used(cb.r, cb.w) + Used(cb.w, w)
      BY <1>2, <1>7, <2>1, Ends
    <3>3. Used(cb.w, w) = 0
      BY <3>1, <3>2
    <3> QED BY <1>3, <3>3, AheadUsed, Turn
  <2>6. Count' = Used(Reader', w')
    <3>1. ~(Holds' /\ Reader' = w' /\ cb'.w # w')
      BY <1>1, <1>5, <1>8, <2>5
    <3>2. Holds' => Reader' = cb'.r
      BY DEF Reader
    <3> QED BY <3>1, <3>2 DEF Count
  <2> QED BY <1>1, <1>5, <2>1, <2>4, <2>6
<1> QED BY <1>9, <1>10

\* Playing takes the head of the queue, or nothing when it is empty.
LEMMA PlayRing ==
  ASSUME Ring, Play
  PROVE  Fits' /\ Ordered' /\ SQ!Next
<1>1. /\ UNCHANGED <<buf, w, frun, held, main, sent>> /\ ~frun
      /\ PlayNext \in Slot /\ (PlayAt = PlayLimit => PlayNext = PlayAt)
      /\ PlayNext \in {PlayAt, Advance(PlayAt)}
      /\ out' = (IF PlaySample = 0 THEN out ELSE PlaySample)
      /\ \/ /\ cb'.pc = "play" /\ cb'.r = PlayNext /\ cb'.w = cb.w /\ cb'.busy = cb.busy
            /\ cb'.left = cb.left - 1
            /\ r' = IF held.cb THEN r ELSE PlayNext
         \/ cb'.pc = "idle" /\ r' = PlayNext
      /\ Unstored' = Unstored /\ Coming' = Coming
  BY PlayBasic DEF Ring
<1>2. /\ PlayAt = Reader /\ (PlayAt # PlayLimit => Count >= 1)
      /\ PlaySample \in Nat /\ out <= PlaySample /\ PlaySample <= Taken
      /\ \A i \in 0 .. Count - 1 : PlaySample <= buf[Ahead(Reader, i)]
      /\ PlayAt # PlayLimit => PlaySample = buf[Reader]
      /\ Count = 0 => PlaySample = Taken
      /\ Holds => PlaySample <= Turned /\ (PlayAt # PlayLimit => Used(cb.r, cb.w) >= 1)
  BY PlayHears
<1>3. /\ r \in Slot /\ w \in Slot /\ cb.r \in Slot /\ cb.w \in Slot /\ Reader \in Slot
      /\ buf \in [Slot -> Nat] /\ out \in Nat /\ Coming \in 0 .. Frame
      /\ cb.left \in 0 .. OutLen
  BY Types DEF Ring
<1>4. Count \in 0 .. Size /\ Count + Coming <= Size
  BY Spans DEF Ring, Fits
<1>5. /\ Reader' = PlayNext
      /\ \/ PlayNext = Reader /\ Count' = Count
         \/ PlayNext = Ahead(Reader, 1) /\ Count >= 1 /\ Count' = Count - 1
         \/ PlayNext = Reader /\ Count = Size /\ Count' = 0 /\ ~Holds'
  BY PlayMoves
<1> DEFINE c == Count'
<1>6. c \in 0 .. Count /\ c <= Count
  BY <1>4, <1>5, Sizes
<1>7. out' \in Nat /\ out <= out' /\ out' <= PlaySample
  BY <1>1, <1>2, <1>3
<1>8. ASSUME Holds'
      PROVE  /\ Holds /\ cb'.r = PlayNext /\ cb'.w = cb.w /\ cb'.busy = cb.busy /\ r' = r
             /\ Reader = cb.r /\ PlayLimit = cb.w /\ cb'.left = cb.left - 1
  BY <1>1, <1>8 DEF Holds, Reader, PlayLimit, Play
<1>9. ASSUME Holds'
      PROVE  /\ Count' = Used(PlayNext, cb.w) + Used(cb.w, w)
             /\ Used(r, PlayNext) + Used(PlayNext, cb.w) = Used(r, cb.w)
             /\ Used(r, PlayNext) <= Used(r, cb.r) + 1
  <2>1. /\ Count = Used(cb.r, cb.w) + Used(cb.w, w)
        /\ Used(r, cb.r) + Used(cb.r, cb.w) = Used(r, cb.w)
        /\ Used(cb.w, w) \in Nat
    <3>1. Used(cb.w, w) \in 0 .. Frame
      BY <1>8, <1>9, Ends
    <3> QED BY <1>8, <1>9, <3>1, Sizes DEF Ring, Fits
  <2>2. CASE PlayNext = Reader /\ Count' = Count
    <3>1. Used(r, cb.r) \in Slot
      BY <1>3, UsedIs
    <3> QED BY <1>8, <1>9, <2>1, <2>2, <3>1 DEF Slot
  <2>3. CASE PlayNext = Ahead(Reader, 1) /\ Count >= 1 /\ Count' = Count - 1
    <3> DEFINE m == Used(cb.r, cb.w)
               a == PlayNext
    <3>0. PlayNext # Reader
      <4>1. 0 \in 0 .. Size - 1 /\ 1 \in 0 .. Size - 1 /\ 0 # 1
        BY Sizes
      <4>2. Ahead(Reader, 0) # Ahead(Reader, 1)
        BY <1>3, <4>1, AheadDiffers
      <4> QED BY <1>3, <2>3, <4>2, Turn
    <3>1. m >= 1 /\ m \in Slot /\ cb.w = Ahead(cb.r, m)
      BY <1>1, <1>2, <1>3, <1>8, <1>9, <3>0, UsedIs, AheadUsed
    <3>2. m - 1 \in 0 .. Size - 1 /\ m - 1 \in 0 .. Size /\ 1 + (m - 1) = m /\ m \in 0 .. Size
      BY <3>1, Sizes DEF Slot
    <3>3. a = Ahead(cb.r, 1) /\ a \in Slot
      BY <1>1, <1>8, <1>9, <2>3
    <3> HIDE DEF m, a
    <3>4. cb.w = Ahead(a, m - 1)
      <4>1. 1 \in 0 .. Size /\ 1 + (m - 1) \in 0 .. Size
        BY <3>2, Turn
      <4>2. Ahead(Ahead(cb.r, 1), m - 1) = Ahead(cb.r, 1 + (m - 1))
        BY <1>3, <3>2, <4>1, AheadAgain
      <4> QED BY <3>1, <3>2, <3>3, <4>2
    <3>5. Used(a, cb.w) = m - 1
      BY <3>2, <3>3, <3>4, UsedAhead
    <3> DEFINE p == Used(r, cb.r)
               q == Used(r, cb.w)
    <3>6. p \in Slot /\ q \in Slot /\ p + m = q /\ cb.r = Ahead(r, p)
      BY <1>3, <2>1, UsedIs, AheadUsed DEF m
    <3> HIDE DEF p, q
    <3>7. p + 1 \in 0 .. Size - 1 /\ p + 1 \in 0 .. Size /\ p \in 0 .. Size
      BY <3>1, <3>6, Sizes DEF Slot
    <3>8. a = Ahead(r, p + 1)
      BY <1>3, <3>3, <3>6, <3>7, AheadAgain, Turn
    <3>9. Used(r, a) = p + 1
      BY <1>3, <3>7, <3>8, UsedAhead
    <3>10. (m + Used(cb.w, w)) - 1 = m - 1 + Used(cb.w, w) /\ p + 1 + (m - 1) = p + m
      BY <2>1, <3>1, <3>6 DEF Slot
    <3>11. Count = m + Used(cb.w, w)
      BY <2>1 DEF m
    <3>12. p \in Nat
      BY <3>6 DEF Slot
    <3> QED BY <2>3, <3>5, <3>6, <3>9, <3>10, <3>11, <3>12 DEF a, p, q
  <2> QED BY <1>5, <1>9, <2>2, <2>3
<1>10. Fits'
  <2>1. Count' + Coming' <= Size
    <3>1. c + Coming <= Size
      <4> HIDE DEF c
      <4> QED BY <1>3, <1>4, <1>6, Sizes
    <3> QED BY <1>1, <3>1
  <2>2. ASSUME Holds'
        PROVE  /\ Used(cb'.w, w') + Coming' <= Frame
               /\ ~cb'.busy => main'.pc = "idle" /\ cb'.w = w'
    BY <1>1, <1>8, <2>2 DEF Ring, Fits
  <2>3. ASSUME Holds'
        PROVE  /\ Count' = Used(cb'.r, cb'.w) + Used(cb'.w, w')
               /\ Used(r', cb'.r) + Used(cb'.r, cb'.w) = Used(r', cb'.w)
    BY <1>1, <1>8, <1>9, <2>3
  <2>4. ASSUME Holds' PROVE Used(r', cb'.r) + cb'.left <= OutLen
    <3>1. Used(r, cb.r) + cb.left <= OutLen
      BY <1>8, <2>4 DEF Ring, Fits
    <3>2. Used(r, cb.r) \in Slot /\ Used(r, PlayNext) \in Slot
      BY <1>1, <1>3, UsedIs
    <3>3. Used(r, PlayNext) <= Used(r, cb.r) + 1
      BY <1>9, <2>4
    <3>4. r' = r /\ cb'.r = PlayNext /\ cb'.left = cb.left - 1
      BY <1>8, <2>4
    <3>5. Used(r, PlayNext) + (cb.left - 1) <= OutLen
      BY <1>3, <3>1, <3>2, <3>3, Sizes DEF Slot
    <3> QED BY <3>4, <3>5
  <2> QED BY <2>1, <2>2, <2>3, <2>4 DEF Fits
<1>11. \A i \in 0 .. c - 1 :
         \E d \in {0, 1} : i + d \in 0 .. Count - 1 /\ Ahead(Reader', i) = Ahead(Reader, i + d)
                        /\ (PlayNext = Reader <=> d = 0)
  <2>0. PlayNext = Ahead(Reader, 1) => PlayNext # Reader
    <3>1. 0 \in 0 .. Size - 1 /\ 1 \in 0 .. Size - 1 /\ 0 # 1
      BY Sizes
    <3>2. Ahead(Reader, 0) # Ahead(Reader, 1)
      BY <1>3, <3>1, AheadDiffers
    <3> QED BY <1>3, <3>2, Turn
  <2>1. CASE PlayNext = Reader
    <3> HIDE DEF c
    <3>1. \A i \in 0 .. c - 1 : i + 0 = i /\ i \in 0 .. Count - 1
      BY <1>4, <1>6
    <3> QED BY <1>5, <2>1, <3>1
  <2>2. CASE PlayNext = Ahead(Reader, 1) /\ c = Count - 1
    <3>1. \A i \in 0 .. Count - 2 :
            i + 1 \in 0 .. Count - 1 /\ i \in 0 .. Size /\ i + 1 \in 0 .. Size /\ 1 + i = i + 1
      BY <1>4, Sizes
    <3>2. \A i \in 0 .. Count - 2 : Ahead(PlayNext, i) = Ahead(Reader, i + 1)
      BY <1>3, <2>2, <3>1, AheadAgain, Turn
    <3>3. \A i \in 0 .. c - 1 : i \in 0 .. Count - 2
      <4>1. (Count - 1) - 1 = Count - 2
        BY <1>4
      <4> QED BY <2>2, <4>1
    <3> QED BY <1>5, <2>0, <2>2, <3>1, <3>2, <3>3
  <2> QED BY <1>5, <2>1, <2>2
<1>12. Taken' = Taken /\ sent' - Unstored' = sent - Unstored
  BY <1>1 DEF Taken
<1>13. Ordered'
  <2>1. \A i, j \in 0 .. c - 1 :
          i <= j => buf[Ahead(Reader', i)] <= buf[Ahead(Reader', j)]
    <3> SUFFICES ASSUME NEW i \in 0 .. c - 1, NEW j \in 0 .. c - 1, i <= j
                 PROVE  buf[Ahead(Reader', i)] <= buf[Ahead(Reader', j)]
      OBVIOUS
    <3>1. PICK d \in {0, 1} :
            i + d \in 0 .. Count - 1 /\ Ahead(Reader', i) = Ahead(Reader, i + d)
            /\ (PlayNext = Reader <=> d = 0)
      BY <1>11
    <3>2. PICK e \in {0, 1} :
            j + e \in 0 .. Count - 1 /\ Ahead(Reader', j) = Ahead(Reader, j + e)
            /\ (PlayNext = Reader <=> e = 0)
      BY <1>11
    <3>3. i + d <= j + e
      <4> HIDE DEF c
      <4>1. c \in Int
        BY <1>4, <1>6
      <4> QED BY <3>1, <3>2, <4>1
    <3> QED BY <3>1, <3>2, <3>3 DEF Ring, Ordered
  <2>2. \A i \in 0 .. c - 1 : out' <= buf[Ahead(Reader', i)]
    <3> SUFFICES ASSUME NEW i \in 0 .. c - 1 PROVE out' <= buf[Ahead(Reader', i)]
      OBVIOUS
    <3>1. PICK d \in {0, 1} :
            i + d \in 0 .. Count - 1 /\ Ahead(Reader', i) = Ahead(Reader, i + d)
      BY <1>11
    <3>2. i + d \in 0 .. Size /\ PlaySample <= buf[Ahead(Reader, i + d)]
      BY <1>2, <1>4, <3>1, Sizes
    <3>3. buf[Ahead(Reader, i + d)] \in Nat
      BY <1>3, <3>2, AheadIs
    <3> QED BY <1>2, <1>7, <3>1, <3>2, <3>3
  <2>3. out' <= Taken' /\ Taken' + Unstored' <= sent'
    BY <1>1, <1>2, <1>7, <1>12, Ends DEF Ring, Ordered
  <2>4. \A j \in 0 .. Unstored' - 1 : buf'[Ahead(w', j)] = sent' - Unstored' + 1 + j
    BY <1>1 DEF Ring, Ordered
  <2>5. ASSUME Holds'
        PROVE  /\ out' <= Turned'
               /\ \A j \in 0 .. Used(cb'.w, w') - 1 : Turned' <= buf'[Ahead(cb'.w, j)]
    <3>1. Turned' = Turned /\ Turned \in Nat /\ PlaySample <= Turned
      BY <1>1, <1>2, <1>8, <2>5, Ends DEF Turned
    <3>2. \A j \in 0 .. Used(cb.w, w) - 1 : Turned <= buf[Ahead(cb.w, j)]
      BY <1>8, <2>5 DEF Ring, Ordered
    <3> QED BY <1>1, <1>2, <1>7, <1>8, <2>5, <3>1, <3>2
  <2> QED BY <1>1, <2>1, <2>2, <2>3, <2>4, <2>5 DEF Ordered
<1>14. SQ!Next
  <2> DEFINE q  == Segment(buf, Reader, Count)
             q2 == Segment(buf', Reader', Count')
  <2>1. /\ q \in Seq(Nat) /\ Len(q) = Count
        /\ Count >= 1 => Head(q) = buf[Reader] /\ q # <<>>
                         /\ Tail(q) = Segment(buf, Ahead(Reader, 1), Count - 1)
    <3>1. Count >= 1 => Count \in 1 .. Size
      BY <1>4, Sizes
    <3> QED BY <1>3, <1>4, <3>1, SegmentIs, SegmentTail
  <2>2. ~frun /\ ~frun' /\ frun' = frun /\ Waiting = q /\ Waiting' = q2
    BY <1>1, QueueIs
  <2>3. CASE PlayAt # PlayLimit
    <3>1. q2 \in {q, Tail(q)} \/ (Len(q) = Size /\ q2 = <<>>)
      <4>1. CASE PlayNext = Reader /\ Count' = Count
        BY <1>1, <1>5, <4>1
      <4>2. CASE PlayNext = Ahead(Reader, 1) /\ Count >= 1 /\ Count' = Count - 1
        BY <1>1, <1>5, <2>1, <4>2
      <4>3. CASE Count = Size /\ Count' = 0
        <5>1. q2 \in Seq(Nat) /\ Len(q2) = 0
          BY <1>1, <1>3, <1>5, <4>3, SegmentIs, Turn
        <5>2. q2 = <<>>
          <6> HIDE DEF q2
          <6> QED BY <5>1, EmptySeq
        <5> QED BY <2>1, <4>3, <5>2
      <4> QED BY <1>5, <4>1, <4>2, <4>3
    <3>2. out' = SQ!Audible(out, Head(q)) /\ q # <<>>
      BY <1>1, <1>2, <2>1, <2>3 DEF SQ!Audible
    <3> HIDE DEF q, q2
    <3>3. SQ!Play
      BY <1>1, <1>12, <2>2, <3>1, <3>2, QueueIs DEF SQ!Play
    <3> QED BY <3>3 DEF SQ!Next
  <2>4. CASE PlayAt = PlayLimit
    <3>0. ASSUME Count = Size, PlayNext = Reader PROVE Holds'
      \* not at the limit of a full ring
      <4>1. Holds /\ cb.r = w /\ cb.w # w
        <5>1. Count # Used(Reader, w)
          BY <1>3, <3>0, UsedIs, Sizes DEF Slot
        <5> QED BY <5>1 DEF Count
      <4>2. cb.r = cb.w
        BY <1>2, <2>4, <4>1 DEF PlayLimit, Reader, Holds
      <4> QED BY <4>1, <4>2
    <3>1. Count' = Count /\ Reader' = Reader
      <4>1. PlayNext = Reader
        BY <1>1, <1>2, <2>4
      <4>2. Ahead(Reader, 1) # Reader
        <5>1. 0 \in 0 .. Size - 1 /\ 1 \in 0 .. Size - 1 /\ 0 # 1
          BY Sizes
        <5>2. Ahead(Reader, 0) # Ahead(Reader, 1)
          BY <1>3, <5>1, AheadDiffers
        <5> QED BY <1>3, <5>2, Turn
      <4> QED BY <1>5, <3>0, <4>1, <4>2
    <3>2. q2 = q
      BY <1>1, <3>1
    <3>3. out' <= SQ!Audible(out, IF q = <<>> THEN Taken ELSE Head(q))
      <4>1. CASE Count = 0
        <5>1. q = <<>>
          <6> HIDE DEF q
          <6> QED BY <2>1, <4>1, EmptySeq
        <5> QED BY <1>1, <1>2, <1>3, <1>7, <4>1, <5>1 DEF SQ!Audible
      <4>2. CASE Count >= 1
        <5>1. 0 \in 0 .. Count - 1 /\ Ahead(Reader, 0) = Reader
          BY <1>3, <1>4, <4>2, Turn
        <5>2. PlaySample <= buf[Reader] /\ buf[Reader] \in Nat
          BY <1>2, <1>3, <5>1
        <5>3. Head(q) = buf[Reader] /\ q # <<>>
          BY <2>1, <4>2
        <5> HIDE DEF q
        <5> QED BY <1>1, <1>2, <1>3, <1>7, <5>2, <5>3 DEF SQ!Audible
      <4> QED BY <1>4, <4>1, <4>2
    <3> HIDE DEF q, q2
    <3>4. SQ!Repeat
      BY <1>1, <1>7, <1>12, <2>2, <3>2, <3>3, QueueIs DEF SQ!Repeat
    <3> QED BY <3>4 DEF SQ!Next
  <2> QED BY <2>3, <2>4
<1> QED BY <1>10, <1>13, <1>14
-----------------------------------------------------------------------------
(* The theorems.                                                           *)

\* The start.
LEMMA InitInv == Init => Inv /\ SQ!Init
<1> SUFFICES ASSUME Init PROVE Inv /\ SQ!Init
  OBVIOUS
<1>1. Inv
  BY BasicInit DEF Inv, Basic, Init
<1> QED BY <1>1 DEF SQ!Init, Init

\* Every step keeps the invariant and is one of the queue, or none.
LEMMA NextInv == Inv /\ [Next]_vars => Inv' /\ [SQ!Next]_(SQ!qvars)
<1> SUFFICES ASSUME Inv, [Next]_vars
             PROVE  Inv' /\ (SQ!Next \/ UNCHANGED SQ!qvars)
  OBVIOUS
<1>0. Basic /\ (~frun => Ring) /\ frun \in BOOLEAN
  BY DEF Inv, Basic, Ring, TypeOK
<1>1. ASSUME Basic', frun' = frun, frun => out' = out,
             ~frun => Fits' /\ Ordered' /\ (SQ!Next \/ UNCHANGED SQ!qvars)
      PROVE  Inv' /\ (SQ!Next \/ UNCHANGED SQ!qvars)
  <2>1. CASE frun
    BY <1>1, <2>1 DEF Inv, Basic, SQ!qvars
  <2>2. CASE ~frun
    BY <1>1, <2>2 DEF Inv, Basic
  <2> QED BY <1>0, <2>1, <2>2
<1>2. CASE Begin
  <2>1. frun' = frun /\ out' = out
    BY <1>2 DEF Begin
  <2> QED BY <1>0, <1>1, <1>2, <2>1, BeginBasic, BeginRing DEF SQ!Next
<1>3. CASE Write
  <2>1. frun' = frun /\ out' = out
    BY <1>3 DEF Write
  <2> QED BY <1>0, <1>1, <1>3, <2>1, WriteBasic, WriteRing
<1>4. CASE Store
  <2>1. frun' = frun /\ out' = out
    BY <1>4 DEF Store
  <2> QED BY <1>0, <1>1, <1>4, <2>1, StoreBasic, StoreRing
<1>5. CASE Call
  <2>1. frun' = frun /\ out' = out
    BY <1>5 DEF Call
  <2>2. Basic'
    BY <1>0, <1>5, CallBasic DEF Call
  <2> QED BY <1>0, <1>1, <1>5, <2>1, <2>2, CallRing
<1>6. CASE Start
  <2>1. frun' = frun /\ out' = out
    BY <1>6 DEF Start
  <2>2. frun' /\ Basic'
    BY <1>0, <1>6, StartBasic
  <2> QED BY <1>0, <1>1, <2>1, <2>2
<1>7. CASE Clear
  <2>1. Basic' /\ ~frun'
    BY <1>0, <1>7, ClearBasic
  <2> QED BY <1>0, <1>7, <2>1, ClearRing DEF Inv, Basic
<1>8. CASE Play
  <2>1. frun' = frun /\ ~frun /\ Basic'
    BY <1>0, <1>8, PlayBasic
  <2> QED BY <1>0, <1>1, <1>8, <2>1, PlayRing
<1>9. CASE Reset
  <2>1. frun' = frun /\ out' = out
    BY <1>0, <1>9, ResetBasic DEF Reset
  <2>2. frun /\ Basic'
    BY <1>0, <1>9, ResetBasic
  <2> QED BY <1>1, <2>1, <2>2
<1>10. CASE UNCHANGED vars
  <2>1. UNCHANGED <<buf, r, w, frun, held, main, cb, sent, out>>
    BY <1>10 DEF vars
  <2>2. Reader' = Reader /\ Holds' = Holds /\ Count' = Count
    BY <2>1, SameReader
  <2>3. Basic' /\ Unstored' = Unstored /\ Coming' = Coming
    BY <1>0, <1>10, StutterBasic
  <2>4. Taken' = Taken /\ Turned' = Turned
    BY <2>1 DEF Taken, Turned
  <2>5. ~frun => Fits'
    BY <1>0, <2>1, <2>2, <2>3 DEF Ring, Fits
  <2>6. ~frun => Ordered'
    BY <1>0, <2>1, <2>2, <2>3, <2>4 DEF Ring, Ordered
  <2>7. UNCHANGED SQ!qvars
    BY <2>1, <2>2, <2>3, QueueIs DEF SQ!qvars
  <2> QED BY <1>1, <2>1, <2>3, <2>5, <2>6, <2>7
<1> QED BY <1>2, <1>3, <1>4, <1>5, <1>6, <1>7, <1>8, <1>9, <1>10 DEF Next, Main, Callback

\* What the theorems below follow from: what waits and what is still to come of
\* a frame fit the ring, a callback that holds the pointers is passed by one
\* frame at most, and samples wait in the order they were sent, after all that
\* were heard (audio.c:109-210, 348-367).
THEOREM Invariance == Spec => []Inv
<1>1. Init => Inv
  BY InitInv
<1>2. Inv /\ [Next]_vars => Inv'
  BY NextInv
<1> QED BY <1>1, <1>2, PTL DEF Spec

\* The pointers, the fraction and the samples stay in their ranges, for every
\* size of the ring, of a frame and of a callback, however the build keeps the
\* pointers (audio.c:109-210, 348-367).
THEOREM TypeCorrect == Spec => []TypeOK
<1>1. Inv => TypeOK
  BY DEF Inv
<1> QED BY <1>1, Invariance, PTL

\* The ring that the two threads share without a lock is a queue: samples are
\* taken in the order they were sent with no gap, or a frame of them is dropped
\* whole, and only when the ring is nearly full; what is taken is played in
\* that order and lost only with the whole queue, when the end of a frame fills
\* the ring, or when the device starts
\* (audio.c:109-210, 348-367).
THEOREM SampleQueueImplemented == Spec => ImplementsSampleQueue
<1>1. Init => SQ!Init
  BY InitInv
<1>2. Inv /\ [Next]_vars => [SQ!Next]_(SQ!qvars)
  BY NextInv
<1> QED BY <1>1, <1>2, Invariance, PTL DEF Spec, SQ!Spec, ImplementsSampleQueue
-----------------------------------------------------------------------------
(* The frequency control.                                                  *)

CONSTANT Nominal  \* the step that suits the device (audio.c:286, 300)

\* The other constants as in a native build.
Rate == INSTANCE AudioRate WITH Ideal <- 1364, Long <- 31, Short <- 7

\* How far the step of a callback may lean from the long term step.
LEMMA LeanIs == ASSUME NEW inc \in Int PROVE \A average \in Nat : average < 4096 =>
         /\ Rate!CallbackStep(inc, average) \in Int
         /\ inc - 766 <= Rate!CallbackStep(inc, average)
         /\ Rate!CallbackStep(inc, average) <= inc + 19294
         /\ average = 0 => Rate!CallbackStep(inc, average) = inc - 766
         /\ average = 4095 => Rate!CallbackStep(inc, average) = inc + 19294
<1> SUFFICES ASSUME NEW average \in Nat, average < 4096
             PROVE  /\ Rate!CallbackStep(inc, average) \in Int
                    /\ inc - 766 <= Rate!CallbackStep(inc, average)
                    /\ Rate!CallbackStep(inc, average) <= inc + 19294
                    /\ average = 0 => Rate!CallbackStep(inc, average) = inc - 766
                    /\ average = 4095 => Rate!CallbackStep(inc, average) = inc + 19294
  OBVIOUS
<1>1. (1364 * 7) \div 8 = 1193 /\ (1364 * 9) \div 8 = 1534 /\ (1364 * 3) \div 2 = 2046
  BY SMT
<1>2. Rate!CallbackStep(inc, average) =
        inc - Rate!Above(1364, average) \div 8 - Rate!Above(1193, average) \div 2
            + Rate!Above(average, 1364) \div 8 + Rate!Above(average, 1534)
            + Rate!Above(average, 2046) * 8
  BY <1>1, SMT DEF Rate!CallbackStep
<1> QED BY <1>2, SMT DEF Rate!Above

\* However full the ring of 4096 samples, a callback does not stand still or
\* turn round, and needs the one carry of the output loop, exactly as long as
\* the long term step is in a certain range (audio.c:174-203). The limits of its
\* proportional part are in that range for devices from 19373 Hz on; its
\* differential part (161-165) may leave them, by one in a callback.
THEOREM StepInRange ==
  ASSUME NEW inc \in Int
  PROVE  /\ (\A average \in Nat : average < 4096 =>
                 0 < Rate!CallbackStep(inc, average)
                 /\ Rate!CallbackStep(inc, average) < 131072)
              <=> (767 <= inc /\ inc <= 111777)
         /\ Nominal \in Nat /\ 1534 <= Nominal /\ Nominal <= 106455 =>
               Rate!Slowest >= 767 /\ Rate!Fastest <= 111777
<1>1. ASSUME 767 <= inc, inc <= 111777, NEW average \in Nat, average < 4096
      PROVE  0 < Rate!CallbackStep(inc, average)
             /\ Rate!CallbackStep(inc, average) < 131072
  <2>1. /\ Rate!CallbackStep(inc, average) \in Int
        /\ inc - 766 <= Rate!CallbackStep(inc, average)
        /\ Rate!CallbackStep(inc, average) <= inc + 19294
    BY <1>1, LeanIs
  <2> QED BY <1>1, <2>1
<1>2. ASSUME \A average \in Nat : average < 4096 =>
               0 < Rate!CallbackStep(inc, average)
               /\ Rate!CallbackStep(inc, average) < 131072
      PROVE  767 <= inc /\ inc <= 111777
  <2>1. 0 \in Nat /\ 0 < 4096 /\ 4095 \in Nat /\ 4095 < 4096
    OBVIOUS
  <2>2. Rate!CallbackStep(inc, 0) = inc - 766 /\ Rate!CallbackStep(inc, 4095) = inc + 19294
    BY <2>1, LeanIs
  <2>3. 0 < Rate!CallbackStep(inc, 0) /\ Rate!CallbackStep(inc, 4095) < 131072
    BY <1>2, <2>1
  <2> QED BY <2>2, <2>3
<1>3. Nominal \in Nat /\ 1534 <= Nominal /\ Nominal <= 106455 =>
               Rate!Slowest >= 767 /\ Rate!Fastest <= 111777
  BY SMT DEF Rate!Slowest, Rate!Fastest
<1> DEFINE P == \A average \in Nat : average < 4096 =>
                  0 < Rate!CallbackStep(inc, average)
                  /\ Rate!CallbackStep(inc, average) < 131072
           Q == 767 <= inc /\ inc <= 111777
<1>4. P <=> Q
  BY <1>1, <1>2
<1> HIDE DEF Q
<1> QED BY <1>3, <1>4 DEF Q
=============================================================================
