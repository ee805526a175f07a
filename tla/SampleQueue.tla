---------------------------- MODULE SampleQueue ----------------------------
(***************************************************************************)
(* What the emulator may expect of its sound output. Samples are numbered  *)
(* as they are sent, from 1; 0 is the silence before the first. They are   *)
(* taken into the queue one after the other with no gap, or a frame of     *)
(* them is dropped whole; they are heard in that order. Only a frame that  *)
(* fills the queue to the last place, and the start of the device, lose    *)
(* samples that were taken.                                                *)
(***************************************************************************)
EXTENDS Integers, Sequences

CONSTANTS
  Capacity, \* with so many samples waiting all of them may be lost
  Frame,    \* samples of a frame
  Chunk     \* samples the device asks for at a time

VARIABLES
  queue,    \* samples taken and not yet played to the end
  newest,   \* the last sample sent, taken or dropped
  taken,    \* the last sample taken
  heard,    \* the last sample played, silence not counted
  starting  \* the device has not yet asked for sound

qvars == <<queue, newest, taken, heard, starting>>

Init ==
  /\ queue = <<>> /\ newest = 0 /\ taken = 0 /\ heard = 0 /\ starting = TRUE

EndOfFrame(n) == n % Frame = 0

\* The device starts with silence, after frames that nobody hears.
Start ==
  /\ starting /\ starting' = FALSE
  /\ queue' \in Seq({0}) /\ taken' = 0
  /\ newest' \in Nat /\ EndOfFrame(newest')
  /\ UNCHANGED heard

Audible(before, s) == IF s = 0 THEN before ELSE s

Take(n) ==
  /\ newest' = newest + n /\ taken' = newest'
  /\ UNCHANGED <<heard, starting>>

\* All of a frame at once, or part after part.
Put == \E n \in 1 .. Frame :
  /\ Take(n)
  /\ queue' = queue \o [i \in 1 .. n |-> newest + i]
  /\ Len(queue') <= Capacity

\* The last samples of a frame fill the queue, which then looks empty.
Overrun == \E n \in 1 .. Frame :
  /\ Take(n) /\ EndOfFrame(newest')
  /\ Len(queue) + n = Capacity /\ queue' = <<>>

\* A frame that does not fit, what the device is just playing counted in.
Drop ==
  /\ Capacity - Len(queue) < Frame + Chunk
  /\ EndOfFrame(newest) /\ newest' = newest + Frame
  /\ UNCHANGED <<queue, taken, heard, starting>>

Play ==
  /\ queue # <<>>
  /\ heard' = Audible(heard, Head(queue)) 
  /\ \/ queue' \in {queue, Tail(queue)}
     \/ Len(queue) = Capacity /\ queue' = <<>>
  /\ UNCHANGED <<newest, taken, starting>>

\* With nothing to play the device repeats a sample: one not older than the
\* last it played, nor newer than the first that waits.
Repeat ==
  /\ heard <= heard'
  /\ heard' <= Audible(heard, IF queue = <<>> THEN taken ELSE Head(queue))
  /\ UNCHANGED <<queue, newest, taken, starting>>

Next == Start \/ Put \/ Overrun \/ Drop \/ Play \/ Repeat

Spec == Init /\ [][Next]_qvars
=============================================================================
