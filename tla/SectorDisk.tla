----------------------------- MODULE SectorDisk -----------------------------
(***************************************************************************)
(* What a program may expect of the disk behind the SD card: a sector      *)
(* reads as it was last written. A sector is Unknown until it is written   *)
(* as a part of a file, and again when the program gives its cluster to    *)
(* another place or damages the file system; an unknown sector may read as *)
(* anything.                                                               *)
(***************************************************************************)
CONSTANTS Sector, Value, Unknown

VARIABLES
  media,  \* the sectors
  got     \* what the last step read: <<sector, value>>, or <<>>

dvars == <<media, got>>

AllUnknown == [s \in Sector |-> Unknown]

Init == media = AllUnknown /\ got = <<>>

Reads(s, d) == media[s] \in {d, Unknown} /\ got' = <<s, d>>

Read(s) == \E d \in Value : Reads(s, d) /\ UNCHANGED media

\* Looking for a sector of no file may find the file system damaged.
ReadNowhere(s) ==
  /\ media[s] = Unknown
  /\ \E d \in Value : Reads(s, d)
  /\ media' = AllUnknown

Write(s) ==
  /\ \E d \in Value : media' = [media EXCEPT ![s] = d]
  /\ got' = <<>>

WriteNowhere(s) ==
  /\ media[s] = Unknown
  /\ media' \in {media, AllUnknown}
  /\ got' = <<>>

Forget(S) ==
  /\ media' = [s \in Sector |-> IF s \in S THEN Unknown ELSE media[s]]
  /\ got' = <<>>

Next == \/ \E s \in Sector : \/ Read(s) \/ ReadNowhere(s)
                             \/ Write(s) \/ WriteNowhere(s)
        \/ \E S \in SUBSET Sector : Forget(S)

Spec == Init /\ [][Next]_dvars
=============================================================================
