------------------------------- MODULE MCVFat -------------------------------
(***************************************************************************)
(* VFat for TLC: one host file to start with, two entries, names that      *)
(* convert back and forth.                                                 *)
(***************************************************************************)
EXTENDS VFat, FiniteSetsExt

CONSTANTS h1, h2, n1, n2, MaxStored

MCToFat  == (h1 :> n1) @@ (h2 :> n2)
MCToHost == (n1 :> h1) @@ (n2 :> h2)
MCStart  == h1 :> <<1>>

\* At most MaxStored sectors in all files.
StoredBound ==
  LET files == Flush(io).files
  IN FoldSet(LAMBDA h, n : Len(files[h]) + n, 0, DOMAIN files) <= MaxStored

\* Nothing depends on the contents of the sector buffer, nor on "access", every
\* access sets the position, and 0 ends a chain like EOC.
View ==
  LET ch == io.ch
      fat == [c \in Cluster |-> IF vfat.fat[c] = 0 THEN EOC ELSE vfat.fat[c]]
  IN << [vfat EXCEPT !.rwbuf = 0, !.fat = fat], media, io.files, io.crashed,
        [ch EXCEPT !.at = IF ch.wr THEN @ ELSE 0, !.pos = 0], ch.at = ch.pos >>
=============================================================================
