------------------------------- MODULE MCAudio ------------------------------
(***************************************************************************)
(* The sound ring with eight slots. A frame has three samples, so that the *)
(* free part can be smaller than a frame, equal to it and larger. A        *)
(* callback plays two samples: fewer than one period of the smallest step; *)
(* the largest is above a whole period.                                    *)
(***************************************************************************)
EXTENDS AudioRing

MCStep == {1, 2, 4}
=============================================================================
