----------------------------- MODULE MCMainLoop -----------------------------
(***************************************************************************)
(* Instance of MainLoop for TLC: memories of two cells with two values,    *)
(* the second flash cell from the game file.                           *)
(***************************************************************************)
EXTENDS MainLoop, TLC

MCErased == Eep :> 1 @@ Rom :> 0
MCGame == 2 :> 1

\* A change that was told of reaches the host file once the program stops
\* writing for a frame, unless the run is killed or the change missed.
SavedEventually ==
  \A m \in Memory :
    m \in changed ~> (Load(StartIO(io.files), m) = mem[m] \/ m \in missed \/ pc = "off")
=============================================================================
