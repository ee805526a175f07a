------------------------------ MODULE MCAvrCpu ------------------------------
(* Instance of AvrPrograms for TLC.                                        *)
EXTENDS AvrPrograms

MCBoots ==
  ArithmeticBoots({0, 1, 128, 255}, {"I"}, 1)
    \cup RoutineBoots({0, 1, 2, 3}, 1)
    \cup LoaderBoots({0, 14, 148}, 0) \cup LoaderBoots({14, 148}, 1)
    \cup WordBoots(0 .. 65535, 300)
=============================================================================
