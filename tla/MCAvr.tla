-------------------------------- MODULE MCAvr --------------------------------
(***************************************************************************)
(* AvrHw and AvrSchedule for TLC: a four cycle timer, deadlines of a few    *)
(* cycles, each unit on its own or with the watchdog.                      *)
(***************************************************************************)
EXTENDS AvrSchedule

\* Writes to TIMSK1 and TIFR1.
MCMasks == {{}, {"T1A"}, TimerSource}

\* What later steps may read: deadlines nothing waits for are left out.
View ==
  LET Live(cond, v) == IF cond THEN v ELSE 0
  IN << [hw EXCEPT !.t    = Live("timer" \in Unit, @),
                   !.wdl  = Live(WdRuns(hw), @),
                   !.spil = Live(hw.tran, @),
                   !.eepl = Live(hw.wrte \/ hw.empe, @),
                   !.mode = IF hw.spmen /\ ~hw.prge THEN @ ELSE "load",
                   !.spml = Live(hw.prge \/ hw.spmen, @)],
        late >>
=============================================================================
