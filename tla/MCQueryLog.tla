----------------------------- MODULE MCQueryLog -----------------------------
(***************************************************************************)
(* The hand-over alone, without faults: what can happen while nothing      *)
(* fails, no page overlaps and no process ends.                            *)
(***************************************************************************)
EXTENDS QueryLogHandoff

QuietNext ==
  \/ BeginRound
  \/ AskAhead \/ TakeTooLarge \/ TakeRestarted \/ TakePage \/ EndParallel
  \/ Walk
  \/ AppendRows \/ Advance
  \/ KernelRecord \/ KernelUntracked \/ KernelRestart \/ Answer
  \/ SaveState

QuietSpec == Init /\ [][QuietNext]_vars /\ Fairness
=============================================================================
