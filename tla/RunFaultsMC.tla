---------------------------- MODULE RunFaultsMC ----------------------------
(* RunFaults on a small instance: two employees who may share a stage.    *)
EXTENDS RunFaults

Stage(intake, optional, overlap) ==
  [intake |-> intake, tagGated |-> FALSE, optional |-> optional,
   overlap |-> overlap, review |-> FALSE]

Intake   == Stage(TRUE, FALSE, FALSE)
Build    == Stage(FALSE, FALSE, TRUE)
Optional == Stage(FALSE, TRUE, TRUE)

TwoStages == {<<Optional, Build>>}
=============================================================================
