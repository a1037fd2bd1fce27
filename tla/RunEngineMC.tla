---------------------------- MODULE RunEngineMC ----------------------------
(* RunEngine on small instances: two employees, pipelines of three stages.*)
EXTENDS RunEngine, TLC

Stage(intake, gated, optional, overlap, review) ==
  [intake |-> intake, tagGated |-> gated, optional |-> optional,
   overlap |-> overlap, review |-> review]

Intake   == Stage(TRUE, FALSE, FALSE, FALSE, FALSE)
Plain    == Stage(FALSE, FALSE, FALSE, FALSE, FALSE)
Gated    == Stage(FALSE, TRUE, FALSE, FALSE, FALSE)
Optional == Stage(FALSE, FALSE, TRUE, TRUE, FALSE)
Build    == Stage(FALSE, FALSE, FALSE, TRUE, FALSE)
Review   == Stage(FALSE, FALSE, FALSE, TRUE, TRUE)

(* Every kind of stage first, in the middle or last.                      *)
ThreeStages == {<<Intake, Gated, Build>>, <<Optional, Plain, Gated>>, <<Gated, Review, Plain>>}

RoleSymmetry == Permutations(Roles)
=============================================================================
