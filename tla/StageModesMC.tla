---------------------------- MODULE StageModesMC ----------------------------
(* Stages for TLC: those of the shipped pipelines with the shipped caps,   *)
(* and stages a company may write for itself.                              *)
EXTENDS StageModes

Stage(mode, roles, rounds) == [mode |-> mode, roles |-> roles, rounds |-> rounds]

Devs == <<"frontend-dev-1", "frontend-dev-2", "backend-dev-1", "backend-dev-2">>

Company == {"ceo", "cto", "design-lead", "frontend-lead", "backend-lead", "qa-lead"}
           \cup {Devs[k] : k \in DOMAIN Devs}

(* org/defaultPipelines.ts, one of each kind of single stage.              *)
ShippedStages ==
  {Stage("single", <<"ceo">>, 1),
   Stage("debate", <<"design-lead", "frontend-lead", "backend-lead", "cto">>, 2),
   Stage("debate", <<"ceo", "design-lead", "cto">>, 1),
   Stage("parallel", Devs, 1),
   Stage("review-loop", <<"backend-lead", "frontend-lead", "qa-lead">>, 2),
   Stage("parallel", <<"backend-dev-1", "frontend-dev-1">>, 1),
   Stage("review-loop", <<"backend-lead", "qa-lead">>, 2)}

ShippedWriters ==
  {<<>>, <<"backend-dev-1">>, <<"frontend-dev-1", "backend-lead">>,
   <<"frontend-dev-1", "frontend-dev-2", "backend-dev-1">>}

(* org/defaultCompany.ts.                                                  *)
ShippedCap ==
  [e \in Company |-> CASE e \in {"ceo", "frontend-lead", "backend-lead"} -> 2
                       [] e \in {"cto", "design-lead", "qa-lead"} -> 3
                       [] OTHER -> 4]

(* A company whose caps bite.                                              *)
Trio == {"a", "b", "c"}

TrioStages ==
  {Stage("single", <<"a">>, 1), Stage("single", <<>>, 1),
   Stage("debate", <<"a", "b", "c">>, 3),
   Stage("parallel", <<"a", "b", "c">>, 1),
   Stage("review-loop", <<"a", "b">>, 3),
   Stage("review-loop", <<"b">>, 2)}

TrioWriters == {<<>>, <<"c">>, <<"c", "a">>}

TrioCap == [e \in Trio |-> CASE e = "a" -> 2 [] e = "b" -> 1 [] OTHER -> 3]

Everybody == Company \cup Trio
AllStages == ShippedStages \cup TrioStages
AllWriters == ShippedWriters \cup TrioWriters
AllCap == [e \in Everybody |-> IF e \in Company THEN ShippedCap[e] ELSE TrioCap[e]]
=============================================================================
