--------------------------- MODULE RunEngineProofs ---------------------------
(* Proofs about RunEngine, for any number of runs, employees and stages.  *)
EXTENDS RunEngine, TLAPS

-----------------------------------------------------------------------------
(* The operators of the loop give run records.                             *)

(* Ending a run, by whatever way, leaves a run record.                     *)
LEMMA EndedType ==
  ASSUME NEW u \in RunState, NEW s \in RunStatus
  PROVE  Ended(u, s) \in RunState
BY DEF Ended, RunState

(* So does cancelling it.                                                  *)
LEMMA CancelledType ==
  ASSUME NEW u \in RunState
  PROVE  Cancelled(u) \in RunState
<1>1. [k \in Stages |-> IF u.stages[k] \in {"running", "pending"}
                        THEN "skipped" ELSE u.stages[k]] \in [Stages -> StageStatus]
  BY DEF RunState, StageStatus
<1> QED
  BY <1>1 DEF Cancelled, RunState, RunStatus

(* So does passing over stages nobody wants.                               *)
LEMMA SkipToType ==
  ASSUME NEW u \in RunState, NEW i, NEW j
  PROVE  SkipTo(u, i, j) \in RunState
<1>1. [k \in Stages |-> IF k \in i .. (j - 1) THEN "skipped" ELSE u.stages[k]]
        \in [Stages -> StageStatus]
  BY DEF RunState, StageStatus
<1> QED
  BY <1>1 DEF SkipTo, RunState

(* So does starting a stage.                                               *)
LEMMA StartStageType ==
  ASSUME NEW u \in RunState, NEW j \in Stages
  PROVE  StartStage(u, j) \in RunState
<1>1. [u.stages EXCEPT ![j] = "running"] \in [Stages -> StageStatus]
  BY DEF RunState, StageStatus
<1>2. j \in 0 .. NStages
  BY ConstantsAssumption DEF Stages
<1> QED
  BY <1>1, <1>2 DEF StartStage, RunState

(* So does learning the tags.                                              *)
LEMMA TaggedType ==
  ASSUME NEW u \in RunState, NEW b \in BOOLEAN
  PROVE  [u EXCEPT !.tagged = b] \in RunState
BY DEF RunState

(* The record of a run is a run record again at the loop's next await.     *)
LEMMA NextAwaitType ==
  ASSUME NEW r \in Runs, NEW u \in RunState, NEW i \in 1 .. (NStages + 1),
         NEW j \in i .. (NStages + 1)
  PROVE  AtNextAwait(r, u, i, j) \in RunState
<1> DEFINE v == SkipTo(u, i, j)
<1>1. j \in 1 .. (NStages + 1)
  BY ConstantsAssumption
<1>2. v \in RunState
  BY SkipToType
<1> HIDE DEF v
<1>3. Finished(v) \in RunState
  <2>1. (IF v.status = "running" THEN "done" ELSE v.status) \in RunStatus
    BY <1>2 DEF RunState, RunStatus
  <2> QED
    BY <1>2, <2>1, EndedType DEF Finished
<1>4. Ended(v, "failed") \in RunState
  BY <1>2, EndedType DEF RunStatus
<1>5. ASSUME j <= NStages
      PROVE  /\ StartStage(v, j) \in RunState
             /\ [v EXCEPT !.at = j, !.pc = "gate"] \in RunState
  <2>1. j \in Stages /\ j \in 0 .. NStages
    BY <1>1, <1>5, ConstantsAssumption DEF Stages
  <2>2. [v EXCEPT !.at = j, !.pc = "gate"] \in RunState
    BY <1>2, <2>1 DEF RunState
  <2> QED
    BY <1>2, <2>1, <2>2, StartStageType
<1>6. j > NStages \/ j <= NStages
  BY <1>1, ConstantsAssumption
<1> QED
  BY <1>3, <1>4, <1>5, <1>6, CancelledType DEF AtNextAwait, v

(* A run that has reached an await leaves every variable in its type.      *)
LEMMA ReachesType ==
  ASSUME TypeOK, NEW r \in Runs, NEW u \in RunState, Reaches(r, u)
  PROVE  /\ run' \in [Runs -> RunState]
         /\ controllers' \subseteq Runs
         /\ runPolicies' \in [Runs -> Policy \cup {"none"}]
         /\ spendApproved' \subseteq Runs
         /\ settleWaiters' \subseteq Runs
         /\ recorded' \in [Runs -> Nat]
<1>1. run' \in [Runs -> RunState] /\ spendApproved' \subseteq Runs
  BY DEF Reaches, TypeOK
<1>2. u.spent \in Nat
  BY DEF RunState
<1>3. CASE u.pc = "over"
  <2>1. Settle(r, u)
    BY <1>3 DEF Reaches
  <2> QED
    BY <1>1, <1>2, <2>1 DEF Settle, TypeOK
<1>4. CASE u.pc # "over"
  BY <1>1, <1>4 DEF Reaches, TypeOK
<1> QED
  BY <1>3, <1>4

(* A turn that begins, and one that ends, leave run records.               *)
LEMMA TakesTurnType ==
  ASSUME NEW u \in RunState, NEW i \in Stages, NEW e \in Roles
  PROVE  TakesTurn(u, i, e) \in RunState
<1>1. [u.taken EXCEPT ![i] = [u.taken[i] EXCEPT ![e] = u.taken[i][e] + 1]]
        \in [Stages -> [Roles -> Nat]]
  BY DEF RunState
<1> QED
  BY <1>1 DEF TakesTurn, RunState

LEMMA TurnOverType ==
  ASSUME NEW u \in RunState, NEW i \in Stages, NEW cost \in Costs
  PROVE  TurnOver(u, i, cost) \in RunState
<1>1. /\ u.spent + cost \in Nat
      /\ u.spoke \cup {i} \subseteq Stages
  BY ConstantsAssumption DEF RunState
<1> QED
  BY <1>1 DEF TurnOver, RunState

-----------------------------------------------------------------------------
(* Type correctness, one lemma for the actions that move the loop on.      *)

(* Submit takes a new run to its first await.                              *)
LEMMA SubmitType ==
  ASSUME TypeOK, NEW r \in Runs, NEW p \in Pipelines, NEW limit \in Limits,
         NEW owner \in Roles, Submit(r, p, limit, owner)
  PROVE  TypeOK'
<1> DEFINE u == [Unsubmitted(p) EXCEPT !.status = "running", !.limit = limit,
                                       !.policy = autoApprove]
<1>1. u \in RunState
  <2>1. Unsubmitted(p) \in RunState
    BY ConstantsAssumption DEF Unsubmitted, RunState, RunStatus, StageStatus, Policy
  <2>2. limit \in Nat /\ autoApprove \in Policy
    BY ConstantsAssumption DEF TypeOK
  <2> QED
    BY <2>1, <2>2 DEF RunState, RunStatus
<1> HIDE DEF u
<1>2. PICK j \in NextStage(u, 1) :
        LET w == AtNextAwait(r, u, 1, j)
        IN /\ run' = [run EXCEPT ![r] = w]
           /\ IF w.pc = "over"
              THEN UNCHANGED <<controllers, runPolicies>>
              ELSE /\ controllers' = controllers \cup {r}
                   /\ runPolicies' = [runPolicies EXCEPT ![r] = autoApprove]
  BY DEF Submit, u
<1>3. AtNextAwait(r, u, 1, j) \in RunState
  <2>1. j \in 1 .. (NStages + 1)
    BY DEF NextStage
  <2>2. 1 \in 1 .. (NStages + 1)
    BY ConstantsAssumption
  <2> QED
    BY <1>1, <2>1, <2>2, NextAwaitType
<1>4. /\ run' \in [Runs -> RunState]
      /\ controllers' \subseteq Runs
      /\ runPolicies' \in [Runs -> Policy \cup {"none"}]
  BY <1>2, <1>3 DEF TypeOK
<1>5. employee' \in [Roles -> EmployeeStatus]
  BY DEF Submit, TypeOK, EmployeeStatus
<1> QED
  BY <1>4, <1>5 DEF Submit, TypeOK

(* StageReturns takes a run from a stage to its next await.                *)
LEMMA StageReturnsType ==
  ASSUME TypeOK, NEW r \in Runs, NEW unresolved \in BOOLEAN, NEW tagged \in BOOLEAN,
         StageReturns(r, unresolved, tagged)
  PROVE  TypeOK'
<1> DEFINE i == run[r].at
           u == [run[r] EXCEPT !.tagged = tagged]
           settled(status) == [u EXCEPT !.stages[i] = status]
<1>1. i + 1 \in 1 .. (NStages + 1)
  BY ConstantsAssumption DEF TypeOK, RunState
<1>2. ASSUME NEW s \in StageStatus
      PROVE  settled(s) \in RunState
  <2>1. u \in RunState
    BY TaggedType DEF TypeOK
  <2>2. [u.stages EXCEPT ![i] = s] \in [Stages -> StageStatus]
    BY <2>1 DEF RunState
  <2>3. settled(s) = [u EXCEPT !.stages = [u.stages EXCEPT ![i] = s]]
    OBVIOUS
  <2> HIDE DEF u, i, settled
  <2> QED
    BY <2>1, <2>2, <2>3 DEF RunState
<1> HIDE DEF settled
<1>3. \A s \in {"failed", "done"}, j \in NextStage(u, i + 1) :
        AtNextAwait(r, settled(s), i + 1, j) \in RunState
  <2>1. \A j \in NextStage(u, i + 1) : j \in (i + 1) .. (NStages + 1)
    BY DEF NextStage
  <2>2. {"failed", "done"} \subseteq StageStatus
    BY DEF StageStatus
  <2> HIDE DEF u, i
  <2> QED
    BY <1>1, <1>2, <2>1, <2>2, NextAwaitType
<1>4. Cancelled(settled("skipped")) \in RunState
  BY <1>2, CancelledType DEF StageStatus
<1>5. Ended(settled("failed"), "failed") \in RunState
  BY <1>2, EndedType DEF StageStatus, RunStatus
<1>6. PICK w \in RunState : Reaches(r, w)
  BY <1>3, <1>4, <1>5 DEF StageReturns, AfterStage, settled
<1> QED
  BY <1>6, ReachesType DEF StageReturns, TypeOK

(* The turns and their ends.                                               *)
LEMMA BeginTurnType ==
  ASSUME TypeOK, NEW r \in Runs, NEW i \in Stages, NEW e \in Roles, BeginTurn(r, i, e)
  PROVE  TypeOK'
<1>1. run' \in [Runs -> RunState]
  <2>1. TakesTurn(run[r], i, e) \in RunState
    <3>1. run[r] \in RunState
      BY DEF TypeOK
    <3> QED
      BY <3>1, TakesTurnType
  <2> QED
    BY <2>1 DEF BeginTurn, TypeOK
<1>2. NewTurn(r, i, e) \in Turn
  BY DEF NewTurn, Turn, TypeOK
<1>3. turns' \subseteq Turn /\ asking' \subseteq turns'
  BY <1>2 DEF BeginTurn, TypeOK
<1>4. employee' \in [Roles -> EmployeeStatus]
  BY DEF BeginTurn, TypeOK, EmployeeStatus
<1> QED
  BY <1>1, <1>3, <1>4 DEF BeginTurn, TypeOK

LEMMA TurnStepType ==
  ASSUME TypeOK, NEW t \in turns, TurnStep(t)
  PROVE  TypeOK'
<1>1. /\ t.run \in Runs /\ t.stage \in Stages /\ t.role \in Roles
      /\ run[t.run] \in RunState
  BY DEF TypeOK, Turn
<1>2. ASSUME NEW cost \in Costs, NEW out \in Outcomes, EndTurn(t, cost, out)
      PROVE  TypeOK'
  <2>1. TurnOver(run[t.run], t.stage, cost) \in RunState
    BY <1>1, TurnOverType
  <2>2. run' \in [Runs -> RunState]
    BY <1>1, <1>2, <2>1 DEF EndTurn, TypeOK
  <2>3. employee' \in [Roles -> EmployeeStatus]
    BY <1>2 DEF EndTurn, TypeOK, EmployeeStatus
  <2>4. turns' \subseteq Turn /\ asking' \subseteq turns'
    BY <1>2 DEF EndTurn, TypeOK
  <2> QED
    BY <1>2, <2>2, <2>3, <2>4 DEF EndTurn, TypeOK
<1>3. ASSUME NEW cost \in Costs, NEW out \in Outcomes, NEW e \in Roles,
             EndTurnTakeNext(t, cost, out, e)
      PROVE  TypeOK'
  <2>1. TakesTurn(TurnOver(run[t.run], t.stage, cost), t.stage, e) \in RunState
    <3>1. TurnOver(run[t.run], t.stage, cost) \in RunState
      BY <1>1, TurnOverType
    <3> QED
      BY <1>1, <3>1, TakesTurnType
  <2>2. run' \in [Runs -> RunState]
    BY <1>1, <1>3, <2>1 DEF EndTurnTakeNext, TypeOK
  <2>3. employee' \in [Roles -> EmployeeStatus]
    BY <1>3 DEF EndTurnTakeNext, TypeOK, EmployeeStatus
  <2>4. NewTurn(t.run, t.stage, e) \in Turn
    BY <1>1 DEF NewTurn, Turn, TypeOK
  <2>5. turns' \subseteq Turn /\ asking' \subseteq turns'
    BY <1>3, <2>4 DEF EndTurnTakeNext, TypeOK
  <2> QED
    BY <1>3, <2>2, <2>3, <2>5 DEF EndTurnTakeNext, TypeOK
<1> QED
  BY <1>2, <1>3 DEF TurnStep

LEMMA ApprovalType ==
  ASSUME TypeOK, NEW t \in turns,
         RequestApproval(t) \/ ApprovalDecided(t) \/ RunToolUnasked(t)
  PROVE  TypeOK'
<1>1. t.run \in Runs /\ t.role \in Roles /\ run[t.run] \in RunState
  BY DEF TypeOK, Turn
<1>2. \A s \in RunStatus : [run[t.run] EXCEPT !.status = s] \in RunState
  BY <1>1 DEF RunState
<1>3. employee' \in [Roles -> EmployeeStatus]
  BY DEF RequestApproval, ApprovalDecided, RunToolUnasked, TypeOK, EmployeeStatus
<1>4. CASE RequestApproval(t)
  <2>1. run' \in [Runs -> RunState]
    BY <1>1, <1>2, <1>4 DEF RequestApproval, TypeOK, RunStatus
  <2> QED
    BY <1>3, <1>4, <2>1 DEF RequestApproval, TypeOK
<1>5. CASE ApprovalDecided(t)
  <2>1. (IF run[t.run].status = "awaiting-approval" THEN "running" ELSE run[t.run].status)
          \in RunStatus
    BY <1>1 DEF RunState, RunStatus
  <2>2. run' \in [Runs -> RunState]
    BY <1>1, <1>2, <1>5, <2>1 DEF ApprovalDecided, TypeOK
  <2> QED
    BY <1>3, <1>5, <2>2 DEF ApprovalDecided, TypeOK
<1>6. CASE RunToolUnasked(t)
  BY <1>1, <1>3, <1>6 DEF RunToolUnasked, TypeOK
<1> QED
  BY <1>4, <1>5, <1>6

(* Every variable of the engine keeps its type.                            *)
THEOREM TypeCorrect == Spec => []TypeOK
<1>1. Init => TypeOK
  <2>1. \A p \in Pipelines : Unsubmitted(p) \in RunState
    BY ConstantsAssumption DEF Unsubmitted, RunState, RunStatus, StageStatus, Policy
  <2> QED
    BY <2>1 DEF Init, TypeOK, EmployeeStatus, Policy
<1>2. TypeOK /\ [Next]_vars => TypeOK'
  <2> SUFFICES ASSUME TypeOK, [Next]_vars
               PROVE  TypeOK'
    OBVIOUS
  <2>1. ASSUME NEW r \in Runs, NEW p \in Pipelines, NEW limit \in Limits,
               NEW owner \in Roles, Submit(r, p, limit, owner)
        PROVE  TypeOK'
    BY <2>1, SubmitType
  <2>2. ASSUME NEW r \in Runs, Cancel(r) \/ WhenSettled(r)
        PROVE  TypeOK'
    BY <2>2 DEF Cancel, WhenSettled, TypeOK
  <2>3. CASE UpdateSettings
    BY <2>3 DEF UpdateSettings, TypeOK
  <2>4. ASSUME NEW r \in Runs, NEW ok \in BOOLEAN, DecideSpend(r, ok)
        PROVE  TypeOK'
    <3>1. Reaches(r, StartStage(run[r], run[r].at)) \/ Reaches(r, Ended(run[r], "cancelled"))
      BY <2>4 DEF DecideSpend
    <3>2. run[r] \in RunState
      BY DEF TypeOK
    <3>3. StartStage(run[r], run[r].at) \in RunState
      <4>1. [run[r].stages EXCEPT ![run[r].at] = "running"] \in [Stages -> StageStatus]
        BY <3>2 DEF RunState, StageStatus
      <4> QED
        BY <3>2, <4>1 DEF StartStage, RunState
    <3>4. Ended(run[r], "cancelled") \in RunState
      BY <3>2, EndedType DEF RunStatus
    <3>5. PICK w \in RunState : Reaches(r, w)
      BY <3>1, <3>3, <3>4
    <3> QED
      BY <2>4, <3>5, ReachesType DEF DecideSpend, TypeOK
  <2>5. ASSUME NEW r \in Runs, NEW i \in Stages, NEW e \in Roles, BeginTurn(r, i, e)
        PROVE  TypeOK'
    BY <2>5, BeginTurnType
  <2>6. ASSUME NEW t \in turns, TurnStep(t)
        PROVE  TypeOK'
    BY <2>6, TurnStepType
  <2>7. ASSUME NEW t \in turns,
               RequestApproval(t) \/ ApprovalDecided(t) \/ RunToolUnasked(t)
        PROVE  TypeOK'
    BY <2>7, ApprovalType
  <2>8. ASSUME NEW r \in Runs, NEW unresolved \in BOOLEAN, NEW tagged \in BOOLEAN,
               StageReturns(r, unresolved, tagged)
        PROVE  TypeOK'
    BY <2>8, StageReturnsType
  <2>9. CASE UNCHANGED vars
    BY <2>9 DEF vars, TypeOK
  <2> QED
    BY <2>1, <2>2, <2>3, <2>4, <2>5, <2>6, <2>7, <2>8, <2>9 DEF Next
<1> QED
  BY <1>1, <1>2, PTL DEF Spec

-----------------------------------------------------------------------------
(* The inductive invariant.                                                *)

(* The status a run is shown with agrees with where its loop stands, and   *)
(* an active run stands in one of its stages.                              *)
StatusFollowsLoop ==
  \A r \in Runs :
    /\ run[r].pc = "none" <=> run[r].status = "none"
    /\ run[r].pc = "over" <=> run[r].status \in Terminal
    /\ Active(r) => run[r].at \in Stages
    /\ r \in aborted \cup unasked => run[r].pc # "none"

(* A run is shown awaiting an approval only while a turn of its own is.    *)
AwaitingMeansAsking ==
  \A r \in Runs : run[r].status = "awaiting-approval" => \E t \in asking : t.run = r

(* The pin of a run and of its turns is the policy it was submitted under. *)
PinsAgree ==
  /\ \A r \in Runs : runPolicies[r] # "none" => runPolicies[r] = run[r].policy
  /\ \A t \in turns : t.policy = run[t.run].policy

IInv ==
  /\ TypeOK
  /\ StatusFollowsLoop
  /\ AwaitingMeansAsking
  /\ PinsAgree
  /\ NothingHeldForSettledRuns
  /\ NoOrphanTurns
  /\ LedgerExact
  /\ PolicyPinned

(* What the loop may leave of a run that stood in record u.                *)
Continues(u, w) ==
  /\ w.pc \in {"stage", "gate", "over"}
  /\ w.pc # "over" => w.status = "running" /\ w.at \in Stages
  /\ w.pc = "over" => w.status \in Terminal
  /\ w.policy = u.policy /\ w.spent = u.spent /\ w.pipeline = u.pipeline

LEMMA EndedContinues ==
  ASSUME NEW u \in RunState, NEW s \in Terminal
  PROVE  Continues(u, Ended(u, s)) /\ Continues(u, Cancelled(u))
BY DEF Continues, Ended, Cancelled, RunState, Terminal

(* The loop of a running run continues it to the next await.               *)
LEMMA NextAwaitContinues ==
  ASSUME NEW r \in Runs, NEW u \in RunState, u.status = "running",
         NEW i \in 1 .. (NStages + 1), NEW j \in i .. (NStages + 1)
  PROVE  Continues(u, AtNextAwait(r, u, i, j))
<1> DEFINE v == SkipTo(u, i, j)
<1>1. /\ v \in RunState /\ v.status = "running"
      /\ v.policy = u.policy /\ v.spent = u.spent /\ v.pipeline = u.pipeline
  <2> DEFINE f == [k \in Stages |-> IF k \in i .. (j - 1) THEN "skipped" ELSE u.stages[k]]
  <2>1. v \in RunState
    BY SkipToType
  <2>2. v = [u EXCEPT !.stages = f]
    BY DEF SkipTo
  <2> HIDE DEF f, v
  <2> QED
    BY <2>1, <2>2 DEF RunState
<1>2. Continues(u, Cancelled(u))
  BY EndedContinues DEF Terminal
<1> HIDE DEF v
<1>3. Continues(u, Finished(v)) /\ Continues(u, Ended(v, "failed"))
  <2>1. Finished(v) = Ended(v, "done")
    BY <1>1 DEF Finished
  <2> QED
    BY <1>1, <2>1, EndedContinues DEF Continues, Terminal
<1>4. ASSUME j <= NStages
      PROVE  /\ Continues(u, StartStage(v, j))
             /\ Continues(u, [v EXCEPT !.at = j, !.pc = "gate"])
  <2>1. j \in Stages
    BY <1>4, ConstantsAssumption DEF Stages
  <2> QED
    BY <1>1, <2>1 DEF Continues, StartStage, RunState
<1>5. j > NStages \/ j <= NStages
  BY ConstantsAssumption
<1> QED
  BY <1>2, <1>3, <1>4, <1>5 DEF AtNextAwait, v

(* A step of the loop of one active run, with what it makes of it.         *)
LoopStep(r, w) ==
  /\ Active(r)
  /\ Reaches(r, w)
  /\ Continues(run[r], w)
  /\ r \in aborted /\ w.pc = "over" => w.status = "cancelled"
  /\ aborted' = aborted

(* A loop that moves on with no turn in flight keeps the invariant.        *)
LEMMA ReachesInv ==
  ASSUME IInv, TypeOK', NEW r \in Runs, Active(r), NEW w, Continues(run[r], w),
         Reaches(r, w), \A t \in turns : t.run # r,
         UNCHANGED <<turns, asking, aborted, autoApprove, unasked>>
  PROVE  IInv'
<1>1. /\ \A q \in Runs : run'[q] = IF q = r THEN w ELSE run[q]
      /\ turns' = turns /\ asking' = asking /\ aborted' = aborted /\ unasked' = unasked
  BY DEF Reaches, IInv, TypeOK
<1>2. asking \subseteq turns /\ turns \subseteq Turn
  BY DEF IInv, TypeOK
<1>3. \A q \in Runs : Active(q)' <=> IF q = r THEN w.pc # "over" ELSE Active(q)
  BY <1>1 DEF Active, Continues
<1>4. StatusFollowsLoop'
  BY <1>1, <1>3 DEF IInv, StatusFollowsLoop, Continues, Terminal, Active
<1>5. AwaitingMeansAsking'
  BY <1>1, <1>2 DEF IInv, AwaitingMeansAsking, Continues, Terminal
<1>6. \A t \in turns : run'[t.run] = run[t.run]
  BY <1>1, <1>2 DEF Turn
<1>8. NoOrphanTurns'
  BY <1>1, <1>6 DEF IInv, NoOrphanTurns, Awaited
<1>9. PolicyPinned'
  BY <1>1 DEF IInv, PolicyPinned, Continues, TypeOK
<1>10. PinsAgree' /\ NothingHeldForSettledRuns' /\ LedgerExact'
  <2>1. CASE w.pc = "over"
    <3>1. Settle(r, w) /\ w.status \in Terminal
      BY <2>1 DEF Reaches, Continues
    <3>2. PinsAgree'
      BY <1>1, <1>6, <3>1 DEF IInv, PinsAgree, Settle, TypeOK, Continues
    <3>3. NothingHeldForSettledRuns'
      BY <1>3, <2>1, <3>1 DEF IInv, NothingHeldForSettledRuns, Settle, TypeOK
    <3>4. LedgerExact'
      <4>1. recorded[r] = 0
        BY DEF IInv, LedgerExact, StatusFollowsLoop, Active
      <4>2. recorded' = [recorded EXCEPT ![r] = recorded[r] + w.spent]
        BY <3>1 DEF Settle
      <4>3. w.spent \in Nat
        BY DEF Continues, IInv, TypeOK, RunState
      <4>4. recorded'[r] = w.spent
        BY <4>1, <4>2, <4>3 DEF IInv, TypeOK
      <4>5. \A q \in Runs \ {r} : recorded'[q] = recorded[q]
        BY <4>2 DEF IInv, TypeOK
      <4> QED
        BY <1>1, <3>1, <4>4, <4>5 DEF IInv, LedgerExact
    <3> QED
      BY <3>2, <3>3, <3>4
  <2>2. CASE w.pc # "over"
    <3>1. UNCHANGED <<controllers, runPolicies, settleWaiters, recorded>>
      BY <2>2 DEF Reaches
    <3>2. w.status = "running"
      BY <2>2 DEF Continues
    <3>3. PinsAgree'
      BY <1>1, <1>6, <3>1 DEF IInv, PinsAgree, Continues
    <3>4. NothingHeldForSettledRuns'
      BY <1>3, <2>2, <3>1 DEF IInv, NothingHeldForSettledRuns
    <3>5. LedgerExact'
      BY <1>1, <3>1, <3>2 DEF IInv, LedgerExact, Terminal, StatusFollowsLoop, Active
    <3> QED
      BY <3>3, <3>4, <3>5
  <2> QED
    BY <2>1, <2>2
<1> QED
  BY <1>4, <1>5, <1>8, <1>9, <1>10 DEF IInv

(* So does a step of a turn that leaves the loop where it is.              *)
LEMMA SameLoopInv ==
  ASSUME IInv, TypeOK', NEW r \in Runs, Active(r), NEW w,
         run' = [run EXCEPT ![r] = w],
         w.pc = run[r].pc, w.at = run[r].at, w.pipeline = run[r].pipeline,
         w.policy = run[r].policy, w.status \in {"running", "awaiting-approval"},
         UNCHANGED <<controllers, aborted, runPolicies, settleWaiters, recorded>>,
         AwaitingMeansAsking',
         \A t \in turns' : \/ t \in turns
                           \/ t.run = r /\ t.policy = run[r].policy /\ Awaited(r, t.stage),
         \A q \in unasked' : q \in unasked \/ (q = r /\ run[r].policy = "auto")
  PROVE  IInv'
<1>1. \A q \in Runs : run'[q] = IF q = r THEN w ELSE run[q]
  BY DEF IInv, TypeOK
<1>2. turns' \subseteq Turn /\ unasked' \subseteq Runs
  BY DEF TypeOK
<1>3. \A q \in Runs : Active(q)' <=> Active(q)
  BY <1>1 DEF Active
<1>4. StatusFollowsLoop'
  BY <1>1, <1>2, <1>3 DEF IInv, StatusFollowsLoop, Active, Terminal
<1>5. PinsAgree'
  BY <1>1, <1>2 DEF IInv, PinsAgree, Turn
<1>6. NothingHeldForSettledRuns'
  BY <1>3 DEF IInv, NothingHeldForSettledRuns
<1>7. NoOrphanTurns'
  BY <1>1, <1>2 DEF IInv, NoOrphanTurns, Awaited, Turn
<1>8. LedgerExact'
  <2>1. run[r].status \notin Terminal
    BY DEF IInv, StatusFollowsLoop, Active
  <2> QED
    BY <1>1, <2>1 DEF IInv, LedgerExact, Terminal
<1>9. PolicyPinned'
  BY <1>1, <1>2 DEF IInv, PolicyPinned
<1> QED
  BY <1>4, <1>5, <1>6, <1>7, <1>8, <1>9 DEF IInv

(* Submit finds nothing held for a new run and takes it to an await.       *)
LEMMA SubmitInv ==
  ASSUME IInv, TypeOK', NEW r \in Runs, NEW p \in Pipelines, NEW limit \in Limits,
         NEW owner \in Roles, Submit(r, p, limit, owner)
  PROVE  IInv'
<1> DEFINE u == [Unsubmitted(p) EXCEPT !.status = "running", !.limit = limit,
                                       !.policy = autoApprove]
<1>1. u \in RunState /\ u.status = "running" /\ u.spent = 0 /\ u.policy = autoApprove
  <2>1. Unsubmitted(p) \in RunState /\ Unsubmitted(p).spent = 0
    BY ConstantsAssumption DEF Unsubmitted, RunState, RunStatus, StageStatus, Policy
  <2>2. limit \in Nat /\ autoApprove \in Policy
    BY ConstantsAssumption DEF IInv, TypeOK
  <2> QED
    BY <2>1, <2>2 DEF RunState, RunStatus
<1> HIDE DEF u
<1>2. PICK j \in NextStage(u, 1) :
        LET w == AtNextAwait(r, u, 1, j)
        IN /\ run' = [run EXCEPT ![r] = w]
           /\ IF w.pc = "over"
              THEN UNCHANGED <<controllers, runPolicies>>
              ELSE /\ controllers' = controllers \cup {r}
                   /\ runPolicies' = [runPolicies EXCEPT ![r] = autoApprove]
  BY DEF Submit, u
<1> DEFINE w == AtNextAwait(r, u, 1, j)
<1>3. Continues(u, w)
  <2>1. j \in 1 .. (NStages + 1) /\ 1 \in 1 .. (NStages + 1)
    BY ConstantsAssumption DEF NextStage
  <2> QED
    BY <1>1, <2>1, NextAwaitContinues
<1>4. /\ run' = [run EXCEPT ![r] = w]
      /\ w.pc = "over" => UNCHANGED <<controllers, runPolicies>>
      /\ w.pc # "over" => /\ controllers' = controllers \cup {r}
                          /\ runPolicies' = [runPolicies EXCEPT ![r] = autoApprove]
  BY <1>2
<1> HIDE DEF w
<1>5. /\ \A q \in Runs : run'[q] = IF q = r THEN w ELSE run[q]
      /\ UNCHANGED <<turns, asking, aborted, spendApproved, settleWaiters, recorded, unasked>>
      /\ run[r].pc = "none"
  BY <1>4 DEF Submit, IInv, TypeOK
<1>6. /\ turns \subseteq Turn /\ asking \subseteq turns
      /\ \A t \in turns : t.run # r /\ run'[t.run] = run[t.run]
  BY <1>5 DEF IInv, TypeOK, Turn, NoOrphanTurns, Awaited
<1>7. \A q \in Runs : Active(q)' <=> IF q = r THEN w.pc # "over" ELSE Active(q)
  BY <1>3, <1>5 DEF Active, Continues
<1>8. StatusFollowsLoop'
  BY <1>3, <1>5, <1>7 DEF IInv, StatusFollowsLoop, Continues, Terminal, Active
<1>9. AwaitingMeansAsking'
  BY <1>3, <1>5 DEF IInv, AwaitingMeansAsking, Continues, Terminal
<1>10. NoOrphanTurns'
  BY <1>5, <1>6 DEF IInv, NoOrphanTurns, Awaited
<1>11. PinsAgree'
  BY <1>1, <1>3, <1>4, <1>5, <1>6 DEF IInv, PinsAgree, Continues, TypeOK,
     NothingHeldForSettledRuns, Active
<1>12. NothingHeldForSettledRuns'
  BY <1>1, <1>4, <1>5, <1>7 DEF IInv, NothingHeldForSettledRuns, Active, TypeOK, Policy
<1>13. LedgerExact'
  BY <1>1, <1>3, <1>5 DEF IInv, LedgerExact, StatusFollowsLoop, Continues, Terminal
<1>14. PolicyPinned'
  BY <1>5 DEF IInv, PolicyPinned, StatusFollowsLoop, TypeOK
<1> QED
  BY <1>8, <1>9, <1>10, <1>11, <1>12, <1>13, <1>14 DEF IInv

(* A turn of the run is in flight: its loop stands in the turn's stage.    *)
LEMMA TurnFacts ==
  ASSUME IInv, NEW t \in turns
  PROVE  /\ t \in Turn /\ t.run \in Runs /\ t.stage \in Stages
         /\ run[t.run] \in RunState /\ run[t.run].pipeline \in Pipelines
         /\ Awaited(t.run, t.stage) /\ Active(t.run)
         /\ run[t.run].status \in {"running", "awaiting-approval"}
         /\ t.policy = run[t.run].policy
<1>1. t \in Turn /\ t.run \in Runs /\ t.stage \in Stages /\ run[t.run] \in RunState
  BY DEF IInv, TypeOK, Turn
<1>2. Awaited(t.run, t.stage) /\ Active(t.run)
  BY DEF IInv, NoOrphanTurns, Awaited, Active
<1> QED
  BY <1>1, <1>2 DEF IInv, StatusFollowsLoop, PinsAgree, Active, RunState, RunStatus, Terminal

(* The turns and their ends.                                               *)
LEMMA BeginTurnInv ==
  ASSUME IInv, TypeOK', NEW r \in Runs, NEW i \in Stages, NEW e \in Roles,
         BeginTurn(r, i, e)
  PROVE  IInv'
<1> DEFINE w == TakesTurn(run[r], i, e)
           n == NewTurn(r, i, e)
<1>1. run[r] \in RunState /\ run[r].pc = "stage" /\ run[r].at = i /\ Active(r)
  BY DEF BeginTurn, Awaited, Active, IInv, TypeOK
<1>2. /\ run' = [run EXCEPT ![r] = w] /\ turns' = turns \cup {n} /\ asking' = asking
      /\ UNCHANGED <<controllers, aborted, runPolicies, settleWaiters, recorded, unasked>>
  BY DEF BeginTurn
<1>3. /\ w.pc = run[r].pc /\ w.at = run[r].at /\ w.pipeline = run[r].pipeline
      /\ w.policy = run[r].policy /\ w.status = run[r].status
  BY <1>1 DEF TakesTurn, RunState
<1>4. run[r].status \in {"running", "awaiting-approval"}
  BY <1>1 DEF IInv, StatusFollowsLoop, RunState, RunStatus, Terminal
<1>5. n.run = r /\ n.stage = i /\ n.policy = run[r].policy
  BY <1>1 DEF NewTurn, IInv, PinsAgree, NothingHeldForSettledRuns
<1> HIDE DEF w, n
<1>6. \A q \in Runs : run'[q] = IF q = r THEN w ELSE run[q]
  BY <1>2 DEF IInv, TypeOK
<1>7. AwaitingMeansAsking'
  BY <1>2, <1>3, <1>6 DEF IInv, AwaitingMeansAsking
<1>9. /\ w.status \in {"running", "awaiting-approval"}
      /\ UNCHANGED <<controllers, aborted, runPolicies, settleWaiters, recorded>>
      /\ \A s \in turns' : \/ s \in turns
                           \/ s.run = r /\ s.policy = run[r].policy /\ Awaited(r, s.stage)
      /\ \A q \in unasked' : q \in unasked \/ (q = r /\ run[r].policy = "auto")
  <2>1. w.status \in {"running", "awaiting-approval"}
    BY <1>1, <1>2, <1>3, <1>4, <1>5 DEF Awaited
  <2>2. UNCHANGED <<controllers, aborted, runPolicies, settleWaiters, recorded>>
    BY <1>2
  <2>3. \A s \in turns' : \/ s \in turns
                          \/ s.run = r /\ s.policy = run[r].policy /\ Awaited(r, s.stage)
    BY <1>1, <1>2, <1>3, <1>4, <1>5 DEF Awaited
  <2>4. \A q \in unasked' : q \in unasked \/ (q = r /\ run[r].policy = "auto")
    BY <1>2
  <2> QED
    BY <2>1, <2>2, <2>3, <2>4
<1> QED
  BY <1>1, <1>2, <1>3, <1>7, <1>9, SameLoopInv

LEMMA EndTurnInv ==
  ASSUME IInv, TypeOK', NEW t \in turns, NEW cost \in Costs, NEW out \in Outcomes,
         EndTurn(t, cost, out)
  PROVE  IInv'
<1> DEFINE r == t.run
           w == TurnOver(run[t.run], t.stage, cost)
<1>1. /\ r \in Runs /\ Active(r) /\ run[r] \in RunState
      /\ run[r].status \in {"running", "awaiting-approval"}
  BY TurnFacts
<1>2. /\ run' = [run EXCEPT ![r] = w] /\ turns' = turns \ {t} /\ t \notin asking
      /\ UNCHANGED <<asking, controllers, aborted, runPolicies, settleWaiters, recorded, unasked>>
  BY DEF EndTurn
<1>3. /\ w.pc = run[r].pc /\ w.at = run[r].at /\ w.pipeline = run[r].pipeline
      /\ w.policy = run[r].policy /\ w.status = run[r].status
  BY <1>1 DEF TurnOver, RunState
<1> HIDE DEF r, w
<1>4. \A q \in Runs : run'[q] = IF q = r THEN w ELSE run[q]
  BY <1>2 DEF IInv, TypeOK
<1>5. AwaitingMeansAsking'
  BY <1>2, <1>3, <1>4 DEF IInv, AwaitingMeansAsking
<1>7. /\ w.status \in {"running", "awaiting-approval"}
      /\ UNCHANGED <<controllers, aborted, runPolicies, settleWaiters, recorded>>
      /\ \A s \in turns' : \/ s \in turns
                           \/ s.run = r /\ s.policy = run[r].policy /\ Awaited(r, s.stage)
      /\ \A q \in unasked' : q \in unasked \/ (q = r /\ run[r].policy = "auto")
  <2>1. w.status \in {"running", "awaiting-approval"}
    BY <1>1, <1>2, <1>3
  <2>2. UNCHANGED <<controllers, aborted, runPolicies, settleWaiters, recorded>>
    BY <1>2
  <2>3. \A s \in turns' : \/ s \in turns
                          \/ s.run = r /\ s.policy = run[r].policy /\ Awaited(r, s.stage)
    BY <1>1, <1>2, <1>3
  <2>4. \A q \in unasked' : q \in unasked \/ (q = r /\ run[r].policy = "auto")
    BY <1>2
  <2> QED
    BY <2>1, <2>2, <2>3, <2>4
<1> QED
  BY <1>1, <1>2, <1>3, <1>5, <1>7, SameLoopInv

LEMMA EndTurnTakeNextInv ==
  ASSUME IInv, TypeOK', NEW t \in turns, NEW cost \in Costs, NEW out \in Outcomes,
         NEW e \in Roles, EndTurnTakeNext(t, cost, out, e)
  PROVE  IInv'
<1> DEFINE r == t.run
           u == TurnOver(run[t.run], t.stage, cost)
           w == TakesTurn(u, t.stage, e)
           n == NewTurn(r, t.stage, e)
<1>1. /\ r \in Runs /\ Active(r) /\ run[r] \in RunState /\ t.stage \in Stages
      /\ run[r].status \in {"running", "awaiting-approval"}
      /\ Awaited(r, t.stage)
  BY TurnFacts
<1>2. /\ run' = [run EXCEPT ![r] = w] /\ turns' = (turns \ {t}) \cup {n} /\ t \notin asking
      /\ run[r].pipeline[t.stage].overlap
      /\ UNCHANGED <<asking, controllers, aborted, runPolicies, settleWaiters, recorded, unasked>>
  BY DEF EndTurnTakeNext
<1>3. /\ w.pc = run[r].pc /\ w.at = run[r].at /\ w.pipeline = run[r].pipeline
      /\ w.policy = run[r].policy /\ w.status = run[r].status
  <2>1. u \in RunState
    BY <1>1, TurnOverType
  <2>2. /\ u.pc = run[r].pc /\ u.at = run[r].at /\ u.pipeline = run[r].pipeline
        /\ u.policy = run[r].policy /\ u.status = run[r].status
    BY <1>1 DEF TurnOver, RunState
  <2> HIDE DEF u
  <2> QED
    BY <2>1, <2>2 DEF TakesTurn, RunState
<1>4. n.run = r /\ n.stage = t.stage /\ n.policy = run[r].policy
  BY <1>1 DEF NewTurn, IInv, PinsAgree, NothingHeldForSettledRuns
<1> HIDE DEF r, w, n
<1>5. \A q \in Runs : run'[q] = IF q = r THEN w ELSE run[q]
  BY <1>2 DEF IInv, TypeOK
<1>6. AwaitingMeansAsking'
  BY <1>2, <1>3, <1>5 DEF IInv, AwaitingMeansAsking
<1>8. /\ w.status \in {"running", "awaiting-approval"}
      /\ UNCHANGED <<controllers, aborted, runPolicies, settleWaiters, recorded>>
      /\ \A s \in turns' : \/ s \in turns
                           \/ s.run = r /\ s.policy = run[r].policy /\ Awaited(r, s.stage)
      /\ \A q \in unasked' : q \in unasked \/ (q = r /\ run[r].policy = "auto")
  <2>1. w.status \in {"running", "awaiting-approval"}
    BY <1>1, <1>2, <1>3, <1>4
  <2>2. UNCHANGED <<controllers, aborted, runPolicies, settleWaiters, recorded>>
    BY <1>2
  <2>3. \A s \in turns' : \/ s \in turns
                          \/ s.run = r /\ s.policy = run[r].policy /\ Awaited(r, s.stage)
    BY <1>1, <1>2, <1>3, <1>4
  <2>4. \A q \in unasked' : q \in unasked \/ (q = r /\ run[r].policy = "auto")
    BY <1>2
  <2> QED
    BY <2>1, <2>2, <2>3, <2>4
<1> QED
  BY <1>1, <1>2, <1>3, <1>6, <1>8, SameLoopInv

(* The approvals and the tools that ask for none.                          *)
LEMMA ApprovalInv ==
  ASSUME IInv, TypeOK', NEW t \in turns,
         RequestApproval(t) \/ ApprovalDecided(t) \/ RunToolUnasked(t)
  PROVE  IInv'
<1> DEFINE r == t.run
<1>1. /\ r \in Runs /\ Active(r) /\ run[r] \in RunState
      /\ run[r].status \in {"running", "awaiting-approval"}
      /\ t.policy = run[r].policy
  BY TurnFacts
<1>2. /\ turns' = turns
      /\ UNCHANGED <<controllers, aborted, runPolicies, settleWaiters, recorded>>
  BY DEF RequestApproval, ApprovalDecided, RunToolUnasked
<1>3. PICK w : /\ run' = [run EXCEPT ![r] = w]
               /\ w.pc = run[r].pc /\ w.at = run[r].at /\ w.pipeline = run[r].pipeline
               /\ w.policy = run[r].policy
               /\ w.status \in {"running", "awaiting-approval"}
               /\ w.status = "awaiting-approval" =>
                    \/ t \in asking'
                    \/ ~ApprovalDecided(t) /\ run[r].status = "awaiting-approval"
  <2>1. CASE RequestApproval(t)
    <3> WITNESS [run[r] EXCEPT !.status = "awaiting-approval"]
    <3> QED
      BY <1>1, <2>1 DEF RequestApproval, RunState
  <2>2. CASE ApprovalDecided(t)
    <3> WITNESS [run[r] EXCEPT !.status = IF @ = "awaiting-approval" THEN "running" ELSE @]
    <3> QED
      BY <1>1, <2>2 DEF ApprovalDecided, RunState
  <2>3. CASE RunToolUnasked(t) /\ ~ApprovalDecided(t)
    <3> WITNESS run[r]
    <3>1. run' = [run EXCEPT ![r] = run[r]]
      BY <1>1, <2>3 DEF RunToolUnasked, IInv, TypeOK
    <3> QED
      BY <1>1, <2>3, <3>1
  <2> QED
    BY <2>1, <2>2, <2>3
<1> HIDE DEF r
<1>4. \A q \in Runs : run'[q] = IF q = r THEN w ELSE run[q]
  BY <1>3 DEF IInv, TypeOK
<1>5. AwaitingMeansAsking'
  <2> SUFFICES ASSUME NEW q \in Runs, run'[q].status = "awaiting-approval"
               PROVE  \E s \in asking' : s.run = q
    BY DEF AwaitingMeansAsking
  <2>1. CASE t \in asking' /\ q = r
    BY <2>1 DEF r
  <2>2. CASE q = r /\ ~ApprovalDecided(t) /\ run[r].status = "awaiting-approval"
    BY <2>2 DEF RequestApproval, RunToolUnasked, IInv, AwaitingMeansAsking
  <2>3. CASE q # r
    <3>1. \E s \in asking : s.run = q
      BY <1>4, <2>3 DEF IInv, AwaitingMeansAsking
    <3> QED
      BY <2>3, <3>1 DEF RequestApproval, ApprovalDecided, RunToolUnasked, r
  <2> QED
    BY <1>3, <1>4, <2>1, <2>2, <2>3
<1>7. \A s \in turns' : \/ s \in turns
                        \/ s.run = r /\ s.policy = run[r].policy /\ Awaited(r, s.stage)
  BY <1>2
<1>8. \A q \in unasked' : q \in unasked \/ (q = r /\ run[r].policy = "auto")
  <2>1. CASE RunToolUnasked(t)
    <3>1. unasked' = unasked \cup {r}
      BY <2>1 DEF RunToolUnasked, r
    <3>2. run[r].policy = "auto"
      BY <1>1, <2>1 DEF RunToolUnasked, PolicyOf, RunState, Policy
    <3> QED
      BY <3>1, <3>2
  <2>2. CASE unasked' = unasked
    BY <2>2
  <2> QED
    BY <2>1, <2>2 DEF RequestApproval, ApprovalDecided
<1> QED
  BY <1>1, <1>2, <1>3, <1>5, <1>7, <1>8, SameLoopInv

(* A loop that can go on has no turn in flight, and its run is running.    *)
LEMMA QuietFacts ==
  ASSUME IInv, NEW r \in Runs,
         \/ run[r].pc = "stage" /\ InFlight(r, run[r].at) = {}
         \/ run[r].pc = "gate"
  PROVE  /\ Active(r) /\ run[r] \in RunState /\ run[r].at \in Stages
         /\ run[r].status = "running"
         /\ \A t \in turns : t.run # r
<1>1. Active(r) /\ run[r] \in RunState /\ run[r].at \in Stages
  BY DEF Active, IInv, TypeOK, StatusFollowsLoop
<1>2. \A t \in turns : t.run # r
  BY DEF IInv, NoOrphanTurns, Awaited, InFlight
<1>3. run[r].status # "awaiting-approval"
  BY <1>2 DEF IInv, AwaitingMeansAsking, TypeOK
<1>4. run[r].status # "none" /\ run[r].status \notin Terminal
  BY <1>1 DEF IInv, StatusFollowsLoop, Active
<1> QED
  BY <1>1, <1>2, <1>3, <1>4 DEF RunState, RunStatus, Terminal

(* The record once the current stage is settled with status s.             *)
Returned(u, b, s) == [[u EXCEPT !.tagged = b] EXCEPT !.stages[u.at] = s]

LEMMA ReturnedFacts ==
  ASSUME NEW u \in RunState, NEW s \in StageStatus, NEW b \in BOOLEAN
  PROVE  /\ Returned(u, b, s) \in RunState
         /\ Returned(u, b, s).status = u.status
         /\ Returned(u, b, s).policy = u.policy
         /\ Returned(u, b, s).spent = u.spent
         /\ Returned(u, b, s).pipeline = u.pipeline
<1> DEFINE x == [u EXCEPT !.tagged = b]
           f == [x.stages EXCEPT ![u.at] = s]
<1>1. /\ x \in RunState /\ x.status = u.status
      /\ x.policy = u.policy /\ x.spent = u.spent /\ x.pipeline = u.pipeline
  <2>1. x \in RunState
    BY TaggedType
  <2> QED
    BY <2>1 DEF RunState
<1>2. f \in [Stages -> StageStatus]
  BY <1>1 DEF RunState
<1>3. Returned(u, b, s) = [x EXCEPT !.stages = f]
  BY DEF Returned
<1> HIDE DEF x, f
<1>4. LET v == [x EXCEPT !.stages = f]
      IN  /\ v \in RunState /\ v.status = u.status
          /\ v.policy = u.policy /\ v.spent = u.spent /\ v.pipeline = u.pipeline
  BY <1>1, <1>2 DEF RunState
<1> QED
  BY <1>3, <1>4

LEMMA StageReturnsLoop ==
  ASSUME IInv, NEW r \in Runs, NEW unresolved \in BOOLEAN, NEW tagged \in BOOLEAN,
         StageReturns(r, unresolved, tagged)
  PROVE  \E w : LoopStep(r, w)
<1> DEFINE i == run[r].at
           u == [run[r] EXCEPT !.tagged = tagged]
           settled(status) == [u EXCEPT !.stages[i] = status]
<1>1. /\ Active(r) /\ run[r] \in RunState /\ run[r].at \in Stages
      /\ run[r].status = "running"
      /\ \A t \in turns : t.run # r
  BY QuietFacts DEF StageReturns, StageOver, Resolved
<1>2. ASSUME NEW s \in StageStatus
      PROVE  /\ settled(s) \in RunState /\ settled(s).status = "running"
             /\ settled(s).policy = run[r].policy /\ settled(s).spent = run[r].spent
             /\ settled(s).pipeline = run[r].pipeline
  <2>1. settled(s) = Returned(run[r], tagged, s)
    BY DEF Returned
  <2> HIDE DEF settled
  <2> QED
    BY <1>1, <2>1, ReturnedFacts
<1>3. i + 1 \in 1 .. (NStages + 1)
  BY <1>1, ConstantsAssumption DEF Stages
<1>4. PICK j \in NextStage(u, i + 1) : \E x :
        /\ Reaches(r, x)
        /\ IF AbortSeen(r)
           THEN x = Cancelled(settled("skipped"))
           ELSE \/ x = Ended(settled("failed"), "failed")
                \/ x = AtNextAwait(r, settled("failed"), i + 1, j)
                \/ x = AtNextAwait(r, settled("done"), i + 1, j)
  BY DEF StageReturns, AfterStage
<1>5. PICK w :
        /\ Reaches(r, w)
        /\ IF AbortSeen(r)
           THEN w = Cancelled(settled("skipped"))
           ELSE \/ w = Ended(settled("failed"), "failed")
                \/ w = AtNextAwait(r, settled("failed"), i + 1, j)
                \/ w = AtNextAwait(r, settled("done"), i + 1, j)
  BY <1>4
<1>6. j \in (i + 1) .. (NStages + 1)
  BY DEF NextStage
<1> HIDE DEF i, u, settled
<1>7. {"skipped", "failed", "done"} \subseteq StageStatus
  BY DEF StageStatus
<1>8. \/ Continues(settled("skipped"), w) \/ Continues(settled("failed"), w)
      \/ Continues(settled("done"), w)
  <2>1. CASE AbortSeen(r)
    <3>1. w = Cancelled(settled("skipped"))
      BY <1>5, <2>1
    <3> QED
      BY <1>2, <1>7, <3>1, EndedContinues DEF Terminal
  <2>2. CASE w = Ended(settled("failed"), "failed")
    BY <1>2, <1>7, <2>2, EndedContinues DEF Terminal
  <2>3. CASE w = AtNextAwait(r, settled("failed"), i + 1, j)
    BY <1>2, <1>3, <1>6, <1>7, <2>3, NextAwaitContinues
  <2>4. CASE w = AtNextAwait(r, settled("done"), i + 1, j)
    BY <1>2, <1>3, <1>6, <1>7, <2>4, NextAwaitContinues
  <2> QED
    BY <1>5, <2>1, <2>2, <2>3, <2>4
<1>9. Continues(run[r], w)
  BY <1>2, <1>7, <1>8 DEF Continues
<1>10. r \in aborted => w.status = "cancelled"
  <2> SUFFICES ASSUME r \in aborted PROVE w.status = "cancelled"
    OBVIOUS
  <2>1. w = Cancelled(settled("skipped")) /\ settled("skipped") \in RunState
    BY <1>2, <1>5, <1>7 DEF AbortSeen
  <2> QED
    BY <2>1 DEF Cancelled, RunState
<1>11. aborted' = aborted
  BY DEF StageReturns, StageOver, Resolved
<1> QED
  BY <1>1, <1>5, <1>9, <1>10, <1>11 DEF LoopStep

LEMMA StageReturnsInv ==
  ASSUME IInv, TypeOK', NEW r \in Runs, NEW unresolved \in BOOLEAN, NEW tagged \in BOOLEAN,
         StageReturns(r, unresolved, tagged)
  PROVE  IInv'
<1>1. PICK w : LoopStep(r, w)
  BY StageReturnsLoop
<1>2. \A t \in turns : t.run # r
  BY QuietFacts DEF StageReturns, StageOver, Resolved
<1>3. UNCHANGED <<turns, asking, aborted, autoApprove, unasked>>
  BY DEF StageReturns, StageOver, Resolved
<1> QED
  BY <1>1, <1>2, <1>3, ReachesInv DEF LoopStep

LEMMA DecideSpendLoop ==
  ASSUME IInv, NEW r \in Runs, NEW ok \in BOOLEAN, DecideSpend(r, ok)
  PROVE  \E w : LoopStep(r, w)
<1>1. Active(r) /\ run[r] \in RunState /\ run[r].at \in Stages /\ run[r].status = "running"
  BY QuietFacts DEF DecideSpend
<1>2. CASE Reaches(r, Ended(run[r], "cancelled"))
  <2>1. Ended(run[r], "cancelled").status = "cancelled"
    BY <1>1 DEF Ended, RunState
  <2>2. Continues(run[r], Ended(run[r], "cancelled"))
    BY <1>1, EndedContinues DEF Terminal
  <2> QED
    BY <1>1, <1>2, <2>1, <2>2 DEF LoopStep, DecideSpend
<1>3. CASE Reaches(r, StartStage(run[r], run[r].at))
  <2>1. StartStage(run[r], run[r].at).pc = "stage"
    BY <1>1 DEF StartStage, RunState
  <2>2. Continues(run[r], StartStage(run[r], run[r].at))
    BY <1>1 DEF Continues, StartStage, RunState
  <2> QED
    BY <1>1, <1>3, <2>1, <2>2 DEF LoopStep, DecideSpend
<1> QED
  BY <1>2, <1>3 DEF DecideSpend

LEMMA DecideSpendInv ==
  ASSUME IInv, TypeOK', NEW r \in Runs, NEW ok \in BOOLEAN, DecideSpend(r, ok)
  PROVE  IInv'
<1>1. PICK w : LoopStep(r, w)
  BY DecideSpendLoop
<1>2. \A t \in turns : t.run # r
  BY QuietFacts DEF DecideSpend
<1>3. UNCHANGED <<turns, asking, aborted, autoApprove, unasked>>
  BY DEF DecideSpend
<1> QED
  BY <1>1, <1>2, <1>3, ReachesInv DEF LoopStep

LEMMA OperatorInv ==
  ASSUME IInv, TypeOK', (\E r \in Runs : Cancel(r) \/ WhenSettled(r)) \/ UpdateSettings
  PROVE  IInv'
<1>1. UNCHANGED <<run, turns, asking, controllers, runPolicies, recorded, unasked>>
  BY DEF Cancel, WhenSettled, UpdateSettings
<1>2. \A q \in aborted' : q \in aborted \/ q \in controllers
  BY DEF Cancel, WhenSettled, UpdateSettings
<1>3. \A q \in settleWaiters' :
        q \in settleWaiters \/ (run[q].pc # "none" /\ run[q].status \notin Terminal)
  BY DEF Cancel, WhenSettled, UpdateSettings
<1>4. StatusFollowsLoop'
  BY <1>1, <1>2 DEF IInv, StatusFollowsLoop, NothingHeldForSettledRuns, Active, TypeOK
<1>5. NothingHeldForSettledRuns'
  BY <1>1, <1>3 DEF IInv, NothingHeldForSettledRuns, StatusFollowsLoop, Active, TypeOK, RunState
<1> QED
  BY <1>1, <1>4, <1>5 DEF IInv, AwaitingMeansAsking, PinsAgree,
     NoOrphanTurns, Awaited, LedgerExact, PolicyPinned, Active

(* No step breaks the invariant.                                           *)
LEMMA NextInv ==
  ASSUME IInv, TypeOK', [Next]_vars
  PROVE  IInv'
<1>1. ASSUME NEW r \in Runs, NEW p \in Pipelines, NEW limit \in Limits,
             NEW owner \in Roles, Submit(r, p, limit, owner)
      PROVE  IInv'
  BY <1>1, SubmitInv
<1>2. CASE (\E r \in Runs : Cancel(r) \/ WhenSettled(r)) \/ UpdateSettings
  BY <1>2, OperatorInv
<1>3. ASSUME NEW r \in Runs, NEW ok \in BOOLEAN, DecideSpend(r, ok)
      PROVE  IInv'
  BY <1>3, DecideSpendInv
<1>4. ASSUME NEW r \in Runs, NEW i \in Stages, NEW e \in Roles, BeginTurn(r, i, e)
      PROVE  IInv'
  BY <1>4, BeginTurnInv
<1>5. ASSUME NEW t \in turns, TurnStep(t)
      PROVE  IInv'
  BY <1>5, EndTurnInv, EndTurnTakeNextInv DEF TurnStep
<1>6. ASSUME NEW t \in turns,
             RequestApproval(t) \/ ApprovalDecided(t) \/ RunToolUnasked(t)
      PROVE  IInv'
  BY <1>6, ApprovalInv
<1>7. ASSUME NEW r \in Runs, NEW unresolved \in BOOLEAN, NEW tagged \in BOOLEAN,
             StageReturns(r, unresolved, tagged)
      PROVE  IInv'
  BY <1>7, StageReturnsInv
<1>8. CASE UNCHANGED vars
  BY <1>8 DEF vars, IInv, TypeOK, StatusFollowsLoop, AwaitingMeansAsking,
     PinsAgree, NothingHeldForSettledRuns, NoOrphanTurns, Awaited, LedgerExact, PolicyPinned,
     Active
<1> QED
  BY <1>1, <1>2, <1>3, <1>4, <1>5, <1>6, <1>7, <1>8 DEF Next

-----------------------------------------------------------------------------
(* What follows from the invariant.                                        *)

(* The inductive invariant holds of every behaviour.                       *)
THEOREM Invariant == Spec => []IInv
<1>1. Init /\ TypeOK => IInv
  <2> SUFFICES ASSUME Init, TypeOK
               PROVE  IInv
    OBVIOUS
  <2>1. /\ \A r \in Runs : /\ run[r].status = "none" /\ run[r].pc = "none"
                           /\ runPolicies[r] = "none" /\ recorded[r] = 0
        /\ turns = {} /\ asking = {} /\ controllers = {} /\ aborted = {}
        /\ settleWaiters = {} /\ unasked = {}
    BY DEF Init, Unsubmitted
  <2> QED
    BY <2>1 DEF IInv, StatusFollowsLoop, AwaitingMeansAsking, PinsAgree,
       NothingHeldForSettledRuns, NoOrphanTurns, LedgerExact, PolicyPinned, Active, Terminal
<1>2. IInv /\ TypeOK' /\ [Next]_vars => IInv'
  BY NextInv
<1> QED
  BY <1>1, <1>2, TypeCorrect, PTL DEF Spec

(* No stage is ever settled, and no run ever over, while an employee still *)
(* works on it.                                                            *)
THEOREM NobodyWorksOnASettledStage ==
  Spec => [](NoOrphanTurns /\ SettledMeansStopped)
<1>1. IInv => NoOrphanTurns /\ SettledMeansStopped
  BY DEF IInv, NoOrphanTurns, SettledMeansStopped, Awaited
<1> QED
  BY <1>1, Invariant, PTL

(* A settled run leaves no controller, pinned policy or waiter behind.     *)
THEOREM NothingLeftBehind == Spec => []NothingHeldForSettledRuns
<1>1. IInv => NothingHeldForSettledRuns
  BY DEF IInv
<1> QED
  BY <1>1, Invariant, PTL

(* The workspace is charged exactly what its settled runs spent.           *)
THEOREM TheLedgerIsExact == Spec => []LedgerExact
<1>1. IInv => LedgerExact
  BY DEF IInv
<1> QED
  BY <1>1, Invariant, PTL

(* No run lets a gated tool run unasked unless it was submitted so.        *)
THEOREM ThePolicyIsPinned == Spec => []PolicyPinned
<1>1. IInv => PolicyPinned
  BY DEF IInv
<1> QED
  BY <1>1, Invariant, PTL

(* A step changes the record of one run at most, of one that is not over.  *)
LEMMA OverUntouched ==
  ASSUME IInv, Next, NEW r \in Runs, run[r].pc = "over"
  PROVE  run'[r] = run[r]
<1>1. \A t \in turns : t.run \in Runs /\ t.run # r
  BY DEF IInv, TypeOK, Turn, NoOrphanTurns, Awaited
<1>2. ASSUME NEW q \in Runs, NEW w, q # r, run' = [run EXCEPT ![q] = w]
      PROVE  run'[r] = run[r]
  BY <1>2 DEF IInv, TypeOK
<1>3. ASSUME NEW q \in Runs, NEW p \in Pipelines, NEW limit \in Limits,
             NEW owner \in Roles, Submit(q, p, limit, owner)
      PROVE  run'[r] = run[r]
  <2>1. q # r
    BY <1>3 DEF Submit
  <2>2. \E w : run' = [run EXCEPT ![q] = w]
    BY <1>3 DEF Submit
  <2> QED
    BY <1>2, <2>1, <2>2
<1>4. ASSUME NEW q \in Runs, NEW w, Reaches(q, w), run[q].pc # "over"
      PROVE  run'[r] = run[r]
  BY <1>2, <1>4 DEF Reaches
<1>5. ASSUME NEW q \in Runs, NEW ok \in BOOLEAN, DecideSpend(q, ok)
      PROVE  run'[r] = run[r]
  BY <1>4, <1>5 DEF DecideSpend
<1>6. ASSUME NEW q \in Runs, NEW unresolved \in BOOLEAN, NEW tagged \in BOOLEAN,
             StageReturns(q, unresolved, tagged)
      PROVE  run'[r] = run[r]
  <2>1. \E w : Reaches(q, w)
    BY <1>6 DEF StageReturns, StageOver, Resolved
  <2>2. run[q].pc # "over"
    BY <1>6 DEF StageReturns, StageOver, Resolved
  <2> QED
    BY <1>4, <2>1, <2>2
<1>7. ASSUME NEW q \in Runs, NEW i \in Stages, NEW e \in Roles, BeginTurn(q, i, e)
      PROVE  run'[r] = run[r]
  BY <1>2, <1>7 DEF BeginTurn, Awaited
<1>8. ASSUME NEW t \in turns, TurnStep(t)
      PROVE  run'[r] = run[r]
  <2>1. \E w : run' = [run EXCEPT ![t.run] = w]
    BY <1>8 DEF TurnStep, EndTurn, EndTurnTakeNext
  <2> QED
    BY <1>1, <1>2, <2>1
<1>9. ASSUME NEW t \in turns, RequestApproval(t) \/ ApprovalDecided(t)
       PROVE  run'[r] = run[r]
  <2>1. \E w : run' = [run EXCEPT ![t.run] = w]
    BY <1>9 DEF RequestApproval, ApprovalDecided
  <2> QED
    BY <1>1, <1>2, <2>1
<1>10. CASE \/ \E q \in Runs : Cancel(q) \/ WhenSettled(q)
            \/ UpdateSettings
            \/ \E t \in turns : RunToolUnasked(t)
  BY <1>10 DEF Cancel, WhenSettled, UpdateSettings, RunToolUnasked
<1> QED
  BY <1>3, <1>5, <1>6, <1>7, <1>8, <1>9, <1>10 DEF Next

(* A settled run is final: neither a late turn nor a late answer changes   *)
(* its status, its stages or its spend.                                    *)
THEOREM SettledRunsAreFinal == Spec => SettledIsFinal
<1>1. IInv /\ [Next]_vars => [\A r \in Runs : run[r].pc = "over" => run'[r] = run[r]]_vars
  BY OverUntouched
<1> QED
  BY <1>1, Invariant, PTL DEF Spec, SettledIsFinal

-----------------------------------------------------------------------------
(* The budget at the start of a stage.                                     *)

(* Record w of run r has budget left for a stage, and the run has been     *)
(* asked about if it is past the soft threshold.                           *)
MayStart(r, w) ==
  /\ w.spent < w.limit
  /\ SoftSpend > 0 /\ w.spent >= SoftSpend => r \in spendApproved

(* No stage starts between records u and w of run r that may not.          *)
PaidStart(r, u, w) ==
  \A k \in Stages : u.stages[k] # "running" /\ w.stages[k] = "running" => MayStart(r, w)

(* A run that waits at the soft-spend gate still has the budget it came    *)
(* with, so the stage behind the gate needs no second look.                *)
GateHasBudget ==
  \A r \in Runs : run[r].pc = "gate" => run[r].spent < run[r].limit /\ r \in spendApproved

BudgetStep ==
  \A r \in Runs, i \in Stages : Starts(r, i) =>
    /\ run'[r].spent < run'[r].limit
    /\ SoftSpend > 0 /\ run'[r].spent >= SoftSpend => r \in spendApproved

(* A run that ends, by whatever way, starts nothing.                       *)
LEMMA EndedStarts ==
  ASSUME NEW r \in Runs, NEW u \in RunState, NEW s \in Terminal
  PROVE  /\ PaidStart(r, u, Ended(u, s)) /\ Ended(u, s).pc = "over"
         /\ PaidStart(r, u, Cancelled(u)) /\ Cancelled(u).pc = "over"
BY DEF PaidStart, Ended, Cancelled, RunState

(* The loop looks at the budget and at the threshold before the stage.     *)
LEMMA NextAwaitStarts ==
  ASSUME NEW r \in Runs, NEW u \in RunState, u.status = "running",
         NEW i \in 1 .. (NStages + 1), NEW j \in i .. (NStages + 1)
  PROVE  LET w == AtNextAwait(r, u, i, j)
         IN  /\ PaidStart(r, u, w)
             /\ w.pc = "gate" => w.spent < w.limit /\ SoftSpend > 0 /\ w.spent >= SoftSpend
<1> DEFINE v == SkipTo(u, i, j)
           f == [k \in Stages |-> IF k \in i .. (j - 1) THEN "skipped" ELSE u.stages[k]]
           w == AtNextAwait(r, u, i, j)
<1>1. /\ v \in RunState /\ v.status = "running"
      /\ v.spent = u.spent /\ v.limit = u.limit
      /\ \A k \in Stages : v.stages[k] = "running" => u.stages[k] = "running"
  <2>1. v \in RunState
    BY SkipToType
  <2>2. v = [u EXCEPT !.stages = f]
    BY DEF SkipTo
  <2>3. \A k \in Stages : f[k] = "running" => u.stages[k] = "running"
    OBVIOUS
  <2> HIDE DEF f, v
  <2> QED
    BY <2>1, <2>2, <2>3 DEF RunState
<1>2. u.spent \in Nat /\ u.limit \in Nat
  BY DEF RunState
<1>3. PaidStart(r, u, Cancelled(u)) /\ Cancelled(u).pc = "over"
  BY EndedStarts DEF Terminal
<1> HIDE DEF v
<1>4. /\ PaidStart(r, u, Finished(v)) /\ Finished(v).pc = "over"
      /\ PaidStart(r, u, Ended(v, "failed")) /\ Ended(v, "failed").pc = "over"
  BY <1>1 DEF PaidStart, Finished, Ended, RunState
<1>5. /\ [v EXCEPT !.at = j, !.pc = "gate"].spent = u.spent
      /\ [v EXCEPT !.at = j, !.pc = "gate"].limit = u.limit
  BY <1>1 DEF RunState
<1>6. PaidStart(r, u, [v EXCEPT !.at = j, !.pc = "gate"])
  BY <1>1 DEF PaidStart, RunState
<1>7. ASSUME ~OutOfBudget(u), ~(SoftSpend > 0 /\ u.spent >= SoftSpend /\ r \notin spendApproved)
      PROVE  PaidStart(r, u, StartStage(v, j))
  <2>1. StartStage(v, j).spent = u.spent /\ StartStage(v, j).limit = u.limit
    BY <1>1 DEF StartStage, RunState
  <2>2. MayStart(r, StartStage(v, j))
    BY <1>2, <1>7, <2>1 DEF MayStart, OutOfBudget
  <2> QED
    BY <2>2 DEF PaidStart
<1>8. StartStage(v, j).pc = "stage"
  BY <1>1 DEF StartStage, RunState
<1>9. CASE AbortSeen(r)
  <2>1. w = Cancelled(u)
    BY <1>9 DEF AtNextAwait
  <2> QED
    BY <1>3, <2>1
<1>10. CASE ~AbortSeen(r) /\ j > NStages
  <2>1. w = Finished(v)
    BY <1>10 DEF AtNextAwait, v
  <2> QED
    BY <1>4, <2>1
<1>11. CASE ~AbortSeen(r) /\ ~(j > NStages) /\ OutOfBudget(u)
  <2>1. w = Ended(v, "failed")
    BY <1>11 DEF AtNextAwait, v
  <2> QED
    BY <1>4, <2>1
<1>12. CASE ~AbortSeen(r) /\ ~(j > NStages) /\ ~OutOfBudget(u)
  <2>1. CASE SoftSpend > 0 /\ u.spent >= SoftSpend /\ r \notin spendApproved
    <3>1. w = [v EXCEPT !.at = j, !.pc = "gate"]
      BY <1>12, <2>1 DEF AtNextAwait, v
    <3> QED
      BY <1>2, <1>5, <1>6, <1>12, <2>1, <3>1 DEF OutOfBudget
  <2>2. CASE ~(SoftSpend > 0 /\ u.spent >= SoftSpend /\ r \notin spendApproved)
    <3>1. w = StartStage(v, j)
      BY <1>12, <2>2 DEF AtNextAwait, v
    <3> QED
      BY <1>7, <1>8, <1>12, <2>2, <3>1
  <2> QED
    BY <2>1, <2>2
<1> QED
  BY <1>9, <1>10, <1>11, <1>12

(* One run goes from its record to w, and whatever starts in w may start.  *)
LEMMA OneRunKeepsBudget ==
  ASSUME IInv, GateHasBudget, NEW r \in Runs, NEW w, run' = [run EXCEPT ![r] = w],
         spendApproved \subseteq spendApproved', PaidStart(r, run[r], w),
         w.pc = "gate" => w.spent < w.limit /\ r \in spendApproved'
  PROVE  BudgetStep /\ GateHasBudget'
<1>1. \A q \in Runs : run'[q] = IF q = r THEN w ELSE run[q]
  BY DEF IInv, TypeOK
<1>2. BudgetStep
  BY <1>1 DEF BudgetStep, Starts, PaidStart, MayStart
<1>3. GateHasBudget'
  BY <1>1 DEF GateHasBudget
<1> QED
  BY <1>2, <1>3

(* The loop of a run has come to an await.                                 *)
LEMMA ReachesKeepsBudget ==
  ASSUME IInv, GateHasBudget, NEW r \in Runs, NEW w, Reaches(r, w),
         PaidStart(r, run[r], w), w.pc = "gate" => w.spent < w.limit
  PROVE  BudgetStep /\ GateHasBudget'
<1>1. /\ run' = [run EXCEPT ![r] = w] /\ spendApproved \subseteq spendApproved'
      /\ w.pc = "gate" => r \in spendApproved'
  BY DEF Reaches
<1> QED
  BY <1>1, OneRunKeepsBudget

LEMMA SubmitKeepsBudget ==
  ASSUME IInv, GateHasBudget, NEW r \in Runs, NEW p \in Pipelines, NEW limit \in Limits,
         NEW owner \in Roles, Submit(r, p, limit, owner)
  PROVE  BudgetStep /\ GateHasBudget'
<1> DEFINE u == [Unsubmitted(p) EXCEPT !.status = "running", !.limit = limit,
                                       !.policy = autoApprove]
<1>1. /\ u \in RunState /\ u.status = "running" /\ u.spent = 0
      /\ \A k \in Stages : u.stages[k] # "running"
  <2>1. Unsubmitted(p) \in RunState
    BY ConstantsAssumption DEF Unsubmitted, RunState, RunStatus, StageStatus, Policy
  <2>2. limit \in Nat /\ autoApprove \in Policy
    BY ConstantsAssumption DEF IInv, TypeOK
  <2>3. u \in RunState /\ u.status = "running"
    BY <2>1, <2>2 DEF RunState, RunStatus
  <2> QED
    BY <2>3 DEF Unsubmitted
<1> HIDE DEF u
<1>2. PICK j \in NextStage(u, 1) : run' = [run EXCEPT ![r] = AtNextAwait(r, u, 1, j)]
  BY DEF Submit, u
<1> DEFINE w == AtNextAwait(r, u, 1, j)
<1>3. PaidStart(r, u, w) /\ w.pc # "gate"
  <2>1. j \in 1 .. (NStages + 1) /\ 1 \in 1 .. (NStages + 1)
    BY ConstantsAssumption DEF NextStage
  <2>2. w.spent = 0
    BY <1>1, <2>1, NextAwaitContinues DEF Continues
  <2>3. /\ PaidStart(r, u, w)
        /\ w.pc = "gate" => SoftSpend > 0 /\ w.spent >= SoftSpend
    <3> HIDE DEF w
    <3>1. u \in RunState /\ u.status = "running"
      BY <1>1
    <3> QED
      BY <2>1, <3>1, NextAwaitStarts DEF w
  <2> HIDE DEF w
  <2>4. SoftSpend \in Nat
    BY ConstantsAssumption
  <2> QED
    BY <2>2, <2>3, <2>4
<1>4. run' = [run EXCEPT ![r] = w]
  BY <1>2
<1> HIDE DEF w
<1>5. PaidStart(r, run[r], w)
  BY <1>1, <1>3 DEF PaidStart
<1>6. spendApproved \subseteq spendApproved'
  BY DEF Submit
<1> QED
  BY <1>3, <1>4, <1>5, <1>6, OneRunKeepsBudget

LEMMA StageReturnsKeepsBudget ==
  ASSUME IInv, GateHasBudget, NEW r \in Runs, NEW unresolved \in BOOLEAN,
         NEW tagged \in BOOLEAN, StageReturns(r, unresolved, tagged)
  PROVE  BudgetStep /\ GateHasBudget'
<1> DEFINE i == run[r].at
           u == [run[r] EXCEPT !.tagged = tagged]
           settled(status) == Returned(run[r], tagged, status)
<1>1. run[r] \in RunState /\ run[r].at \in Stages /\ run[r].status = "running"
  BY QuietFacts DEF StageReturns, StageOver, Resolved
<1>2. ASSUME NEW s \in {"skipped", "failed", "done"}
      PROVE  /\ settled(s) \in RunState /\ settled(s).status = "running"
             /\ \A k \in Stages : settled(s).stages[k] = "running" =>
                                     run[r].stages[k] = "running"
  <2>1. s \in StageStatus
    BY DEF StageStatus
  <2>2. settled(s) \in RunState /\ settled(s).status = "running"
    BY <1>1, <2>1, ReturnedFacts
  <2>3. settled(s).stages = [run[r].stages EXCEPT ![run[r].at] = s]
    BY <1>1 DEF Returned, RunState
  <2> QED
    BY <1>1, <2>2, <2>3 DEF RunState
<1>3. PICK j \in NextStage(u, i + 1) : \E x :
        /\ Reaches(r, x)
        /\ \/ x = Cancelled(settled("skipped"))
           \/ x = Ended(settled("failed"), "failed")
           \/ \E s \in {"failed", "done"} : x = AtNextAwait(r, settled(s), i + 1, j)
  BY DEF StageReturns, AfterStage, Returned
<1>4. PICK w :
        /\ Reaches(r, w)
        /\ \/ w = Cancelled(settled("skipped"))
           \/ w = Ended(settled("failed"), "failed")
           \/ \E s \in {"failed", "done"} : w = AtNextAwait(r, settled(s), i + 1, j)
  BY <1>3
<1>5. i + 1 \in 1 .. (NStages + 1) /\ j \in (i + 1) .. (NStages + 1)
  BY <1>1, ConstantsAssumption DEF Stages, NextStage
<1> HIDE DEF i, u, settled
<1>6. \E s \in {"skipped", "failed", "done"} :
        PaidStart(r, settled(s), w) /\ (w.pc = "gate" => w.spent < w.limit)
  <2>1. CASE w = Cancelled(settled("skipped"))
    BY <1>2, <2>1, EndedStarts DEF Terminal
  <2>2. CASE w = Ended(settled("failed"), "failed")
    BY <1>2, <2>2, EndedStarts DEF Terminal
  <2>3. ASSUME NEW s \in {"failed", "done"}, w = AtNextAwait(r, settled(s), i + 1, j)
        PROVE  PaidStart(r, settled(s), w) /\ (w.pc = "gate" => w.spent < w.limit)
    BY <1>2, <1>5, <2>3, NextAwaitStarts
  <2> QED
    BY <1>4, <2>1, <2>2, <2>3
<1>7. PaidStart(r, run[r], w) /\ (w.pc = "gate" => w.spent < w.limit)
  BY <1>2, <1>6 DEF PaidStart
<1> QED
  BY <1>4, <1>7, ReachesKeepsBudget

LEMMA DecideSpendKeepsBudget ==
  ASSUME IInv, GateHasBudget, NEW r \in Runs, NEW ok \in BOOLEAN, DecideSpend(r, ok)
  PROVE  BudgetStep /\ GateHasBudget'
<1>1. run[r] \in RunState /\ run[r].at \in Stages
  BY QuietFacts DEF DecideSpend
<1>2. run[r].spent < run[r].limit /\ r \in spendApproved
  BY DEF DecideSpend, GateHasBudget
<1>3. CASE Reaches(r, Ended(run[r], "cancelled"))
  BY <1>1, <1>3, EndedStarts, ReachesKeepsBudget DEF Terminal
<1>4. CASE Reaches(r, StartStage(run[r], run[r].at))
  <2> DEFINE w == StartStage(run[r], run[r].at)
  <2>1. w.spent = run[r].spent /\ w.limit = run[r].limit /\ w.pc = "stage"
    BY <1>1 DEF StartStage, RunState
  <2>2. PaidStart(r, run[r], w)
    BY <1>2, <2>1 DEF PaidStart, MayStart
  <2> HIDE DEF w
  <2>3. Reaches(r, w)
    BY <1>4 DEF w
  <2> QED
    BY <2>1, <2>2, <2>3, ReachesKeepsBudget
<1> QED
  BY <1>3, <1>4 DEF DecideSpend

(* A turn begins, asks, is answered or ends: its run is not at the gate,   *)
(* and no stage starts.                                                    *)
LEMMA TurnsKeepBudget ==
  ASSUME IInv, GateHasBudget, NEW r \in Runs, NEW w, run' = [run EXCEPT ![r] = w],
         spendApproved' = spendApproved, w.stages = run[r].stages, w.pc # "gate"
  PROVE  BudgetStep /\ GateHasBudget'
<1>1. PaidStart(r, run[r], w)
  BY DEF PaidStart
<1> QED
  BY <1>1, OneRunKeepsBudget

LEMMA BeginTurnKeepsBudget ==
  ASSUME IInv, GateHasBudget, NEW r \in Runs, NEW i \in Stages, NEW e \in Roles,
         BeginTurn(r, i, e)
  PROVE  BudgetStep /\ GateHasBudget'
<1> DEFINE w == TakesTurn(run[r], i, e)
<1>1. run[r] \in RunState /\ run[r].pc = "stage"
  BY DEF BeginTurn, Awaited, IInv, TypeOK
<1>2. w.stages = run[r].stages /\ w.pc # "gate"
  BY <1>1 DEF TakesTurn, RunState
<1>3. run' = [run EXCEPT ![r] = w] /\ spendApproved' = spendApproved
  BY DEF BeginTurn
<1> HIDE DEF w
<1> QED
  BY <1>2, <1>3, TurnsKeepBudget

LEMMA TurnStepKeepsBudget ==
  ASSUME IInv, GateHasBudget, NEW t \in turns, TurnStep(t)
  PROVE  BudgetStep /\ GateHasBudget'
<1>1. /\ t.run \in Runs /\ t.stage \in Stages
      /\ run[t.run] \in RunState /\ run[t.run].pc = "stage"
  BY TurnFacts DEF Awaited
<1>2. ASSUME NEW cost \in Costs, NEW out \in Outcomes, EndTurn(t, cost, out)
      PROVE  BudgetStep /\ GateHasBudget'
  <2> DEFINE w == TurnOver(run[t.run], t.stage, cost)
  <2>1. w.stages = run[t.run].stages /\ w.pc # "gate"
    BY <1>1 DEF TurnOver, RunState
  <2>2. run' = [run EXCEPT ![t.run] = w] /\ spendApproved' = spendApproved
    BY <1>2 DEF EndTurn
  <2> HIDE DEF w
  <2> QED
    BY <1>1, <2>1, <2>2, TurnsKeepBudget
<1>3. ASSUME NEW cost \in Costs, NEW out \in Outcomes, NEW e \in Roles,
             EndTurnTakeNext(t, cost, out, e)
      PROVE  BudgetStep /\ GateHasBudget'
  <2> DEFINE v == TurnOver(run[t.run], t.stage, cost)
             w == TakesTurn(v, t.stage, e)
  <2>1. v \in RunState /\ v.stages = run[t.run].stages /\ v.pc = "stage"
    <3>1. v \in RunState
      BY <1>1, TurnOverType
    <3>2. v.stages = run[t.run].stages /\ v.pc = "stage"
      BY <1>1 DEF TurnOver, RunState
    <3> QED
      BY <3>1, <3>2
  <2>2. run' = [run EXCEPT ![t.run] = w] /\ spendApproved' = spendApproved
    BY <1>3 DEF EndTurnTakeNext
  <2> HIDE DEF v
  <2>3. w.stages = run[t.run].stages /\ w.pc # "gate"
    BY <2>1 DEF TakesTurn, RunState
  <2> HIDE DEF w
  <2> QED
    BY <1>1, <2>2, <2>3, TurnsKeepBudget
<1> QED
  BY <1>2, <1>3 DEF TurnStep

LEMMA ApprovalKeepsBudget ==
  ASSUME IInv, GateHasBudget, NEW t \in turns, RequestApproval(t) \/ ApprovalDecided(t)
  PROVE  BudgetStep /\ GateHasBudget'
<1>1. t.run \in Runs /\ run[t.run] \in RunState /\ run[t.run].pc = "stage"
  BY TurnFacts DEF Awaited
<1>2. PICK s : run' = [run EXCEPT ![t.run] = [run[t.run] EXCEPT !.status = s]]
  BY DEF RequestApproval, ApprovalDecided
<1> DEFINE w == [run[t.run] EXCEPT !.status = s]
<1>3. w.stages = run[t.run].stages /\ w.pc # "gate"
  BY <1>1 DEF RunState
<1>4. run' = [run EXCEPT ![t.run] = w] /\ spendApproved' = spendApproved
  BY <1>2 DEF RequestApproval, ApprovalDecided
<1> HIDE DEF w
<1> QED
  BY <1>1, <1>3, <1>4, TurnsKeepBudget

(* No step starts a stage the budget does not allow.                       *)
LEMMA NextKeepsBudget ==
  ASSUME IInv, GateHasBudget, Next
  PROVE  BudgetStep /\ GateHasBudget'
<1>1. CASE \/ \E r \in Runs : Cancel(r) \/ WhenSettled(r)
           \/ UpdateSettings
           \/ \E t \in turns : RunToolUnasked(t)
  <2>1. run' = run /\ spendApproved' = spendApproved
    BY <1>1 DEF Cancel, WhenSettled, UpdateSettings, RunToolUnasked
  <2> QED
    BY <2>1 DEF BudgetStep, Starts, GateHasBudget
<1> QED
  BY <1>1, SubmitKeepsBudget, DecideSpendKeepsBudget, BeginTurnKeepsBudget,
     TurnStepKeepsBudget, ApprovalKeepsBudget, StageReturnsKeepsBudget DEF Next

(* Every stage starts with budget left, and past the soft threshold only   *)
(* once the operator has been asked: the stage behind the gate, which is   *)
(* started without a second look, included.                                *)
THEOREM StagesKeepTheBudget == Spec => StagesStartWithinBudget
<1>1. Init => GateHasBudget
  BY DEF Init, GateHasBudget, Unsubmitted
<1>2. IInv /\ GateHasBudget /\ [Next]_vars => GateHasBudget'
  BY NextKeepsBudget DEF vars, GateHasBudget
<1>3. IInv /\ GateHasBudget /\ [Next]_vars => [BudgetStep]_vars
  BY NextKeepsBudget
<1>4. [BudgetStep]_vars <=>
        [\A r \in Runs, i \in Stages : Starts(r, i) =>
           /\ run'[r].spent < run'[r].limit
           /\ SoftSpend > 0 /\ run'[r].spent >= SoftSpend => r \in spendApproved]_vars
  BY DEF BudgetStep
<1> QED
  BY <1>1, <1>2, <1>3, <1>4, Invariant, PTL DEF Spec, StagesStartWithinBudget

-----------------------------------------------------------------------------
(* A run that was cancelled ends as cancelled, and the engine implements   *)
(* RunLifecycle.                                                           *)

(* A step that leaves every run where it was.                              *)
QuietStep ==
  /\ \A r \in Runs : run'[r].pc = run[r].pc
  /\ \A r \in Runs : run[r].pc = "over" => run'[r] = run[r]
  /\ UNCHANGED <<aborted, recorded>>

(* The first step of a run, to an await or straight to its end.            *)
FirstStep(r, w) ==
  /\ run[r].pc = "none"
  /\ r \notin aborted
  /\ run' = [run EXCEPT ![r] = w]
  /\ w.pc \in {"stage", "gate", "over"}
  /\ w.pc = "over" => w.status \in {"done", "failed"}
  /\ UNCHANGED <<aborted, recorded>>

(* Submit starts a run, or settles it at once as done or failed.           *)
LEMMA SubmitMaps ==
  ASSUME IInv, NEW r \in Runs, NEW p \in Pipelines, NEW limit \in Limits,
         NEW owner \in Roles, Submit(r, p, limit, owner)
  PROVE  \E w : FirstStep(r, w)
<1> DEFINE u == [Unsubmitted(p) EXCEPT !.status = "running", !.limit = limit,
                                       !.policy = autoApprove]
<1>1. u \in RunState /\ u.status = "running"
  <2>1. Unsubmitted(p) \in RunState
    BY ConstantsAssumption DEF Unsubmitted, RunState, RunStatus, StageStatus, Policy
  <2>2. limit \in Nat /\ autoApprove \in Policy
    BY ConstantsAssumption DEF IInv, TypeOK
  <2> QED
    BY <2>1, <2>2 DEF RunState, RunStatus
<1> HIDE DEF u
<1>2. PICK j \in NextStage(u, 1) : run' = [run EXCEPT ![r] = AtNextAwait(r, u, 1, j)]
  BY DEF Submit, u
<1>3. run[r].pc = "none" /\ r \notin aborted /\ UNCHANGED <<aborted, recorded>>
  BY DEF Submit, IInv, StatusFollowsLoop
<1>4. j \in 1 .. (NStages + 1) /\ 1 \in 1 .. (NStages + 1)
  BY ConstantsAssumption DEF NextStage
<1> DEFINE w == AtNextAwait(r, u, 1, j)
           v == SkipTo(u, 1, j)
<1>5. w.pc \in {"stage", "gate", "over"}
  BY <1>1, <1>4, NextAwaitContinues DEF Continues
<1>6. w.pc = "over" => w.status \in {"done", "failed"}
  <2>1. v \in RunState /\ v.status = "running"
    <3> DEFINE f == [k \in Stages |-> IF k \in 1 .. (j - 1) THEN "skipped" ELSE u.stages[k]]
    <3>1. v \in RunState
      BY <1>1, SkipToType
    <3>2. v = [u EXCEPT !.stages = f]
      BY DEF SkipTo
    <3> HIDE DEF f, v
    <3> QED
      BY <1>1, <3>1, <3>2 DEF RunState
  <2> HIDE DEF v
  <2>2. Finished(v).status = "done" /\ Ended(v, "failed").status = "failed"
    BY <2>1 DEF Finished, Ended, RunState
  <2>3. StartStage(v, j).pc = "stage" /\ [v EXCEPT !.at = j, !.pc = "gate"].pc = "gate"
    BY <2>1 DEF StartStage, RunState
  <2>4. j > NStages \/ j <= NStages
    BY <1>4, ConstantsAssumption
  <2> QED
    BY <1>3, <2>2, <2>3, <2>4 DEF AtNextAwait, AbortSeen, v
<1> HIDE DEF w
<1> QED
  BY <1>2, <1>3, <1>5, <1>6 DEF w, FirstStep

(* Every other step, but for a cancel, is quiet.                           *)
LEMMA QuietSteps ==
  ASSUME IInv, Next
  PROVE  \/ \E r \in Runs, p \in Pipelines, limit \in Limits, owner \in Roles :
              Submit(r, p, limit, owner)
         \/ \E r \in Runs : Cancel(r)
         \/ \E r \in Runs : \E w : LoopStep(r, w)
         \/ QuietStep
<1>1. \A r \in Runs : run[r].pc = "over" => run'[r] = run[r]
  BY OverUntouched
<1>2. ASSUME NEW q \in Runs, NEW w, run' = [run EXCEPT ![q] = w], w.pc = run[q].pc
      PROVE  \A r \in Runs : run'[r].pc = run[r].pc
  BY <1>2 DEF IInv, TypeOK
<1>3. ASSUME NEW r \in Runs, NEW i \in Stages, NEW e \in Roles, BeginTurn(r, i, e)
      PROVE  QuietStep
  <2>1. TakesTurn(run[r], i, e).pc = run[r].pc
    BY DEF TakesTurn, IInv, TypeOK, RunState
  <2> QED
    BY <1>1, <1>2, <1>3, <2>1 DEF BeginTurn, QuietStep
<1>4. ASSUME NEW t \in turns, TurnStep(t)
      PROVE  QuietStep
  <2>1. t.run \in Runs /\ t.stage \in Stages /\ run[t.run] \in RunState
    BY TurnFacts
  <2>2. ASSUME NEW cost \in Costs, NEW out \in Outcomes
        PROVE  /\ TurnOver(run[t.run], t.stage, cost) \in RunState
               /\ TurnOver(run[t.run], t.stage, cost).pc = run[t.run].pc
    <3>1. TurnOver(run[t.run], t.stage, cost) \in RunState
      BY <2>1, TurnOverType
    <3> QED
      BY <2>1, <3>1 DEF TurnOver, RunState
  <2>3. ASSUME NEW cost \in Costs, NEW out \in Outcomes, NEW e \in Roles
        PROVE  TakesTurn(TurnOver(run[t.run], t.stage, cost), t.stage, e).pc
                 = run[t.run].pc
    BY <2>2 DEF TakesTurn, RunState
  <2>4. ASSUME NEW cost \in Costs, NEW out \in Outcomes, EndTurn(t, cost, out)
        PROVE  QuietStep
    BY <1>1, <1>2, <2>1, <2>2, <2>4 DEF EndTurn, QuietStep
  <2>5. ASSUME NEW cost \in Costs, NEW out \in Outcomes, NEW e \in Roles,
               EndTurnTakeNext(t, cost, out, e)
        PROVE  QuietStep
    BY <1>1, <1>2, <2>1, <2>3, <2>5 DEF EndTurnTakeNext, QuietStep
  <2> QED
    BY <1>4, <2>4, <2>5 DEF TurnStep
<1>5. ASSUME NEW t \in turns, RequestApproval(t) \/ ApprovalDecided(t)
      PROVE  QuietStep
  <2>1. t.run \in Runs /\ run[t.run] \in RunState
    BY TurnFacts
  <2>2. PICK s : run' = [run EXCEPT ![t.run] = [run[t.run] EXCEPT !.status = s]]
    BY <1>5 DEF RequestApproval, ApprovalDecided
  <2>3. [run[t.run] EXCEPT !.status = s].pc = run[t.run].pc
    BY <2>1 DEF RunState
  <2>4. UNCHANGED <<aborted, recorded>>
    BY <1>5 DEF RequestApproval, ApprovalDecided
  <2> QED
    BY <1>1, <1>2, <2>1, <2>2, <2>3, <2>4 DEF QuietStep
<1>6. CASE \/ \E r \in Runs : WhenSettled(r)
           \/ UpdateSettings
           \/ \E t \in turns : RunToolUnasked(t)
  BY <1>1, <1>6 DEF WhenSettled, UpdateSettings, RunToolUnasked, QuietStep
<1> QED
  BY <1>3, <1>4, <1>5, <1>6, DecideSpendLoop, StageReturnsLoop DEF Next

(* No step makes a cancelled run end otherwise.                            *)
LEMMA CancelledStays ==
  ASSUME IInv, AbortedEndsCancelled, [Next]_vars
  PROVE  AbortedEndsCancelled'
<1>1. ASSUME NEW q \in Runs, NEW w, run' = [run EXCEPT ![q] = w], aborted' = aborted,
             q \in aborted /\ w.pc = "over" => w.status = "cancelled"
      PROVE  AbortedEndsCancelled'
  BY <1>1 DEF AbortedEndsCancelled, IInv, TypeOK
<1>2. ASSUME NEW r \in Runs, NEW p \in Pipelines, NEW limit \in Limits,
             NEW owner \in Roles, Submit(r, p, limit, owner)
      PROVE  AbortedEndsCancelled'
  <2>1. PICK w : FirstStep(r, w)
    BY <1>2, SubmitMaps
  <2> QED
    BY <1>1, <2>1 DEF FirstStep
<1>3. ASSUME NEW r \in Runs, Cancel(r)
      PROVE  AbortedEndsCancelled'
  <2>1. run[r].pc # "over" /\ run' = run /\ aborted' = aborted \cup {r}
    BY <1>3 DEF Cancel, IInv, NothingHeldForSettledRuns, Active
  <2> QED
    BY <2>1 DEF AbortedEndsCancelled
<1>4. ASSUME NEW r \in Runs, NEW w, LoopStep(r, w)
      PROVE  AbortedEndsCancelled'
  BY <1>1, <1>4 DEF LoopStep, Reaches, Continues
<1>5. CASE QuietStep
  BY <1>5 DEF AbortedEndsCancelled, QuietStep, IInv, TypeOK
<1>6. CASE UNCHANGED vars
  BY <1>6 DEF AbortedEndsCancelled, vars
<1> QED
  BY <1>2, <1>3, <1>4, <1>5, <1>6, QuietSteps

(* A run that was cancelled never settles as done or failed.               *)
THEOREM CancelledRunsEndCancelled == Spec => []AbortedEndsCancelled
<1>1. Init => AbortedEndsCancelled
  BY DEF Init, AbortedEndsCancelled
<1>2. IInv /\ AbortedEndsCancelled /\ [Next]_vars => AbortedEndsCancelled'
  BY CancelledStays
<1> QED
  BY <1>1, <1>2, Invariant, PTL DEF Spec

-----------------------------------------------------------------------------
(* The refinement, action by action.                                       *)

(* Two records with one place and, once over, one status look the same.    *)
LEMMA QuietMaps ==
  ASSUME QuietStep
  PROVE  UNCHANGED Lifecycle!lifecycle
<1>1. phaseOf' = phaseOf
  BY DEF QuietStep, phaseOf
<1>2. outcomeOf' = outcomeOf
  BY DEF QuietStep, outcomeOf
<1> QED
  BY <1>1, <1>2 DEF QuietStep, Lifecycle!lifecycle

LEMMA SubmitRefines ==
  ASSUME IInv, NEW r \in Runs, NEW p \in Pipelines, NEW limit \in Limits,
         NEW owner \in Roles, Submit(r, p, limit, owner)
  PROVE  Lifecycle!Next
<1>0. PICK w : FirstStep(r, w)
  BY SubmitMaps
<1>1. /\ run[r].pc = "none"
      /\ run' = [run EXCEPT ![r] = w]
      /\ w.pc \in {"stage", "gate", "over"}
      /\ w.pc = "over" => w.status \in {"done", "failed"}
      /\ UNCHANGED <<aborted, recorded>>
  BY <1>0 DEF FirstStep
<1>2. \A q \in Runs : run'[q] = IF q = r THEN w ELSE run[q]
  BY <1>1 DEF IInv, TypeOK
<1>3. phaseOf[r] = "new"
  BY <1>1 DEF phaseOf
<1>4. CASE w.pc = "over"
  <2>1. phaseOf' = [phaseOf EXCEPT ![r] = "settled"]
    BY <1>2, <1>4 DEF phaseOf
  <2>2. outcomeOf' = [outcomeOf EXCEPT ![r] = w.status]
    BY <1>2, <1>4 DEF outcomeOf
  <2>3. Lifecycle!Refuse(r, w.status)
    BY <1>1, <1>3, <2>1, <2>2 DEF Lifecycle!Refuse
  <2> QED
    BY <1>1, <1>4, <2>3 DEF Lifecycle!Next
<1>5. CASE w.pc # "over"
  <2>1. phaseOf' = [phaseOf EXCEPT ![r] = "active"]
    BY <1>1, <1>2, <1>5 DEF phaseOf
  <2>2. outcomeOf' = outcomeOf
    BY <1>1, <1>2, <1>5 DEF outcomeOf
  <2>3. Lifecycle!Submit(r)
    BY <1>1, <1>3, <2>1, <2>2 DEF Lifecycle!Submit
  <2> QED
    BY <2>3 DEF Lifecycle!Next
<1> QED
  BY <1>4, <1>5

LEMMA LoopStepRefines ==
  ASSUME IInv, TypeOK', NEW r \in Runs, NEW w, LoopStep(r, w)
  PROVE  Lifecycle!Next \/ UNCHANGED Lifecycle!lifecycle
<1>1. /\ run[r].pc \in {"stage", "gate"} /\ aborted' = aborted
      /\ w.pc \in {"stage", "gate", "over"}
      /\ \A q \in Runs : run'[q] = IF q = r THEN w ELSE run[q]
  BY DEF LoopStep, Active, Reaches, Continues, IInv, TypeOK
<1>2. phaseOf[r] = "active"
  BY <1>1 DEF phaseOf
<1>3. CASE w.pc = "over"
  <2>1. phaseOf' = [phaseOf EXCEPT ![r] = "settled"]
    BY <1>1, <1>3 DEF phaseOf
  <2>2. outcomeOf' = [outcomeOf EXCEPT ![r] = w.status]
    BY <1>1, <1>3 DEF outcomeOf
  <2>3. w.status \in Lifecycle!Outcome /\ (r \in aborted => w.status = "cancelled")
    BY <1>3 DEF LoopStep, Continues, Terminal, Lifecycle!Outcome
  <2>4. recorded'[r] \in Nat
    BY DEF TypeOK
  <2>5. recorded' = [recorded EXCEPT ![r] = recorded'[r]]
    <3>1. \E c : recorded' = [recorded EXCEPT ![r] = c]
      BY <1>3 DEF LoopStep, Reaches, Settle
    <3> QED
      BY <3>1 DEF IInv, TypeOK
  <2>6. Lifecycle!Settle(r, w.status)
    BY <1>1, <1>2, <2>1, <2>2, <2>3, <2>4, <2>5 DEF Lifecycle!Settle
  <2> QED
    BY <2>3, <2>6 DEF Lifecycle!Next
<1>4. CASE w.pc # "over"
  <2>1. phaseOf' = phaseOf
    BY <1>1, <1>4 DEF phaseOf
  <2>2. outcomeOf' = outcomeOf
    BY <1>1, <1>4 DEF outcomeOf
  <2>3. recorded' = recorded
    BY <1>4 DEF LoopStep, Reaches
  <2> QED
    BY <1>1, <2>1, <2>2, <2>3 DEF Lifecycle!lifecycle
<1> QED
  BY <1>3, <1>4

LEMMA CancelRefines ==
  ASSUME IInv, NEW r \in Runs, Cancel(r)
  PROVE  Lifecycle!Next
<1>1. phaseOf[r] = "active"
  BY DEF Cancel, IInv, NothingHeldForSettledRuns, Active, phaseOf
<1>2. phaseOf' = phaseOf /\ outcomeOf' = outcomeOf
  BY DEF Cancel, phaseOf, outcomeOf
<1>3. Lifecycle!Stop(r)
  BY <1>1, <1>2 DEF Cancel, Lifecycle!Stop
<1> QED
  BY <1>3 DEF Lifecycle!Next

(* The engine implements the lifecycle it promises: every one of its steps *)
(* is a step of RunLifecycle, or one a submitter does not see.             *)
THEOREM EngineKeepsPromise == Spec => KeepsPromise
<1>1. Init => Lifecycle!Init
  BY DEF Init, Unsubmitted, phaseOf, outcomeOf, Lifecycle!Init
<1>2. IInv /\ TypeOK' /\ [Next]_vars => [Lifecycle!Next]_(Lifecycle!lifecycle)
  <2> SUFFICES ASSUME IInv, TypeOK', [Next]_vars
               PROVE  Lifecycle!Next \/ UNCHANGED Lifecycle!lifecycle
    OBVIOUS
  <2>1. CASE UNCHANGED vars
    BY <2>1 DEF vars, phaseOf, outcomeOf, Lifecycle!lifecycle
  <2> QED
    BY <2>1, QuietSteps, QuietMaps, SubmitRefines, LoopStepRefines, CancelRefines
<1> QED
  BY <1>1, <1>2, TypeCorrect, Invariant, PTL DEF Spec, KeepsPromise, Lifecycle!Spec
=============================================================================
