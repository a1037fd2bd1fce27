------------------------------ MODULE RunEngine ------------------------------
(***************************************************************************)
(* The run engine of apps/server/src/engine: runs are submitted, walk      *)
(* their pipeline stage by stage, are cancelled, ask the operator for      *)
(* approvals, spend money and settle.                                      *)
(*                                                                         *)
(* The server is one JavaScript thread, so a step of this module is the    *)
(* code between two awaits. What happens inside a stage is left open here: *)
(* turns of the stage begin and end, several at a time where the mode      *)
(* allows it, and the stage returns. StageModes.tla says which turns.      *)
(* Here every write of the store succeeds; RunFaults.tla says what happens *)
(* when one does not.                                                      *)
(***************************************************************************)
EXTENDS Naturals, FiniteSets

CONSTANTS
  Runs,         \* run ids
  Roles,        \* the employees of the one workspace the runs belong to
  NStages,      \* stages in a pipeline
  Pipelines,    \* the pipelines a brief can be submitted to
  Limits,       \* run budgets an operator may set
  Costs,        \* what one turn may cost
  Cap,          \* Role.maxTurnsPerStage, the same for every role
  Width,        \* config.maxConcurrency
  SoftSpend     \* config.softSpendApprovalUsd, 0 switches the gate off

Stages == 1 .. NStages

(* What RunEngine reads of a PipelineStage.  "overlap" is a mode whose     *)
(* turns run through mapWithConcurrency (parallel, review-loop).           *)
StageSpec == [intake : BOOLEAN, tagGated : BOOLEAN, optional : BOOLEAN,
              overlap : BOOLEAN, review : BOOLEAN]

ASSUME ConstantsAssumption ==
  /\ NStages \in Nat \ {0}
  /\ Pipelines \subseteq [Stages -> StageSpec]
  /\ Limits \subseteq Nat
  /\ Costs \subseteq Nat
  /\ Cap \in Nat
  /\ Width \in Nat \ {0}
  /\ SoftSpend \in Nat

VARIABLES
  run,           \* runsById: the record of each run, and where its loop stands
  turns,         \* the turns in flight: [run, stage, role, policy]
  asking,        \* those of them that wait for an approval
  controllers,   \* runs that own an AbortController, the active runs
  aborted,       \* runs whose signal is aborted
  runPolicies,   \* the approval policy pinned for a run, "none" when dropped
  spendApproved, \* runs that have met the soft-spend gate
  settleWaiters, \* runs somebody awaits in whenSettled
  employee,      \* the roster: what each employee is shown to be doing
  autoApprove,   \* the office setting autoApproveShell as it is now
  recorded,      \* what the workspace ledger has been charged for each run
  unasked        \* runs in which a gated tool ran and nobody was asked

vars == <<run, turns, asking, controllers, aborted, runPolicies, spendApproved,
          settleWaiters, employee, autoApprove, recorded, unasked>>

Policy == {"ask", "auto"}
RunStatus == {"none", "running", "awaiting-approval", "done", "failed", "cancelled"}
Terminal == {"done", "failed", "cancelled"}
StageStatus == {"pending", "running", "done", "failed", "skipped"}
EmployeeStatus == {"idle", "thinking", "working", "blocked", "error"}

(* pc: "none" before submit, "stage" while executeStage is awaited, "gate" *)
(* while the spend approval is, "over" when the loop has settled the run.  *)
RunState == [status : RunStatus, pipeline : Pipelines, stages : [Stages -> StageStatus],
             at : 0 .. NStages, pc : {"none", "stage", "gate", "over"},
             limit : Nat, spent : Nat, tagged : BOOLEAN, policy : Policy,
             taken : [Stages -> [Roles -> Nat]],
             spoke : SUBSET Stages]

Turn == [run : Runs, stage : Stages, role : Roles, policy : Policy \cup {"none"}]

Unsubmitted(p) ==
  [status |-> "none", pipeline |-> p, stages |-> [i \in Stages |-> "pending"],
   at |-> 0, pc |-> "none", limit |-> 0, spent |-> 0, tagged |-> FALSE,
   policy |-> "ask", taken |-> [i \in Stages |-> [e \in Roles |-> 0]],
   spoke |-> {}]

Init ==
  /\ \E p \in Pipelines : run = [r \in Runs |-> Unsubmitted(p)]
  /\ turns = {}
  /\ asking = {}
  /\ controllers = {}
  /\ aborted = {}
  /\ runPolicies = [r \in Runs |-> "none"]
  /\ spendApproved = {}
  /\ settleWaiters = {}
  /\ employee = [e \in Roles |-> "idle"]
  /\ autoApprove \in Policy
  /\ recorded = [r \in Runs |-> 0]
  /\ unasked = {}

-----------------------------------------------------------------------------
(* The loop of executeRun, from one await to the next.                     *)

(* Operators whose comment begins with "Wrong:" are slips the properties   *)
(* below would catch. Nothing uses them.                                   *)

AbortSeen(r) == r \in aborted

(* Wrong: a run may spend up to and including its limit.                   *)
OverBudget(u) == u.spent > u.limit

OutOfBudget(u) == u.spent >= u.limit

(* A tag-gated stage is wanted only once intake has produced its tag.      *)
Wanted(u, i) == u.pipeline[i].tagGated => u.tagged

SkipTo(u, i, j) ==
  [u EXCEPT !.stages = [k \in Stages |-> IF k \in i .. (j - 1) THEN "skipped"
                                         ELSE u.stages[k]]]

StartStage(u, j) ==
  [u EXCEPT !.stages[j] = "running", !.at = j, !.pc = "stage"]

(* The run is over with this status; what it leaves of its stages stays.   *)
Ended(u, status) == [u EXCEPT !.status = status, !.pc = "over"]

(* The aborted end: stages that were running or never ran become skipped.  *)
Cancelled(u) ==
  [u EXCEPT !.status = "cancelled", !.pc = "over",
            !.stages = [k \in Stages |-> IF u.stages[k] \in {"running", "pending"}
                                         THEN "skipped" ELSE u.stages[k]]]

(* The end of the loop. A run left awaiting an approval is not made done.  *)
Finished(u) == Ended(u, IF u.status = "running" THEN "done" ELSE u.status)

(* The stage the loop comes to from stage i on, past those nobody wants:   *)
(* one number, NStages + 1 when there is no such stage.                    *)
NextStage(u, i) ==
  {j \in i .. (NStages + 1) : /\ \A k \in i .. (j - 1) : ~Wanted(u, k)
                              /\ j <= NStages => Wanted(u, j)}

(* The record of run r once the loop, entering its body for stage i, has   *)
(* come to stage j: cancelled, done, out of budget, asking, or in stage j. *)
AtNextAwait(r, u, i, j) ==
  LET v == SkipTo(u, i, j)
      asks == SoftSpend > 0 /\ u.spent >= SoftSpend /\ r \notin spendApproved
  IN IF AbortSeen(r) THEN Cancelled(u)
     ELSE IF j > NStages THEN Finished(v)
     ELSE IF OutOfBudget(u) THEN Ended(v, "failed")
     ELSE IF asks THEN [v EXCEPT !.at = j, !.pc = "gate"]
     ELSE StartStage(v, j)

(* Wrong: the failure of a stage is looked at before the signal.           *)
AfterStageFailFirst(r, u, i, j, failed) ==
  LET settled(status) == [u EXCEPT !.stages[i] = status]
  IN IF failed
     THEN IF u.pipeline[i].optional
          THEN AtNextAwait(r, settled("failed"), i + 1, j)
          ELSE Ended(settled("failed"), "failed")
     ELSE AtNextAwait(r, settled("done"), i + 1, j)

(* The record of run r when its stage i is over and the loop goes on to j. *)
(* A cancelled stage is not a finished one, and a stage that failed ends   *)
(* the run unless it is optional.                                          *)
AfterStage(r, u, i, j, failed) ==
  LET settled(status) == [u EXCEPT !.stages[i] = status]
  IN IF AbortSeen(r) THEN Cancelled(settled("skipped"))
     ELSE IF failed /\ ~u.pipeline[i].optional THEN Ended(settled("failed"), "failed")
     ELSE AtNextAwait(r, settled(IF failed THEN "failed" ELSE "done"), i + 1, j)

(* Wrong: the pin of a settled run stays.                                  *)
SettleKeepsPin(r, u) ==
  /\ controllers' = controllers \ {r}
  /\ settleWaiters' = settleWaiters \ {r}
  /\ recorded' = [recorded EXCEPT ![r] = @ + u.spent]
  /\ UNCHANGED runPolicies

(* Wrong: only a run that is done is charged, and nobody is told.          *)
SettleDoneOnly(r, u) ==
  /\ controllers' = controllers \ {r}
  /\ runPolicies' = [runPolicies EXCEPT ![r] = "none"]
  /\ recorded' = [recorded EXCEPT ![r] = IF u.status = "done" THEN @ + u.spent ELSE @]
  /\ UNCHANGED settleWaiters

(* settle: nothing more is held for run r, and whoever awaits it is told.  *)
(* A terminal run.updated charges the workspace with what the run spent.   *)
Settle(r, u) ==
  /\ controllers' = controllers \ {r}
  /\ runPolicies' = [runPolicies EXCEPT ![r] = "none"]
  /\ settleWaiters' = settleWaiters \ {r}
  /\ recorded' = [recorded EXCEPT ![r] = IF u.status \in Terminal THEN @ + u.spent ELSE @]

(* The loop of run r has come to an await, or to its end, with record u.   *)
Reaches(r, u) ==
  /\ run' = [run EXCEPT ![r] = u]
  /\ spendApproved' = IF u.pc = "gate" THEN spendApproved \cup {r} ELSE spendApproved
  /\ IF u.pc = "over"
     THEN Settle(r, u)
     ELSE UNCHANGED <<controllers, runPolicies, settleWaiters, recorded>>

-----------------------------------------------------------------------------
(* The operator.                                                           *)

(* submit runs the loop to its first await before it returns. The policy   *)
(* and the controller are there from before, so they go again if the run   *)
(* is over at once; the first owner has been set thinking all the same.    *)
Submit(r, p, limit, owner) ==
  /\ run[r].pc = "none"
  /\ LET u == [Unsubmitted(p) EXCEPT !.status = "running", !.limit = limit,
                                     !.policy = autoApprove]
     IN \E j \in NextStage(u, 1) :
          LET w == AtNextAwait(r, u, 1, j)
          IN /\ run' = [run EXCEPT ![r] = w]
             /\ IF w.pc = "over"
                THEN UNCHANGED <<controllers, runPolicies>>
                ELSE /\ controllers' = controllers \cup {r}
                     /\ runPolicies' = [runPolicies EXCEPT ![r] = autoApprove]
  /\ employee' = [employee EXCEPT ![owner] = "thinking"]
  /\ UNCHANGED <<turns, asking, aborted, spendApproved, settleWaiters, autoApprove,
                 recorded, unasked>>

(* cancel aborts the signal of an active run and changes nothing else: the *)
(* loop makes the terminal transition.                                     *)
Cancel(r) ==
  /\ r \in controllers
  /\ aborted' = aborted \cup {r}
  /\ UNCHANGED <<run, turns, asking, controllers, runPolicies, spendApproved,
                 settleWaiters, employee, autoApprove, recorded, unasked>>

(* whenSettled answers at once for a terminal run and waits otherwise.     *)
WhenSettled(r) ==
  /\ run[r].pc # "none"
  /\ run[r].status \notin Terminal
  /\ settleWaiters' = settleWaiters \cup {r}
  /\ UNCHANGED <<run, turns, asking, controllers, aborted, runPolicies, spendApproved,
                 employee, autoApprove, recorded, unasked>>

(* The Settings page writes autoApproveShell into the config every turn    *)
(* reads.                                                                  *)
UpdateSettings ==
  /\ autoApprove' \in Policy \ {autoApprove}
  /\ UNCHANGED <<run, turns, asking, controllers, aborted, runPolicies, spendApproved,
                 settleWaiters, employee, recorded, unasked>>

(* Wrong: an operator who declines leaves the run waiting.                 *)
DecideSpendYes(r, ok) ==
  /\ ok
  /\ run[r].pc = "gate"
  /\ Reaches(r, StartStage(run[r], run[r].at))
  /\ UNCHANGED <<turns, asking, aborted, employee, autoApprove, unasked>>

(* The answer at the soft-spend gate. The stage it held back starts with   *)
(* no second look at the signal or at the budget.                          *)
DecideSpend(r, ok) ==
  /\ run[r].pc = "gate"
  /\ Reaches(r, IF ok THEN StartStage(run[r], run[r].at) ELSE Ended(run[r], "cancelled"))
  /\ UNCHANGED <<turns, asking, aborted, employee, autoApprove, unasked>>

-----------------------------------------------------------------------------
(* Turns.                                                                  *)

InFlight(r, i) == {t \in turns : t.run = r /\ t.stage = i}

(* executeStage of stage i is awaited by the loop of run r.                *)
Awaited(r, i) == run[r].pc = "stage" /\ run[r].at = i

(* mayTakeTurn, for a role that is not taking one in this stage already.   *)
MayTakeTurn(r, i, e) ==
  /\ run[r].taken[i][e] < Cap
  /\ \A t \in InFlight(r, i) : t.role # e

(* runOneTurn: the turn runs under the policy pinned for the run now.      *)
NewTurn(r, i, e) == [run |-> r, stage |-> i, role |-> e, policy |-> runPolicies[r]]

TakesTurn(u, i, e) == [u EXCEPT !.taken[i][e] = @ + 1]

(* A stage mode begins a turn of its own accord: at its start, or when it  *)
(* comes to its next speaker or its next batch.                            *)
BeginTurn(r, i, e) ==
  /\ Awaited(r, i)
  /\ MayTakeTurn(r, i, e)
  /\ IF run[r].pipeline[i].overlap
     THEN Cardinality(InFlight(r, i)) < Width
     ELSE InFlight(r, i) = {}
  /\ run' = [run EXCEPT ![r] = TakesTurn(run[r], i, e)]
  /\ turns' = turns \cup {NewTurn(r, i, e)}
  /\ employee' = [employee EXCEPT ![e] = "thinking"]
  /\ UNCHANGED <<asking, controllers, aborted, runPolicies, spendApproved, settleWaiters,
                 autoApprove, recorded, unasked>>

(* The end of runTurn: the cost is charged to the run, the employee is     *)
(* free, the stage lists the turn.                                         *)
Outcomes == {"done", "failed", "cancelled"}

TurnOver(u, i, cost) == [u EXCEPT !.spent = @ + cost, !.spoke = @ \cup {i}]

EndTurn(t, cost, out) ==
  LET r == t.run
      i == t.stage
  IN /\ t \in turns \ asking
     /\ out = "cancelled" => r \in aborted
     /\ run' = [run EXCEPT ![r] = TurnOver(run[r], i, cost)]
     /\ turns' = turns \ {t}
     /\ employee' = [employee EXCEPT ![t.role] = IF out = "failed" THEN "error" ELSE "idle"]
     /\ UNCHANGED <<asking, controllers, aborted, runPolicies, spendApproved, settleWaiters,
                    autoApprove, recorded, unasked>>

(* A worker of mapWithConcurrency takes its next role as soon as its turn  *)
(* is over, and does so whether or not the stage is still awaited.         *)
EndTurnTakeNext(t, cost, out, e) ==
  LET r == t.run
      i == t.stage
  IN /\ t \in turns \ asking
     /\ run[r].pipeline[i].overlap
     /\ out = "cancelled" => r \in aborted
     /\ MayTakeTurn(r, i, e)
     /\ run' = [run EXCEPT ![r] = TakesTurn(TurnOver(run[r], i, cost), i, e)]
     /\ turns' = (turns \ {t}) \cup {NewTurn(r, i, e)}
     /\ employee' = [employee EXCEPT ![t.role] = IF out = "failed" THEN "error" ELSE "idle",
                                     ![e] = "thinking"]
     /\ UNCHANGED <<asking, controllers, aborted, runPolicies, spendApproved, settleWaiters,
                    autoApprove, recorded, unasked>>

(* Wrong: a tool looks at the setting as it is now.                        *)
LivePolicy(t) == autoApprove

(* The autoApproveShell of the tool context: the pin, or without one the   *)
(* setting as it is now.                                                   *)
PolicyOf(t) == IF t.policy = "none" THEN autoApprove ELSE t.policy

(* A gated tool under a policy that asks: the employee is blocked and the  *)
(* run shown as awaiting an approval, whatever its status was.             *)
RequestApproval(t) ==
  /\ t \in turns \ asking
  /\ PolicyOf(t) = "ask"
  /\ asking' = asking \cup {t}
  /\ run' = [run EXCEPT ![t.run] = [run[t.run] EXCEPT !.status = "awaiting-approval"]]
  /\ employee' = [employee EXCEPT ![t.role] = "blocked"]
  /\ UNCHANGED <<turns, controllers, aborted, runPolicies, spendApproved, settleWaiters,
                 autoApprove, recorded, unasked>>

(* resolveApproval, by the operator or by the timer, and the finally of    *)
(* requestApproval.                                                        *)
ApprovalDecided(t) ==
  /\ t \in asking
  /\ asking' = asking \ {t}
  /\ run' = [run EXCEPT ![t.run] =
                [run[t.run] EXCEPT !.status = IF @ = "awaiting-approval" THEN "running" ELSE @]]
  /\ employee' = [employee EXCEPT ![t.role] = "working"]
  /\ UNCHANGED <<turns, controllers, aborted, runPolicies, spendApproved, settleWaiters,
                 autoApprove, recorded, unasked>>

(* A tool runs with nobody asked. Only a gated one is of interest.         *)
RunToolUnasked(t) ==
  /\ t \in turns \ asking
  /\ PolicyOf(t) = "auto"
  /\ unasked' = unasked \cup {t.run}
  /\ employee' = [employee EXCEPT ![t.role] = "working"]
  /\ UNCHANGED <<run, turns, asking, controllers, aborted, runPolicies, spendApproved,
                 settleWaiters, autoApprove, recorded>>

-----------------------------------------------------------------------------
(* The stage returns.                                                      *)

(* Wrong: the first turn to end makes the stage resolve.                   *)
ResolvedByFirst(r, i) == i \in run[r].spoke \/ InFlight(r, i) = {}

(* executeStage resolves once no turn of the stage is in flight.           *)
Resolved(r, i) == InFlight(r, i) = {}

(* The stage is over, with an objection left open or not. Intake that said *)
(* something leaves the tags.                                              *)
StageOver(r, unresolved, tagged) ==
  LET i == run[r].at
  IN /\ run[r].pc = "stage" /\ Resolved(r, i)
     /\ unresolved => run[r].pipeline[i].review
     /\ tagged # run[r].tagged => run[r].pipeline[i].intake /\ i \in run[r].spoke

StageFailed(u, unresolved) == unresolved \/ u.at \notin u.spoke

(* The stage is settled and the loop goes on.                              *)
StageReturns(r, unresolved, tagged) ==
  LET i == run[r].at
      u == [run[r] EXCEPT !.tagged = tagged]
  IN /\ StageOver(r, unresolved, tagged)
     /\ \E j \in NextStage(u, i + 1) :
          Reaches(r, AfterStage(r, u, i, j, StageFailed(u, unresolved)))
     /\ UNCHANGED <<turns, asking, aborted, employee, autoApprove, unasked>>

-----------------------------------------------------------------------------
TurnStep(t) ==
  \/ \E cost \in Costs, out \in Outcomes : EndTurn(t, cost, out)
  \/ \E cost \in Costs, out \in Outcomes, e \in Roles : EndTurnTakeNext(t, cost, out, e)

Next ==
  \/ \E r \in Runs, p \in Pipelines, limit \in Limits, owner \in Roles :
       Submit(r, p, limit, owner)
  \/ \E r \in Runs : Cancel(r)
  \/ \E r \in Runs : WhenSettled(r)
  \/ UpdateSettings
  \/ \E r \in Runs, ok \in BOOLEAN : DecideSpend(r, ok)
  \/ \E r \in Runs, i \in Stages, e \in Roles : BeginTurn(r, i, e)
  \/ \E t \in turns : TurnStep(t)
  \/ \E t \in turns : RequestApproval(t)
  \/ \E t \in turns : ApprovalDecided(t)
  \/ \E t \in turns : RunToolUnasked(t)
  \/ \E r \in Runs, unresolved, tagged \in BOOLEAN : StageReturns(r, unresolved, tagged)

Spec == Init /\ [][Next]_vars

-----------------------------------------------------------------------------
(* Types.                                                                  *)
TypeOK ==
  /\ run \in [Runs -> RunState]
  /\ turns \subseteq Turn
  /\ asking \subseteq turns
  /\ controllers \subseteq Runs
  /\ aborted \subseteq Runs
  /\ runPolicies \in [Runs -> Policy \cup {"none"}]
  /\ spendApproved \subseteq Runs
  /\ settleWaiters \subseteq Runs
  /\ employee \in [Roles -> EmployeeStatus]
  /\ autoApprove \in Policy
  /\ recorded \in [Runs -> Nat]
  /\ unasked \subseteq Runs

Active(r) == run[r].pc \in {"stage", "gate"}

(* The engine holds a controller and a pinned policy for exactly the runs  *)
(* its loop is still executing, and no caller of whenSettled is left       *)
(* behind by a run that has settled (runEngine.ts, settle).                *)
NothingHeldForSettledRuns ==
  \A r \in Runs :
    /\ r \in controllers <=> Active(r)
    /\ runPolicies[r] # "none" <=> Active(r)
    /\ r \in settleWaiters => Active(r)

(* A run that has settled has no employee still working on it, so          *)
(* whenSettled does not report a run finished while turns unwind.          *)
SettledMeansStopped ==
  \A t \in turns : run[t.run].pc # "over"

(* A turn is in flight only in the stage its run's loop is waiting for:    *)
(* no stage is settled, and no later one started, over a working employee. *)
NoOrphanTurns ==
  \A t \in turns : Awaited(t.run, t.stage)

(* cancel only aborts the signal; the loop still owes the run the status   *)
(* cancelled. A run that was cancelled never settles as done or failed.    *)
AbortedEndsCancelled ==
  \A r \in aborted : run[r].pc = "over" => run[r].status = "cancelled"

(* The workspace has been charged, once, with exactly what each settled    *)
(* run spent, and with nothing for a run still executing.                  *)
LedgerExact ==
  \A r \in Runs :
    recorded[r] = IF run[r].status \in Terminal THEN run[r].spent ELSE 0

(* A gated tool ran with nobody asked only in a run that was submitted     *)
(* under that policy, whatever the setting has been changed to since.      *)
PolicyPinned ==
  \A r \in unasked : run[r].policy = "auto"

(* Once a run has settled nothing about it changes: not its status, not    *)
(* its stages, not its spend.                                              *)
SettledIsFinal ==
  [][\A r \in Runs : run[r].pc = "over" => run'[r] = run[r]]_vars

Starts(r, i) == run[r].stages[i] # "running" /\ run'[r].stages[i] = "running"

(* A stage starts only with budget left, and past the soft threshold only  *)
(* after the operator has been asked.                                      *)
StagesStartWithinBudget ==
  [][\A r \in Runs, i \in Stages : Starts(r, i) =>
       /\ run'[r].spent < run'[r].limit
       /\ SoftSpend > 0 /\ run'[r].spent >= SoftSpend => r \in spendApproved]_vars

(* What a submitter sees of a run.                                         *)
phaseOf == [r \in Runs |-> CASE run[r].pc = "none" -> "new"
                             [] run[r].pc = "over" -> "settled"
                             [] OTHER              -> "active"]

outcomeOf == [r \in Runs |-> IF run[r].pc = "over" THEN run[r].status ELSE "none"]

Lifecycle == INSTANCE RunLifecycle
               WITH phase <- phaseOf, outcome <- outcomeOf, stopped <- aborted,
                    charged <- recorded

(* The engine keeps the promise of RunLifecycle.                           *)
KeepsPromise == Lifecycle!Spec

=============================================================================
