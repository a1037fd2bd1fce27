----------------------------- MODULE RunFaults -----------------------------
(***************************************************************************)
(* The run engine over a store whose writes may throw: saveRun, saveTurn,  *)
(* saveArtifact, saveApproval and saveOffice (store.ts catches only what   *)
(* appendEvent throws). What RunEngine does is done here too; the actions  *)
(* below are its steps cut short by a write.                               *)
(*                                                                         *)
(* A throw in the loop comes to the catch of launch, which writes in turn. *)
(* One in a turn fails its stage at once, whoever else is working in it.   *)
(* One that records an answer loses it. A run whose loop will never go on  *)
(* nor settle has the pc "lost".                                           *)
(***************************************************************************)
EXTENDS RunEngine

CONSTANT MaxFailures \* writes that throw, in all

ASSUME MaxFailuresAssumption == MaxFailures \in Nat

VARIABLES
  failures, \* how many writes have thrown
  up,       \* FALSE once a throw nobody catches has ended the process
  unheard,  \* turns whose approval was decided without their being told
  torn      \* history: the <<run, stage>> in which a turn threw

faultVars == <<failures, up, unheard, torn>>
allVars == <<vars, faultVars>>

FaultInit ==
  /\ Init
  /\ failures = 0
  /\ up = TRUE
  /\ unheard = {}
  /\ torn = {}

(* RunEngine's step A, every write of it done. A lost answer is not given. *)
Works(A) ==
  /\ up
  /\ A
  /\ unheard \subseteq asking'
  /\ UNCHANGED faultVars

Throws(n) ==
  /\ up
  /\ failures + n <= MaxFailures
  /\ failures' = failures + n

-----------------------------------------------------------------------------
(* The catch of launch. n counts the writes that have thrown with it.      *)

Lost(r) == run[r].pc = "lost"

(* Wrong: the catch says the run failed and leaves it at that.             *)
CaughtUnsettled(r, u, charged, n) ==
  /\ Throws(n)
  /\ run' = [run EXCEPT ![r] = Ended(u, "failed")]
  /\ recorded' = [recorded EXCEPT ![r] = @ + (charged + 1) * u.spent]
  /\ UNCHANGED <<controllers, runPolicies, settleWaiters, up>>

(* The loop threw with record u, charged so many times already. Whatever   *)
(* it was, the run is made failed, charged for it, and settled.            *)
Caught(r, u, charged, n) ==
  /\ Throws(n)
  /\ run' = [run EXCEPT ![r] = Ended(u, "failed")]
  /\ recorded' = [recorded EXCEPT ![r] = @ + (charged + 1) * u.spent]
  /\ controllers' = controllers \ {r}
  /\ runPolicies' = [runPolicies EXCEPT ![r] = "none"]
  /\ settleWaiters' = settleWaiters \ {r}
  /\ UNCHANGED up

(* The catch's own emit throws: settle is not reached, all that is held    *)
(* for the run stays, and the rejection ends the process if its host does. *)
Escapes(r, u, charged, n) ==
  /\ Throws(n + 1)
  /\ run' = [run EXCEPT ![r] = [u EXCEPT !.status = "failed", !.pc = "lost"]]
  /\ \E again \in {0, 1} :
       recorded' = [recorded EXCEPT ![r] = @ + (charged + again) * u.spent]
  /\ controllers' = controllers \cup {r}
  /\ runPolicies' = [runPolicies EXCEPT ![r] = u.policy]
  /\ up' \in BOOLEAN
  /\ UNCHANGED settleWaiters

Crashes(r, u, charged, n) ==
  /\ Caught(r, u, charged, n) \/ Escapes(r, u, charged, n)
  /\ spendApproved' = IF u.pc = "gate" THEN spendApproved \cup {r} ELSE spendApproved

(* A terminal record is charged between the two writes of its emit, so an  *)
(* emit that throws has charged it or not.                                 *)
Charges(u) == IF u.status \in Terminal THEN {0, 1} ELSE {0}

(* A loop on its way to record w threw: where it touched the run first, at *)
(* the request of the gate, or in the emit of its end.                     *)
CutShort(r, touched, w, n) ==
  \/ \E u \in touched : Crashes(r, u, 0, n)
  \/ w.pc = "gate" /\ Crashes(r, w, 0, n)
  \/ w.pc = "over" /\ \E charged \in Charges(w) : Crashes(r, w, charged, n)

-----------------------------------------------------------------------------
(* The loop.                                                               *)

Queued(p, limit) ==
  [Unsubmitted(p) EXCEPT !.status = "queued", !.limit = limit, !.policy = autoApprove]

(* The write of run.created throws at the submitter, and the run that was  *)
(* never launched keeps its controller and its policy.                     *)
SubmitThrows(r, p, limit) ==
  /\ Throws(1)
  /\ run[r].pc = "none"
  /\ run' = [run EXCEPT ![r] = [Queued(p, limit) EXCEPT !.pc = "lost"]]
  /\ controllers' = controllers \cup {r}
  /\ runPolicies' = [runPolicies EXCEPT ![r] = autoApprove]
  /\ UNCHANGED <<turns, asking, aborted, spendApproved, settleWaiters, employee,
                 autoApprove, recorded, unasked, up, unheard, torn>>

(* The run is launched, and a write up to its first await throws.          *)
LaunchThrows(r, p, limit, owner) ==
  /\ run[r].pc = "none"
  /\ LET u == [Queued(p, limit) EXCEPT !.status = "running"]
     IN \E j \in NextStage(u, 1) : CutShort(r, {u}, AtNextAwait(r, u, 1, j), 1)
  /\ employee' = [employee EXCEPT ![owner] = "thinking"]
  /\ UNCHANGED <<turns, asking, aborted, autoApprove, unasked, unheard, torn>>

(* Stage i settled, and the loop going on from there.                      *)
Settled(r, u, i, failed) ==
  {[u EXCEPT !.stages[i] = status] :
     status \in {s \in {"failed", "done"} : /\ ~AbortSeen(r)
                                            /\ failed <=> s = "failed"
                                            /\ failed => u.pipeline[i].optional}}

(* The stage returned, and a write from its artifact on throws.            *)
StageReturnThrows(r, unresolved, tagged) ==
  LET i == run[r].at
      failed == StageFailed(run[r], unresolved)
      u == [run[r] EXCEPT !.tagged = tagged]
      drafted == {v \in {run[r]} : i \in v.spoke}
  IN /\ StageOver(r, unresolved, tagged)
     /\ \E j \in NextStage(u, i + 1) :
          CutShort(r, drafted \cup Settled(r, u, i, failed), AfterStage(r, u, i, j, failed), 1)
     /\ UNCHANGED <<turns, asking, aborted, employee, autoApprove, unasked, unheard, torn>>

(* The emit of a run declined at the gate throws.                          *)
DeclineThrows(r) ==
  /\ run[r].pc = "gate"
  /\ CutShort(r, {}, Ended(run[r], "cancelled"), 1)
  /\ UNCHANGED <<turns, asking, aborted, employee, autoApprove, unasked, unheard, torn>>

(* resolveApproval forgets the approval, then writes, then answers. Where  *)
(* the write throws the operator sees an error and the gate hears nothing; *)
(* in the timer there is nobody to see it.                                 *)
SpendAnswerLost(r) ==
  /\ Throws(1)
  /\ run[r].pc = "gate"
  /\ run' = [run EXCEPT ![r].pc = "lost"]
  /\ up' \in BOOLEAN
  /\ UNCHANGED <<turns, asking, controllers, aborted, runPolicies, spendApproved,
                 settleWaiters, employee, autoApprove, recorded, unasked, unheard, torn>>

-----------------------------------------------------------------------------
(* Turns.                                                                  *)

(* What is charged and shown when a turn throws: nothing of it yet when it *)
(* notes the facts it has read, all of it when the turn is saved.          *)
Thrown(t) == {[cost |-> 0, shown |-> employee[t.role]]}
             \cup [cost : Costs, shown : {"idle", "error"}]

(* The turn rejects, and with it the stage that awaits it; other workers   *)
(* of mapWithConcurrency are not told, and go on.                          *)
TurnThrows(t, out) ==
  LET r == t.run
      i == t.stage
      u == [run[r] EXCEPT !.spent = @ + out.cost]
  IN /\ t \in turns \ asking
     /\ turns' = turns \ {t}
     /\ torn' = torn \cup {<<r, i>>}
     /\ employee' = [employee EXCEPT ![t.role] = out.shown]
     /\ IF Awaited(r, i)
        THEN \E j \in NextStage(u, i + 1) :
               LET w == AfterStage(r, u, i, j, TRUE)
               IN \/ Throws(1) /\ Reaches(r, w) /\ UNCHANGED up
                  \/ CutShort(r, Settled(r, u, i, TRUE), w, 2)
        ELSE /\ Throws(1)
             /\ run' = [run EXCEPT ![r] = u]
             /\ UNCHANGED <<controllers, runPolicies, spendApproved, settleWaiters,
                            recorded, up>>
     /\ UNCHANGED <<asking, aborted, autoApprove, unasked, unheard>>

(* The run was shown as awaiting an approval and that could not be written *)
(* (nobody is asked and it stays so), or the approval could not be. The    *)
(* tool fails and the turn goes on.                                        *)
RequestThrows(t, shown) ==
  /\ Throws(1)
  /\ t \in turns \ asking
  /\ PolicyOf(t) = "ask"
  /\ run' = [run EXCEPT ![t.run].status =
               IF shown = "blocked" THEN "awaiting-approval" ELSE "running"]
  /\ employee' = [employee EXCEPT ![t.role] = shown]
  /\ UNCHANGED <<turns, asking, controllers, aborted, runPolicies, spendApproved,
                 settleWaiters, autoApprove, recorded, unasked, up, unheard, torn>>

(* The answer of resolveApproval is lost as it is at the gate.             *)
AnswerLost(t) ==
  /\ Throws(1)
  /\ t \in asking \ unheard
  /\ unheard' = unheard \cup {t}
  /\ up' \in BOOLEAN
  /\ UNCHANGED <<vars, torn>>

-----------------------------------------------------------------------------
FaultNext ==
  \/ Works(Next)
  \/ \E r \in Runs, p \in Pipelines, limit \in Limits : SubmitThrows(r, p, limit)
  \/ \E r \in Runs, p \in Pipelines, limit \in Limits, owner \in Roles :
       LaunchThrows(r, p, limit, owner)
  \/ \E r \in Runs, unresolved, tagged \in BOOLEAN : StageReturnThrows(r, unresolved, tagged)
  \/ \E r \in Runs : DeclineThrows(r)
  \/ \E r \in Runs : SpendAnswerLost(r)
  \/ \E t \in turns : \E out \in Thrown(t) : TurnThrows(t, out)
  \/ \E t \in turns, shown \in {"blocked", "working"} : RequestThrows(t, shown)
  \/ \E t \in turns : AnswerLost(t)

FaultSpec == FaultInit /\ [][FaultNext]_allVars

(* Fairness, while the process is there: a failing store fails so many     *)
(* times and no more. Every turn ends: its model calls have a deadline and *)
(* its tool loop a bound, so it cannot go on asking for ever (strong       *)
(* fairness). A timer answers every approval. A promise that can resolve   *)
(* does.                                                                   *)
TurnEnds(r, i, e) ==
  \E t \in InFlight(r, i) :
    /\ t.role = e
    /\ \E cost \in Costs, out \in Outcomes :
         EndTurn(t, cost, out) \/ \E next \in Roles : EndTurnTakeNext(t, cost, out, next)

ApprovalTimesOut(r, i, e) == \E t \in InFlight(r, i) : t.role = e /\ ApprovalDecided(t)

Returns(r) == \E unresolved, tagged \in BOOLEAN : StageReturns(r, unresolved, tagged)

Fairness ==
  /\ \A r \in Runs : /\ WF_allVars(Works(DecideSpend(r, FALSE)))
                     /\ WF_allVars(Works(Returns(r)))
  /\ \A r \in Runs, i \in Stages, e \in Roles :
       /\ SF_allVars(Works(TurnEnds(r, i, e)))
       /\ WF_allVars(Works(ApprovalTimesOut(r, i, e)))

FairSpec == FaultSpec /\ Fairness

-----------------------------------------------------------------------------
(* Somebody of run r waits for an answer that was lost.                    *)
Unanswered(r) == \E t \in unheard : t.run = r

(* A turn is in flight only in the stage its run's loop is waiting for,    *)
(* except where a turn of that stage threw while others of it went on      *)
(* (stages.ts, mapWithConcurrency): the crash path of a run abandons       *)
(* nobody by itself, whatever write of it throws.                          *)
OnlyTornStagesAreAbandoned ==
  \A t \in turns :
    \/ Awaited(t.run, t.stage)
    \/ <<t.run, t.stage>> \in torn /\ run[t.run].pipeline[t.stage].overlap

(* A submitted run settles, unless a write threw where nothing is left to  *)
(* carry the run on: as it was announced, in the catch of the crash path,  *)
(* or over an answer of the operator's or the timer's; or unless the       *)
(* process ended (runEngine.ts, launch; runtime.ts, resolveApproval).      *)
EveryRunSettles ==
  \A r \in Runs :
    run[r].pc # "none" ~> run[r].pc = "over" \/ Lost(r) \/ Unanswered(r) \/ ~up

(* Whoever awaits a run that settles hears of it, though it settles in the *)
(* crash path; unless a throw or an abandoned turn left it shown as not    *)
(* ended (runEngine.ts, whenSettled).                                      *)
EveryWaiterHears ==
  \A r \in Runs :
    r \in settleWaiters ~>
      \/ r \notin settleWaiters
      \/ run[r].pc = "over" /\ run[r].status \notin Terminal
      \/ Lost(r) \/ Unanswered(r) \/ ~up

=============================================================================
