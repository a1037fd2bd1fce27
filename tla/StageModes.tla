----------------------------- MODULE StageModes -----------------------------
(***************************************************************************)
(* One stage of a run, as apps/server/src/engine/stages.ts carries it out: *)
(* who takes a turn, when, and what the stage returns. RunEngine.tla       *)
(* leaves that open; TurnsAsTheEngineAssumes is what it relies on.         *)
(*                                                                         *)
(* Every mode is a sequence of batches. The people of a batch stand in a   *)
(* queue and are pulled from it as lanes come free. The thread is only     *)
(* given up while turns are in flight and nobody more can be pulled.       *)
(***************************************************************************)
EXTENDS Naturals, Sequences, FiniteSets

CONSTANTS
  Roles,      \* the employees
  StageSpecs, \* the stages an engine may be given, with their roles resolved
  Writers,    \* who may have written files before this stage, in order
  Cap,        \* Role.maxTurnsPerStage of each employee
  Width       \* config.maxConcurrency

(* "rounds" is also the maxIterations of a review loop.                    *)
StageSpec == [mode : {"single", "parallel", "debate", "review-loop"},
              roles : Seq(Roles), rounds : Nat \ {0}]

(* resolveRoles of the writers, without those who sit in the stage.        *)
AuthorsOf(s, writers) ==
  SelectSeq(writers, LAMBDA e : e \notin {s.roles[k] : k \in DOMAIN s.roles})

NobodyTwice(who) == \A i, j \in DOMAIN who : who[i] = who[j] => i = j

(* A writer is recorded once (stages.ts:229); that no stage lists a role   *)
(* twice is left to whoever writes its pipeline.                           *)
ASSUME StageAssumption ==
  /\ StageSpecs \subseteq StageSpec
  /\ \A s \in StageSpecs :
       /\ NobodyTwice(s.roles)
       /\ \A writers \in Writers : /\ AuthorsOf(s, writers) \in Seq(Roles)
                                  /\ NobodyTwice(AuthorsOf(s, writers))
  /\ Writers \subseteq Seq(Roles)
  /\ Cap \in [Roles -> Nat]
  /\ Width \in Nat \ {0}

VARIABLES
  stage,      \* the stage being executed
  producers,  \* knowledge.producers, those who wrote the files under review
  phase,      \* what the current batch is for
  round,      \* the round of a debate, the iteration of a review loop
  queue,      \* those of the batch that have not been pulled yet
  working,    \* those whose turn is in flight
  taken,      \* TurnBudget: the turns each role has taken in this stage
  turnIds,    \* the turns that are over, as the stage lists them
  verdict,    \* what verdictText says
  unresolved, \* the flag of that name
  aborted,    \* the run's signal
  broke,      \* the run's budget is exhausted
  refused,    \* those mayTakeTurn has turned away
  summary     \* what the stage hands to the next one

vars == <<stage, producers, phase, round, queue, working, taken, turnIds, verdict,
          unresolved, aborted, broke, refused, summary>>

(* What a chair's text amounts to for reviewApproved and                   *)
(* reviewRaisedObjections: nothing, no objection, or an objection.         *)
Verdict == {"", "settles", "objects"}

Owner == Head(stage.roles)
Reviewers == Tail(stage.roles)

(* The signal is read again after the spend gate by nobody, so a stage may *)
(* start aborted; it never starts with the budget gone.                    *)
Init ==
  /\ stage \in StageSpecs
  /\ producers \in Writers
  /\ phase = "start"
  /\ round = 0
  /\ queue = <<>>
  /\ working = {}
  /\ taken = [e \in Roles |-> 0]
  /\ turnIds = <<>>
  /\ verdict = ""
  /\ unresolved = FALSE
  /\ aborted \in BOOLEAN
  /\ broke = FALSE
  /\ refused = {}
  /\ summary = ""

-----------------------------------------------------------------------------
(* Operators whose comment begins with "Wrong:" are slips the properties   *)
(* below would catch. Nothing uses them.                                   *)

(* Wrong: the signal is looked at and the budget is not.                   *)
HaltedByAbort == aborted

(* abortReason: the run is cancelled or has no budget left.                *)
Halted == aborted \/ broke

(* Wrong: nobody has a limit.                                              *)
MayAlways(e) == TRUE

MayTakeTurn(e) == taken[e] < Cap[e]

Lanes == IF stage.mode \in {"parallel", "review-loop"} THEN Width ELSE 1

CanPull == queue # <<>> /\ Cardinality(working) < Lanes

(* Everything the stage waits for is in flight: others may act.            *)
Waiting == working # {} /\ ~CanPull

(* Wrong: the batch is taken to be over when all of it has begun.          *)
BatchBegun == queue = <<>>

(* Promise.all of the batch has resolved.                                  *)
BatchOver == queue = <<>> /\ working = {}

(* Did the one person a ruling or a verdict was asked of get to give it?   *)
Given(ph) == \E k \in DOMAIN turnIds : turnIds[k].batch = ph /\ turnIds[k].round = round

Call(ph, n, who) ==
  /\ phase' = ph
  /\ round' = n
  /\ queue' = who
  /\ UNCHANGED <<stage, producers, working, taken, turnIds, aborted, broke, refused, summary>>

(* summarizeTurns has nothing to say of a stage without turns.             *)
Return(what) ==
  /\ phase' = "returned"
  /\ summary' = IF what = "turns" /\ turnIds = <<>> THEN "" ELSE what
  /\ UNCHANGED <<stage, producers, round, queue, working, taken, turnIds, aborted, broke,
                 refused>>

(* A review loop returns its open objection under a marker, else the last  *)
(* verdict, else what its turns said.                                      *)
ReturnReview(open, said) ==
  Return(IF open THEN "unresolved" ELSE IF said # "" THEN "verdict" ELSE "turns")

-----------------------------------------------------------------------------
(* executeStage: a stage without anybody is over, the others call on their *)
(* people. A debate and a review loop that is halted call on nobody.       *)
Start ==
  /\ phase = "start"
  /\ IF stage.roles = <<>>
     THEN Return("")
     ELSE \/ stage.mode = "single" /\ Call("work", 1, <<Owner>>)
          \/ stage.mode = "parallel" /\ Call("work", 1, stage.roles)
          \/ stage.mode = "debate" /\ Call("position", 1, stage.roles)
          \/ stage.mode = "review-loop" /\ IF Halted THEN Return("turns")
                                           ELSE Call("review", 1, Reviewers)
  /\ UNCHANGED <<verdict, unresolved>>

(* Wrong: who is turned away stays at the head of the queue.               *)
PullKeepsHead ==
  LET e == Head(queue)
  IN /\ CanPull
     /\ IF MayTakeTurn(e)
        THEN /\ queue' = Tail(queue)
             /\ working' = working \cup {e}
             /\ taken' = [taken EXCEPT ![e] = @ + 1]
             /\ UNCHANGED refused
        ELSE /\ refused' = refused \cup {e}
             /\ UNCHANGED <<queue, working, taken>>
     /\ UNCHANGED <<stage, producers, phase, round, turnIds, verdict, unresolved, aborted,
                    broke, summary>>

(* A lane pulls its next employee, whose turn begins unless the cap has    *)
(* been reached. Before each speaker a debate looks whether it is halted,  *)
(* and if so nobody else of the round is called.                           *)
Pull ==
  LET e == Head(queue)
  IN /\ CanPull
     /\ IF phase = "position" /\ Halted
        THEN queue' = <<>> /\ UNCHANGED <<working, taken, refused>>
        ELSE /\ queue' = Tail(queue)
             /\ IF MayTakeTurn(e)
                THEN /\ working' = working \cup {e}
                     /\ taken' = [taken EXCEPT ![e] = @ + 1]
                     /\ UNCHANGED refused
                ELSE /\ refused' = refused \cup {e}
                     /\ UNCHANGED <<working, taken>>
     /\ UNCHANGED <<stage, producers, phase, round, turnIds, verdict, unresolved, aborted,
                    broke, summary>>

(* A turn ends: whatever became of it, the stage lists it. It may have     *)
(* spent the rest of the budget. Only a chair's words matter here.         *)
EndTurn(e, said, spentOut) ==
  /\ Waiting
  /\ e \in working
  /\ phase # "verdict" => said = ""
  /\ working' = working \ {e}
  /\ turnIds' = Append(turnIds, [role |-> e, batch |-> phase, round |-> round])
  /\ verdict' = IF phase = "verdict" THEN said ELSE verdict
  /\ broke' = (broke \/ spentOut)
  /\ UNCHANGED <<stage, producers, phase, round, queue, taken, unresolved, aborted, refused,
                 summary>>

(* The operator cancels the run.                                           *)
Abort ==
  /\ Waiting
  /\ ~aborted
  /\ aborted' = TRUE
  /\ UNCHANGED <<stage, producers, phase, round, queue, working, taken, turnIds, verdict,
                 unresolved, broke, refused, summary>>

(* runSingle and runParallel return.                                       *)
WorkOver ==
  /\ phase = "work" /\ BatchOver
  /\ Return(IF stage.mode = "parallel" THEN "turns"
            ELSE IF Given("work") THEN "work" ELSE "")
  /\ UNCHANGED <<verdict, unresolved>>

(* A round of a debate is over: the next one, or the facilitator's ruling  *)
(* unless the debate is halted. The rounds of a halted one are empty.      *)
RoundOver ==
  /\ phase = "position" /\ BatchOver
  /\ IF round < stage.rounds THEN Call("position", round + 1, stage.roles)
     ELSE IF Halted THEN Return("turns")
     ELSE Call("ruling", round, <<Owner>>)
  /\ UNCHANGED <<verdict, unresolved>>

(* A facilitator with no turn left leaves the debate's own transcript.     *)
RulingOver ==
  /\ phase = "ruling" /\ BatchOver
  /\ Return(IF Given("ruling") THEN "ruling" ELSE "turns")
  /\ UNCHANGED <<verdict, unresolved>>

Authors == AuthorsOf(stage, producers)

(* Send it back to the people who wrote the files, if there is a next pass *)
(* and anybody to send it to.                                              *)
SendBack(open, said) ==
  IF Authors = <<>> \/ round = stage.rounds
  THEN ReturnReview(open, said)
  ELSE Call("revision", round, Authors)

(* All reviews are in: the chair reads them, unless the run is cancelled.  *)
ReviewsIn ==
  /\ phase = "review" /\ BatchOver
  /\ IF aborted
     THEN SendBack(unresolved, verdict) /\ UNCHANGED verdict
     ELSE Call("verdict", round, <<Owner>>) /\ verdict' = ""
  /\ UNCHANGED unresolved

(* The chair has ruled, or had no turn left to. An objection goes back to  *)
(* the authors; anything else settles the review.                          *)
VerdictIn ==
  /\ phase = "verdict" /\ BatchOver
  /\ IF ~Given("verdict")
     THEN ReturnReview(unresolved, verdict) /\ UNCHANGED unresolved
     ELSE /\ unresolved' = (verdict = "objects")
          /\ IF verdict = "objects" THEN SendBack(TRUE, verdict)
             ELSE ReturnReview(FALSE, verdict)
  /\ UNCHANGED verdict

(* The revision answers the objection. The next pass begins, unless the    *)
(* run is halted.                                                          *)
RevisionsIn ==
  /\ phase = "revision" /\ BatchOver
  /\ unresolved' = FALSE
  /\ IF Halted THEN ReturnReview(FALSE, verdict)
     ELSE Call("review", round + 1, Reviewers)
  /\ UNCHANGED verdict

Proceed ==
  Start \/ Pull \/ WorkOver \/ RoundOver \/ RulingOver \/ ReviewsIn \/ VerdictIn \/ RevisionsIn

Next ==
  \/ Proceed
  \/ \E e \in Roles, said \in Verdict, spentOut \in BOOLEAN : EndTurn(e, said, spentOut)
  \/ Abort

Spec == Init /\ [][Next]_vars

(* The thread goes on when it can, and every turn ends: its model calls    *)
(* have a deadline and its tool loop a bound.                              *)
TurnEnds(e) == \E said \in Verdict, spentOut \in BOOLEAN : EndTurn(e, said, spentOut)

FairSpec == Spec /\ WF_vars(Proceed) /\ \A e \in Roles : WF_vars(TurnEnds(e))

-----------------------------------------------------------------------------
(* What the engine builds on: turns overlap only in a parallel stage or a  *)
(* review loop and never beyond maxConcurrency, nobody is given more turns *)
(* than their cap however many rounds there are, every turn given is       *)
(* listed, and a stage that has returned has nobody at work.               *)
TurnsAsTheEngineAssumes ==
  /\ Cardinality(working) <= Lanes
  /\ \A e \in Roles :
       /\ taken[e] <= Cap[e]
       /\ taken[e] = Cardinality({k \in DOMAIN turnIds : turnIds[k].role = e})
                     + (IF e \in working THEN 1 ELSE 0)
  /\ phase = "returned" => working = {}

(* Employee e was heard in batch ph of round n before the k-th turn ended, *)
(* or had no turn left.                                                    *)
HeardBefore(k, e, ph, n) ==
  \/ e \in refused
  \/ \E j \in 1 .. (k - 1) : turnIds[j] = [role |-> e, batch |-> ph, round |-> n]

(* Nobody is passed over: a debater speaks after everyone of the earlier   *)
(* rounds and everyone before them in this one, a facilitator rules after  *)
(* all positions, and a chair after every review of the pass.              *)
NobodyIsPassedOver ==
  \A k \in DOMAIN turnIds :
    LET t == turnIds[k]
        seat == {s \in DOMAIN stage.roles : stage.roles[s] = t.role}
    IN /\ t.batch = "position" =>
            \A s \in DOMAIN stage.roles :
              /\ \A n \in 1 .. (t.round - 1) : HeardBefore(k, stage.roles[s], "position", n)
              /\ (\A h \in seat : s < h) => HeardBefore(k, stage.roles[s], "position", t.round)
       /\ t.batch = "ruling" =>
            \A s \in DOMAIN stage.roles, n \in 1 .. stage.rounds :
              HeardBefore(k, stage.roles[s], "position", n)
       /\ t.batch = "verdict" =>
            \A s \in 2 .. Len(stage.roles) : HeardBefore(k, stage.roles[s], "review", t.round)

(* Once a run is halted no position, no ruling and no new review pass      *)
(* begins in it; once it is cancelled, no verdict.                         *)
HaltStopsTheStage ==
  [][(working' \ working # {} \/ (phase' = "review" /\ phase # "review")) =>
       /\ phase' \in {"position", "ruling"} => ~aborted /\ ~broke
       /\ phase' = "review" /\ phase # "review" => ~aborted /\ ~broke
       /\ phase' = "verdict" => ~aborted]_vars

(* Every stage returns.                                                    *)
StageReturns == <>(phase = "returned")

=============================================================================
