------------------------------ MODULE Vendors ------------------------------
(***************************************************************************)
(* One external harness and the turns delegated to it: the registry of     *)
(* vendors/registry.ts, a turn over the Agent Client Protocol              *)
(* (vendors/acp.ts over rpc/stdio.ts) or as a one-shot command             *)
(* (vendors/command.ts), and the probe that asks whether it is there.      *)
(*                                                                         *)
(* A promise's continuation runs before the next event, so an answer and   *)
(* what the turn does with it are one step; what separates two steps is a  *)
(* message of the agent, a timer, the operator or the death of a process.  *)
(***************************************************************************)
EXTENDS Naturals, FiniteSets

CONSTANTS
  Turns,  \* delegations to the vendor
  Askers  \* those of them whose agent asks for a permission

ASSUME VendorsAssumption == Askers \subseteq Turns

VARIABLES
  transport, \* how the vendor's config says it is driven
  status,    \* the vendor's status, as the console sees it
  probing,   \* a probe is running
  stage,     \* where each delegation is
  child,     \* the process of each delegation
  closed,    \* StdioTransport.closed, of an ACP delegation
  aborted,   \* the signal of its run
  timedOut,  \* its own ceiling was reached
  reason,    \* why the process was killed first, or how the turn settled
  spoke,     \* it has produced text
  ask,       \* the permission its agent asked for
  outcome,   \* what the tool was handed
  freed      \* the delegations in hand when somebody else wrote the status

turn == <<stage, child, closed, timedOut, reason, spoke, ask, outcome>>
vars == <<transport, status, probing, turn, aborted, freed>>

(* The requests of an ACP turn, each waiting for its answer.               *)
Asking == {"initialize", "session", "prompt"}
InHand(t) == stage[t] \notin {"absent", "ended"}
Serving(t) == InHand(t) /\ stage[t] # "closing"

Init ==
  /\ transport \in {"acp", "command"}
  /\ status = "unreachable"
  /\ probing = FALSE
  /\ stage = [t \in Turns |-> "absent"]
  /\ child = [t \in Turns |-> "none"]
  /\ closed = [t \in Turns |-> FALSE]
  /\ aborted = [t \in Turns |-> FALSE]
  /\ timedOut = [t \in Turns |-> FALSE]
  /\ reason = [t \in Turns |-> "none"]
  /\ spoke = [t \in Turns |-> FALSE]
  /\ ask = [t \in Turns |-> "none"]
  /\ outcome = [t \in Turns |-> "none"]
  /\ freed = {}

-----------------------------------------------------------------------------
(* The registry.                                                           *)

(* What delegate makes of a result, at once when the turn returns.         *)
StatusAfter(result) == IF result \in {"ok", "aborted"} THEN "docked" ELSE "errored"

Return(t, result) ==
  /\ stage' = [stage EXCEPT ![t] = "ended"]
  /\ outcome' = [outcome EXCEPT ![t] = result]
  /\ status' = StatusAfter(result)
  /\ freed' = freed \cup {u \in Turns \ {t} : InHand(u)}

(* The wire is closed and the process told to go. A wire that was closed   *)
(* before there was a process never looks at it again.                     *)
CloseOnce(t) ==
  /\ closed' = [closed EXCEPT ![t] = TRUE]
  /\ child' = IF ~closed[t] /\ child[t] = "alive"
                THEN [child EXCEPT ![t] = "dying"] ELSE child

(* A vendor in hand is refused. Any other status is tried: only the answer *)
(* says what is true. The signal may have been raised by then: a model     *)
(* asks for several tools, and nobody looks between two of them.           *)
Busy(t) ==
  /\ stage[t] = "absent" /\ status = "engaged"
  /\ stage' = [stage EXCEPT ![t] = "ended"]
  /\ outcome' = [outcome EXCEPT ![t] = "busy"]
  /\ UNCHANGED <<transport, status, probing, child, closed, aborted, timedOut,
                 reason, spoke, ask, freed>>

Engage(t) ==
  /\ stage[t] = "absent"
  /\ status' = "engaged"
  /\ \/ /\ transport = "acp"
        /\ stage' = [stage EXCEPT ![t] = "starting"]
        /\ closed' = [closed EXCEPT ![t] = aborted[t]]
        /\ child' = [child EXCEPT ![t] = "alive"]
        /\ UNCHANGED reason
     \/ /\ transport = "command"
        /\ stage' = [stage EXCEPT ![t] = "running"]
        /\ child' = [child EXCEPT ![t] = IF aborted[t] THEN "dying" ELSE "alive"]
        /\ reason' = [reason EXCEPT ![t] = IF aborted[t] THEN "aborted" ELSE "none"]
        /\ UNCHANGED closed
  /\ UNCHANGED <<transport, probing, aborted, timedOut, spoke, ask, outcome, freed>>

(* Wrong: nobody looks whether the vendor is working already.              *)
EngageAnyway(t) == Engage(t)

Delegate(t) == Busy(t) \/ (status # "engaged" /\ Engage(t))

Probe ==
  /\ ~probing
  /\ probing' = TRUE
  /\ UNCHANGED <<transport, status, turn, aborted, freed>>

(* A probe writes what it saw over whatever the status is by then.         *)
ProbeEnds(seen) ==
  /\ probing
  /\ probing' = FALSE
  /\ status' = seen
  /\ freed' = freed \cup {t \in Turns : InHand(t)}
  /\ UNCHANGED <<transport, turn, aborted>>

-----------------------------------------------------------------------------
(* A turn over ACP.                                                        *)

Cancelled(t) == aborted[t] \/ timedOut[t]

(* Wrong: an answer is an answer, whoever cancelled meanwhile.             *)
OutcomeIfAnswered(t, how) ==
  IF how = "answered" THEN IF spoke[t] THEN "ok" ELSE "failed"
  ELSE IF aborted[t] THEN "aborted"
  ELSE IF timedOut[t] THEN "timeout"
  ELSE "failed"

(* The signal first, then the clock, then the agent's own fault.           *)
OutcomeOf(t, how) ==
  IF aborted[t] THEN "aborted"
  ELSE IF how = "answered" THEN IF spoke[t] THEN "ok" ELSE "failed"
  ELSE IF timedOut[t] THEN "timeout"
  ELSE "failed"

(* Wrong: the turn is settled and the wire left as it is.                  *)
SettleOnly(t, how) ==
  /\ Return(t, OutcomeOf(t, how))
  /\ UNCHANGED <<transport, probing, child, closed, aborted, timedOut, reason,
                 spoke, ask>>

(* The turn is settled and its timer and listener are gone: the wire is    *)
(* closed, and with a process to wait for the result waits for that.       *)
Settle(t, how) ==
  /\ CloseOnce(t)
  /\ IF child'[t] = "dying" /\ ~closed[t]
       THEN /\ stage' = [stage EXCEPT ![t] = "closing"]
            /\ reason' = [reason EXCEPT ![t] = how]
            /\ UNCHANGED <<status, outcome, freed>>
       ELSE /\ Return(t, OutcomeOf(t, how))
            /\ UNCHANGED reason
  /\ UNCHANGED <<transport, probing, aborted, timedOut, spoke, ask>>

(* The process runs: a turn given up meanwhile sends nothing.              *)
Spawned(t) ==
  /\ stage[t] = "starting" /\ child[t] \in {"alive", "dying"}
  /\ \/ /\ Cancelled(t)
        /\ Settle(t, "threw")
     \/ /\ ~Cancelled(t)
        /\ stage' = [stage EXCEPT ![t] = "initialize"]
        /\ UNCHANGED <<transport, status, probing, child, closed, aborted, timedOut,
                       reason, spoke, ask, outcome, freed>>

(* There is no such command, for either transport.                         *)
Unstartable(t) ==
  /\ stage[t] \in {"starting", "running"} /\ ~spoke[t]
  /\ child[t] \in {"alive", "dying"}
  /\ Return(t, "unstartable")
  /\ child' = [child EXCEPT ![t] = "none"]
  /\ UNCHANGED <<transport, probing, closed, aborted, timedOut, reason, spoke, ask>>

(* An answer the turn can go on with. One whose request is no longer       *)
(* pending is dropped, so only the request in flight has a step.           *)
Answer(t) ==
  /\ child[t] = "alive"
  /\ \/ /\ stage[t] \in {"initialize", "session"}
        /\ stage' = [stage EXCEPT ![t] = IF @ = "initialize" THEN "session" ELSE "prompt"]
        /\ UNCHANGED <<transport, status, probing, child, closed, aborted, timedOut,
                       reason, spoke, ask, outcome, freed>>
     \/ /\ stage[t] = "prompt"
        /\ \E how \in {"answered", "refused"} : Settle(t, how)

(* An error, an unusable answer, or none within the request's own time. A  *)
(* prompt is given a second more than the turn and has no such timer.      *)
RequestFails(t) ==
  /\ stage[t] \in Asking /\ child[t] = "alive"
  /\ Settle(t, "threw")

Chunk(t) ==
  /\ stage[t] \in Asking \cup {"running"}
  /\ child[t] = "alive" /\ ~spoke[t]
  /\ spoke' = [spoke EXCEPT ![t] = TRUE]
  /\ UNCHANGED <<transport, status, probing, stage, child, closed, aborted, timedOut,
                 reason, ask, outcome, freed>>

(* The close of the wire is over: the process went, or was told again by   *)
(* SIGKILL after two seconds.                                              *)
Finish(t) ==
  /\ stage[t] = "closing"
  /\ Return(t, OutcomeOf(t, reason[t]))
  /\ UNCHANGED <<transport, probing, child, closed, aborted, timedOut, reason, spoke,
                 ask>>

(* The agent asks whether it may use a tool and a person is asked. Nothing *)
(* here looks whether the turn is still in hand.                           *)
AskPermission(t) ==
  /\ t \in Askers
  /\ transport = "acp" /\ child[t] = "alive" /\ ask[t] = "none"
  /\ stage[t] \notin {"starting", "closing"}
  /\ ask' = [ask EXCEPT ![t] = "waiting"]
  /\ UNCHANGED <<transport, status, probing, stage, child, closed, aborted, timedOut,
                 reason, spoke, outcome, freed>>

(* What the person said goes to the agent, if there is a pipe to it still: *)
(* a closed wire has let go of its process.                                *)
PersonAnswers(t, answer) ==
  /\ ask[t] = "waiting"
  /\ ask' = [ask EXCEPT ![t] = IF child[t] = "alive" THEN answer ELSE "unsent"]
  /\ UNCHANGED <<transport, status, probing, stage, child, closed, aborted, timedOut,
                 reason, spoke, outcome, freed>>

-----------------------------------------------------------------------------
(* The operator, the clock and the process, over either transport.         *)

(* A request in flight is rejected and the turn returns at once, while the *)
(* process is still on its way out; a turn that is starting goes on.       *)
GiveUp(t, why) ==
  /\ CloseOnce(t)
  /\ IF stage[t] = "starting" THEN UNCHANGED <<stage, outcome, status, freed>>
       ELSE Return(t, why)
  /\ UNCHANGED reason

(* A command is killed, and its result waits for its end or the grace.     *)
KillCommand(t, why) ==
  /\ child' = [child EXCEPT ![t] = IF @ = "alive" THEN "dying" ELSE @]
  /\ reason' = [reason EXCEPT ![t] = IF @ = "none" THEN why ELSE @]
  /\ UNCHANGED <<stage, closed, outcome, status, freed>>

Abort(t) ==
  /\ ~aborted[t] /\ stage[t] # "ended"
  /\ aborted' = [aborted EXCEPT ![t] = TRUE]
  /\ \/ stage[t] \in Asking \cup {"starting"} /\ GiveUp(t, "aborted")
     \/ stage[t] = "running" /\ KillCommand(t, "aborted")
     \/ /\ stage[t] \in {"absent", "closing"}
        /\ UNCHANGED <<stage, child, closed, reason, outcome, status, freed>>
  /\ UNCHANGED <<transport, probing, timedOut, spoke, ask>>

TimeOut(t) ==
  /\ ~timedOut[t] /\ Serving(t)
  /\ timedOut' = [timedOut EXCEPT ![t] = TRUE]
  /\ \/ stage[t] \in Asking \cup {"starting"} /\ GiveUp(t, "timeout")
     \/ stage[t] = "running" /\ KillCommand(t, "timeout")
  /\ UNCHANGED <<transport, probing, aborted, spoke, ask>>

(* The process goes, of itself or because it was told to. For a command    *)
(* that is the result; an ACP turn in hand is failed by it.                *)
Exit(t, code) ==
  /\ child[t] \in {"alive", "dying"} /\ stage[t] # "starting"
  /\ child' = [child EXCEPT ![t] = "gone"]
  /\ \/ /\ stage[t] \in Asking
        /\ Return(t, OutcomeOf(t, "threw"))
        /\ closed' = [closed EXCEPT ![t] = TRUE]
     \/ /\ stage[t] = "running"
        /\ Return(t, IF Cancelled(t) \/ code # 0 THEN OutcomeOf(t, "threw")
                     ELSE OutcomeOf(t, "answered"))
        /\ UNCHANGED closed
     \/ /\ stage[t] \in {"closing", "ended"}
        /\ UNCHANGED <<stage, closed, outcome, status, freed>>
  /\ UNCHANGED <<transport, probing, aborted, timedOut, reason, spoke, ask>>

(* Wrong: only the end of the process ends the command.                    *)
NoGrace(t) ==
  /\ stage[t] = "running" /\ reason[t] # "none" /\ child[t] = "gone"
  /\ Return(t, reason[t])
  /\ UNCHANGED <<transport, probing, child, closed, aborted, timedOut, reason, spoke,
                 ask>>

(* Whatever else holds its pipes open, a killed command has ended.         *)
Grace(t) ==
  /\ stage[t] = "running" /\ reason[t] # "none"
  /\ Return(t, reason[t])
  /\ UNCHANGED <<transport, probing, child, closed, aborted, timedOut, reason, spoke,
                 ask>>

Next ==
  \/ Probe
  \/ \E seen \in {"docked", "unreachable"} : ProbeEnds(seen)
  \/ \E t \in Turns :
       \/ Delegate(t) \/ Spawned(t) \/ Unstartable(t) \/ Answer(t) \/ RequestFails(t)
       \/ Chunk(t) \/ Finish(t) \/ AskPermission(t) \/ Abort(t) \/ TimeOut(t) \/ Grace(t)
       \/ \E answer \in {"allow", "refuse"} : PersonAnswers(t, answer)
       \/ \E code \in {0, 1} : Exit(t, code)

(* Timers fire and a child process either runs or does not. Nothing is     *)
(* promised of the agent, the person or the process that was killed.       *)
Fairness ==
  \A t \in Turns :
    /\ WF_vars(Spawned(t) \/ Unstartable(t))
    /\ WF_vars(TimeOut(t))
    /\ WF_vars(Finish(t))
    /\ WF_vars(Grace(t))

Spec == Init /\ [][Next]_vars /\ Fairness

-----------------------------------------------------------------------------
(* registry.ts:267, "Serialised on purpose": of two delegations in hand    *)
(* together, somebody else wrote over the "engaged" of one. With no probe  *)
(* there is nobody to do so first. That exception is the code's; there is  *)
(* no other.                                                               *)
OneAtATime ==
  \A t, u \in Turns : t # u /\ InHand(t) /\ InHand(u) => freed \cap {t, u} # {}

(* acp.ts:214, "Everything that must happen exactly once, however the turn *)
(* ends": no process outlives its delegation without having been killed,   *)
(* so no permission reaches one. The exception is the turn whose signal   *)
(* was raised before it began: its wire was closed before there was a      *)
(* process to let go of.                                                   *)
BornCancelled(t) == transport = "acp" /\ aborted[t] /\ closed[t] /\ child[t] = "alive"
AgentsGoWithTheirTurn ==
  \A t \in Turns : stage[t] = "ended" /\ child[t] = "alive" => BornCancelled(t)

(* What the tool is handed agrees with what happened: an answer is "ok"    *)
(* only if nobody cancelled and the ceiling was not reached, a cancelled   *)
(* turn is never called the vendor's fault, and a timeout was a timeout.   *)
OutcomeTellsWhy ==
  \A t \in Turns :
    /\ outcome[t] = "ok" => ~aborted[t] /\ ~timedOut[t] /\ spoke[t]
    /\ outcome[t] = "timeout" => timedOut[t]
    /\ outcome[t] = "failed" => ~Cancelled(t)

(* registry.ts:304: the vendor is not "engaged" for the life of the        *)
(* process, whatever the agent, the person and the killed process do.      *)
EngagementsEnd == (status = "engaged") ~> (status # "engaged")
=============================================================================
