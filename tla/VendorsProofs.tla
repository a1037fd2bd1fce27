---------------------------- MODULE VendorsProofs ----------------------------
(* What the registry and the turns keep for any number of delegations:     *)
(* they are serialised, no process outlives its turn unkilled, and what    *)
(* the tool is handed agrees with what happened. The three safety          *)
(* properties of Vendors.tla are consequences of one inductive invariant.  *)
EXTENDS Vendors, TLAPS

Stages == Asking \cup {"absent", "starting", "running", "closing", "ended"}
Reasons == {"none", "answered", "refused", "threw", "aborted", "timeout"}
Outcomes == {"none", "busy", "ok", "failed", "aborted", "timeout", "unstartable"}

TypeOK ==
  /\ transport \in {"acp", "command"}
  /\ status \in {"unreachable", "docked", "errored", "engaged"}
  /\ probing \in BOOLEAN
  /\ stage \in [Turns -> Stages]
  /\ child \in [Turns -> {"none", "alive", "dying", "gone"}]
  /\ closed \in [Turns -> BOOLEAN]
  /\ aborted \in [Turns -> BOOLEAN]
  /\ timedOut \in [Turns -> BOOLEAN]
  /\ reason \in [Turns -> Reasons]
  /\ spoke \in [Turns -> BOOLEAN]
  /\ ask \in [Turns -> {"none", "waiting", "allow", "refuse", "unsent"}]
  /\ outcome \in [Turns -> Outcomes]
  /\ freed \subseteq Turns

(* A delegation in hand holds the status, or somebody took it away.        *)
Held == \A t \in Turns : InHand(t) /\ status # "engaged" => t \in freed

(* The process of a turn at each of its stages: a turn that asks has an    *)
(* open wire, one that is closing or was killed has let go of its process. *)
Process(t) ==
  /\ stage[t] = "absent" => child[t] = "none"
  /\ stage[t] \in Asking \cup {"starting", "closing"} => transport = "acp"
  /\ stage[t] \in Asking => ~closed[t]
  /\ stage[t] = "starting" /\ closed[t] => Cancelled(t)
  /\ stage[t] = "starting" /\ closed[t] /\ child[t] = "alive" => aborted[t]
  /\ stage[t] = "closing" => child[t] # "alive"
  /\ stage[t] = "running" /\ reason[t] # "none" => child[t] # "alive"
  /\ stage[t] = "ended" /\ child[t] = "alive" => BornCancelled(t)

(* What a turn knows at each of its stages of the signal and the clock.    *)
Story(t) ==
  /\ stage[t] \in Asking => ~Cancelled(t)
  /\ stage[t] \in {"absent", "starting"} => reason[t] = "none"
  /\ stage[t] = "running" => reason[t] \in {"none", "aborted", "timeout"}
  /\ stage[t] = "running" /\ reason[t] = "aborted" => aborted[t]
  /\ stage[t] = "running" /\ reason[t] = "timeout" => timedOut[t]
  /\ stage[t] = "closing" => reason[t] \in {"answered", "refused", "threw"}
  /\ stage[t] = "closing" /\ reason[t] = "answered" => ~timedOut[t]
  /\ stage[t] # "ended" => outcome[t] = "none"
  /\ outcome[t] = "ok" => ~aborted[t] /\ ~timedOut[t] /\ spoke[t]
  /\ outcome[t] = "timeout" => timedOut[t]
  /\ outcome[t] = "failed" => ~Cancelled(t)

IInv ==
  /\ TypeOK
  /\ Held
  /\ OneAtATime
  /\ \A t \in Turns : Process(t)
  /\ \A t \in Turns : Story(t)

-----------------------------------------------------------------------------
(* Initially no turn has begun.                                            *)
LEMMA InitHolds == Init => IInv
<1> SUFFICES ASSUME Init PROVE IInv
  OBVIOUS
<1>1. TypeOK
  BY DEF Init, TypeOK, Stages, Reasons, Outcomes
<1>2. \A t \in Turns : stage[t] = "absent" /\ child[t] = "none" /\ reason[t] = "none"
                         /\ outcome[t] = "none"
  BY DEF Init
<1>3. Held /\ OneAtATime
  BY <1>2 DEF Held, OneAtATime, InHand
<1>4. \A t \in Turns : Process(t) /\ Story(t)
  BY <1>2 DEF Process, Story, Asking
<1> QED
  BY <1>1, <1>3, <1>4 DEF IInv

(* Whatever a step does not touch of a turn keeps that turn's story.       *)
Untouched(u) ==
  /\ stage'[u] = stage[u] /\ child'[u] = child[u] /\ closed'[u] = closed[u]
  /\ aborted'[u] = aborted[u] /\ timedOut'[u] = timedOut[u]
  /\ reason'[u] = reason[u] /\ spoke'[u] = spoke[u] /\ outcome'[u] = outcome[u]

LEMMA Rest ==
  ASSUME NEW u \in Turns, Process(u), Story(u), Untouched(u), transport' = transport
  PROVE  Process(u)' /\ Story(u)'
  BY DEF Process, Story, Untouched, BornCancelled, Cancelled, Asking

(* The status and the turns in hand: a step that leaves the status alone   *)
(* brings no turn in hand, and one that writes it says whom it freed.      *)
LEMMA Serial ==
  ASSUME Held, OneAtATime, freed \subseteq freed',
         \A u \in Turns : InHand(u)' =>
           \/ u \in freed'
           \/ status' = "engaged" /\ InHand(u) /\ status = "engaged"
           \/ /\ status' = "engaged"
              /\ \A v \in Turns \ {u} : InHand(v)' => v \in freed'
  PROVE  Held' /\ OneAtATime'
  BY DEF Held, OneAtATime

(* One turn takes a step: it leaves the status to whoever has it, or it    *)
(* writes it and says whom it freed.                                       *)
LEMMA OneTurn ==
  ASSUME IInv, NEW t \in Turns, TypeOK', transport' = transport,
         freed \subseteq freed', Process(t)', Story(t)',
         \A u \in Turns \ {t} : Untouched(u),
         \/ status' = status /\ (InHand(t)' => InHand(t))
         \/ /\ status' = "engaged" \/ ~InHand(t)'
            /\ \A u \in Turns \ {t} : InHand(u) => u \in freed'
  PROVE  IInv'
<1>1. \A u \in Turns \ {t} : InHand(u)' => InHand(u)
  BY DEF Untouched, InHand
<1>2. Held' /\ OneAtATime'
  <2>1. \A u \in Turns : InHand(u)' =>
           \/ u \in freed'
           \/ status' = "engaged" /\ InHand(u) /\ status = "engaged"
           \/ /\ status' = "engaged"
              /\ \A v \in Turns \ {u} : InHand(v)' => v \in freed'
    BY <1>1 DEF IInv, Held
  <2> QED
    BY <2>1, Serial DEF IInv
<1>3. \A u \in Turns : Process(u)' /\ Story(u)'
  BY Rest DEF IInv
<1> QED
  BY <1>2, <1>3 DEF IInv

(* A turn that returns frees the others, and its end is what it must be.   *)
LEMMA Returned ==
  ASSUME TypeOK, NEW t \in Turns, NEW result \in Outcomes, Return(t, result)
  PROVE  /\ stage'[t] = "ended" /\ outcome'[t] = result
         /\ ~InHand(t)'
         /\ freed \subseteq freed'
         /\ \A u \in Turns \ {t} : InHand(u) => u \in freed'
         /\ \A u \in Turns \ {t} : stage'[u] = stage[u] /\ outcome'[u] = outcome[u]
         /\ status' \in {"docked", "errored"}
         /\ stage' \in [Turns -> Stages]
         /\ outcome' \in [Turns -> Outcomes]
         /\ freed' \subseteq Turns
  BY DEF Return, TypeOK, InHand, StatusAfter, Stages, Outcomes

-----------------------------------------------------------------------------
(* The registry's own steps.                                               *)
LEMMA DelegateHolds ==
  ASSUME IInv, NEW t \in Turns, Delegate(t)
  PROVE  IInv'
<1> USE DEF IInv
<1>1. CASE Busy(t)
  <2>1. TypeOK'
    BY <1>1 DEF Busy, TypeOK, Stages, Outcomes
  <2>2. \A u \in Turns \ {t} : Untouched(u)
    BY <1>1 DEF Busy, TypeOK, Untouched
  <2>3. Process(t)' /\ Story(t)'
    BY <1>1 DEF Busy, TypeOK, Process, Story, Asking
  <2> QED
    BY <1>1, <2>1, <2>2, <2>3, OneTurn DEF Busy, InHand, TypeOK
<1>2. CASE status # "engaged" /\ Engage(t)
  <2>1. TypeOK'
    BY <1>2 DEF Engage, TypeOK, Stages, Reasons
  <2>2. \A u \in Turns \ {t} : Untouched(u)
    BY <1>2 DEF Engage, TypeOK, Untouched
  <2>3. Process(t)' /\ Story(t)'
    BY <1>2 DEF Engage, TypeOK, Process, Story, Asking, Cancelled
  <2>4. \A u \in Turns : InHand(u) => u \in freed
    BY <1>2 DEF Held
  <2> QED
    BY <1>2, <2>1, <2>2, <2>3, <2>4, OneTurn DEF Engage
<1> QED
  BY <1>1, <1>2 DEF Delegate

LEMMA ProbeHolds ==
  ASSUME IInv, Probe \/ \E seen \in {"docked", "unreachable"} : ProbeEnds(seen)
  PROVE  IInv'
<1> USE DEF IInv
<1>1. TypeOK' /\ transport' = transport /\ \A u \in Turns : Untouched(u)
  BY DEF Probe, ProbeEnds, TypeOK, turn, Untouched
<1>2. \A u \in Turns : Process(u)' /\ Story(u)'
  BY <1>1, Rest
<1>3. Held' /\ OneAtATime'
  <2>1. freed \subseteq freed' /\ \A u \in Turns : InHand(u)' => InHand(u)
    BY DEF Probe, ProbeEnds, turn, InHand
  <2>2. \A u \in Turns : InHand(u) => u \in freed' \/ (status' = "engaged" /\ status = "engaged")
    BY DEF Probe, ProbeEnds, Held
  <2> QED
    BY <2>1, <2>2, Serial
<1> QED
  BY <1>1, <1>2, <1>3

-----------------------------------------------------------------------------
(* A turn over ACP.                                                        *)
(* However it settles: the process is let go of, and the outcome is what   *)
(* OutcomeOf makes of a turn nobody cancelled, or of one given up before   *)
(* it asked anything.                                                      *)
LEMMA SettleHolds ==
  ASSUME IInv, NEW t \in Turns, NEW how \in {"answered", "refused", "threw"},
         stage[t] \in Asking \cup {"starting"}, how = "answered" => ~timedOut[t],
         Settle(t, how)
  PROVE  IInv'
<1> USE DEF IInv
<1>1. /\ child' \in [Turns -> {"none", "alive", "dying", "gone"}]
      /\ closed' \in [Turns -> BOOLEAN]
      /\ closed'[t] /\ (~closed[t] => child'[t] # "alive")
      /\ closed[t] => child'[t] = child[t]
      /\ \A u \in Turns \ {t} : child'[u] = child[u] /\ closed'[u] = closed[u]
  BY DEF Settle, CloseOnce, TypeOK
<1>2. CASE child'[t] = "dying" /\ ~closed[t]
  <2>1. TypeOK' /\ stage'[t] = "closing" /\ reason'[t] = how
    <3>1. /\ stage' = [stage EXCEPT ![t] = "closing"]
          /\ reason' = [reason EXCEPT ![t] = how]
          /\ UNCHANGED <<status, outcome, freed, transport, probing, aborted, timedOut,
                         spoke, ask>>
      BY <1>2 DEF Settle
    <3> QED
      BY <1>1, <3>1 DEF TypeOK, Stages, Reasons
  <2>2. \A u \in Turns \ {t} : Untouched(u)
    BY <1>1, <1>2 DEF Settle, TypeOK, Untouched
  <2>3. Process(t)' /\ Story(t)'
    BY <1>1, <1>2, <2>1 DEF Settle, Process, Story, Asking, Cancelled
  <2> QED
    BY <1>2, <2>1, <2>2, <2>3, OneTurn DEF Settle, InHand, Asking
<1>3. CASE ~(child'[t] = "dying" /\ ~closed[t])
  <2>1. /\ Return(t, OutcomeOf(t, how)) /\ reason' = reason
        /\ transport' = transport /\ probing' = probing /\ aborted' = aborted
        /\ timedOut' = timedOut /\ spoke' = spoke /\ ask' = ask
    BY <1>3 DEF Settle
  <2>2. OutcomeOf(t, how) \in Outcomes
    BY DEF OutcomeOf, Outcomes
  <2>3. TypeOK'
    <3>1. /\ status' \in {"docked", "errored"} /\ stage' \in [Turns -> Stages]
          /\ outcome' \in [Turns -> Outcomes] /\ freed' \subseteq Turns
      BY <2>1, <2>2, Returned
    <3> QED
      BY <1>1, <2>1, <3>1 DEF TypeOK
  <2>4. \A u \in Turns \ {t} : Untouched(u)
    BY <1>1, <2>1, <2>2, Returned DEF Untouched
  <2>5. Process(t)'
    BY <1>1, <2>1, <2>2, Returned DEF Process, BornCancelled, Asking
  <2>6. Story(t)'
    BY <2>1, <2>2, Returned DEF Story, OutcomeOf, Cancelled, Asking
  <2> QED
    BY <2>1, <2>2, <2>3, <2>4, <2>5, <2>6, Returned, OneTurn
<1> QED
  BY <1>2, <1>3

(* The steps of a turn in hand that leave its stage, its process and the   *)
(* status as they are.                                                     *)
LEMMA QuietHolds ==
  ASSUME IInv, NEW t \in Turns,
         Chunk(t) \/ AskPermission(t) \/ \E answer \in {"allow", "refuse"} : PersonAnswers(t, answer)
  PROVE  IInv'
<1> USE DEF IInv
<1>1. /\ stage' = stage /\ child' = child /\ closed' = closed /\ aborted' = aborted
      /\ timedOut' = timedOut /\ reason' = reason /\ outcome' = outcome
      /\ status' = status /\ freed' = freed /\ transport' = transport
  BY DEF Chunk, AskPermission, PersonAnswers
<1>2. TypeOK'
  BY DEF Chunk, AskPermission, PersonAnswers, TypeOK
<1>3. \A u \in Turns \ {t} : Untouched(u)
  BY <1>1 DEF Chunk, AskPermission, PersonAnswers, TypeOK, Untouched
<1>4. outcome[t] = "ok" => spoke'[t] = spoke[t]
  BY DEF Chunk, AskPermission, PersonAnswers, Story, Asking
<1>5. Process(t)' /\ Story(t)'
  BY <1>1, <1>4 DEF Process, Story, BornCancelled, Cancelled
<1> QED
  BY <1>1, <1>2, <1>3, <1>5, OneTurn DEF InHand

LEMMA SpawnedHolds ==
  ASSUME IInv, NEW t \in Turns, Spawned(t)
  PROVE  IInv'
<1> USE DEF IInv
<1>1. CASE Cancelled(t)
  BY <1>1, SettleHolds DEF Spawned
<1>2. CASE ~Cancelled(t)
  <2>1. TypeOK' /\ stage'[t] = "initialize"
    BY <1>2 DEF Spawned, TypeOK, Stages, Asking
  <2>2. \A u \in Turns \ {t} : Untouched(u)
    BY <1>2 DEF Spawned, TypeOK, Untouched
  <2>3. Process(t)' /\ Story(t)'
    BY <1>2, <2>1 DEF Spawned, Process, Story, Cancelled, Asking
  <2> QED
    BY <1>2, <2>1, <2>2, <2>3, OneTurn DEF Spawned, InHand
<1> QED
  BY <1>1, <1>2

LEMMA AnswerHolds ==
  ASSUME IInv, NEW t \in Turns, Answer(t) \/ RequestFails(t)
  PROVE  IInv'
<1> USE DEF IInv
<1>1. CASE RequestFails(t)
  BY <1>1, SettleHolds DEF RequestFails
<1>2. CASE \E how \in {"answered", "refused"} : stage[t] = "prompt" /\ Settle(t, how)
  <2>1. ~timedOut[t] /\ stage[t] \in Asking
    BY <1>2 DEF Story, Asking, Cancelled
  <2> QED
    BY <1>2, <2>1, SettleHolds
<1>3. CASE /\ stage[t] \in {"initialize", "session"}
           /\ stage' = [stage EXCEPT ![t] = IF @ = "initialize" THEN "session" ELSE "prompt"]
           /\ UNCHANGED <<transport, status, probing, child, closed, aborted, timedOut,
                          reason, spoke, ask, outcome, freed>>
  <2>1. TypeOK' /\ stage'[t] \in {"session", "prompt"}
    BY <1>3 DEF TypeOK, Stages, Asking
  <2>2. \A u \in Turns \ {t} : Untouched(u)
    BY <1>3 DEF TypeOK, Untouched
  <2>3. Process(t)' /\ Story(t)'
    BY <1>3, <2>1 DEF Process, Story, Cancelled, Asking
  <2> QED
    BY <1>3, <2>1, <2>2, <2>3, OneTurn DEF InHand
<1> QED
  BY <1>1, <1>2, <1>3 DEF Answer

-----------------------------------------------------------------------------
(* Returns of either transport.                                            *)
LEMMA ReturnHolds ==
  ASSUME IInv, NEW t \in Turns, NEW result \in Outcomes, Return(t, result),
         transport' = transport, TypeOK',
         /\ child'[t] = "alive" => BornCancelled(t)'
         /\ result = "ok" => ~aborted'[t] /\ ~timedOut'[t] /\ spoke'[t]
         /\ result = "timeout" => timedOut'[t]
         /\ result = "failed" => ~Cancelled(t)',
         \A u \in Turns \ {t} :
           /\ child'[u] = child[u] /\ closed'[u] = closed[u] /\ aborted'[u] = aborted[u]
           /\ timedOut'[u] = timedOut[u] /\ reason'[u] = reason[u] /\ spoke'[u] = spoke[u]
  PROVE  IInv'
<1>1. TypeOK
  BY DEF IInv
<1>2. \A u \in Turns \ {t} : Untouched(u)
  BY <1>1, Returned DEF Untouched
<1>3. Process(t)' /\ Story(t)'
  BY <1>1, Returned DEF Process, Story, Asking
<1> QED
  BY <1>1, <1>2, <1>3, Returned, OneTurn

LEMMA UnstartableHolds ==
  ASSUME IInv, NEW t \in Turns, Unstartable(t)
  PROVE  IInv'
<1> USE DEF IInv
<1>1. Return(t, "unstartable") /\ "unstartable" \in Outcomes /\ transport' = transport
  BY DEF Unstartable, Outcomes
<1>2. TypeOK'
  BY <1>1, Returned DEF Unstartable, TypeOK
<1>3. child'[t] # "alive"
  BY DEF Unstartable, TypeOK
<1> QED
  BY <1>1, <1>2, <1>3, ReturnHolds DEF Unstartable, TypeOK

(* The close of the wire is over, or the grace of a killed command.        *)
LEMMA FinishHolds ==
  ASSUME IInv, NEW t \in Turns, Finish(t)
  PROVE  IInv'
<1> USE DEF IInv
<1> DEFINE result == OutcomeOf(t, reason[t])
<1>1. Return(t, result) /\ result \in Outcomes /\ transport' = transport
  BY DEF Finish, Outcomes, OutcomeOf
<1>2. TypeOK'
  BY <1>1, Returned DEF Finish, TypeOK
<1>3. child'[t] # "alive"
  BY DEF Finish, Process
<1>4. /\ result = "ok" => ~aborted'[t] /\ ~timedOut'[t] /\ spoke'[t]
      /\ result = "timeout" => timedOut'[t]
      /\ result = "failed" => ~Cancelled(t)'
  BY DEF Finish, OutcomeOf, Story, Cancelled
<1> HIDE DEF result
<1> QED
  BY <1>1, <1>2, <1>3, <1>4, ReturnHolds DEF Finish

LEMMA GraceHolds ==
  ASSUME IInv, NEW t \in Turns, Grace(t)
  PROVE  IInv'
<1> USE DEF IInv
<1>1. /\ Return(t, reason[t]) /\ reason[t] \in {"aborted", "timeout"}
      /\ reason[t] \in Outcomes /\ transport' = transport
  BY DEF Grace, Outcomes, Story
<1>2. TypeOK'
  BY <1>1, Returned DEF Grace, TypeOK
<1>3. child'[t] # "alive"
  BY DEF Grace, Process
<1>4. reason[t] = "timeout" => timedOut'[t]
  BY DEF Grace, Story
<1> QED
  BY <1>1, <1>2, <1>3, <1>4, ReturnHolds DEF Grace

-----------------------------------------------------------------------------
(* The operator, the clock and the process.                                *)

(* A wire that is closed and the process with it.                          *)
LEMMA Closed ==
  ASSUME TypeOK, NEW t \in Turns, CloseOnce(t)
  PROVE  /\ child' \in [Turns -> {"none", "alive", "dying", "gone"}]
         /\ closed' \in [Turns -> BOOLEAN] /\ closed'[t]
         /\ ~closed[t] => child'[t] # "alive"
         /\ closed[t] => child'[t] = child[t]
         /\ child[t] \in {"alive", "dying"} => child'[t] \in {"alive", "dying"}
         /\ \A u \in Turns \ {t} : child'[u] = child[u] /\ closed'[u] = closed[u]
  BY DEF CloseOnce, TypeOK

LEMMA AbortHolds ==
  ASSUME IInv, NEW t \in Turns, Abort(t)
  PROVE  IInv'
<1> USE DEF IInv
<1>1. /\ aborted' \in [Turns -> BOOLEAN] /\ aborted'[t]
      /\ \A u \in Turns \ {t} : aborted'[u] = aborted[u]
      /\ transport' = transport /\ probing' = probing /\ timedOut' = timedOut
      /\ spoke' = spoke /\ ask' = ask
      /\ stage[t] # "ended" /\ ~aborted[t]
  BY DEF Abort, TypeOK
<1>2. CASE stage[t] \in Asking /\ GiveUp(t, "aborted")
  <2>1. /\ CloseOnce(t) /\ Return(t, "aborted") /\ reason' = reason
        /\ "aborted" \in Outcomes
    BY <1>2 DEF GiveUp, Asking, Outcomes
  <2>2. TypeOK'
    <3>1. /\ status' \in {"docked", "errored"} /\ stage' \in [Turns -> Stages]
          /\ outcome' \in [Turns -> Outcomes] /\ freed' \subseteq Turns
      BY <2>1, Returned
    <3> QED
      BY <1>1, <2>1, <3>1, Closed DEF TypeOK
  <2>3. child'[t] # "alive"
    BY <1>2, <2>1, Closed DEF Process
  <2> QED
    BY <1>1, <2>1, <2>2, <2>3, Closed, ReturnHolds
<1>3. CASE stage[t] = "starting" /\ GiveUp(t, "aborted")
  <2>1. /\ CloseOnce(t) /\ reason' = reason /\ stage' = stage /\ outcome' = outcome
        /\ status' = status /\ freed' = freed
    BY <1>3 DEF GiveUp
  <2>2. TypeOK'
    BY <1>1, <2>1, Closed DEF TypeOK
  <2>3. \A u \in Turns \ {t} : Untouched(u)
    BY <1>1, <2>1, Closed DEF Untouched
  <2>4. Process(t)' /\ Story(t)'
    BY <1>1, <1>3, <2>1, Closed DEF Process, Story, Cancelled, Asking
  <2> QED
    BY <1>1, <2>1, <2>2, <2>3, <2>4, OneTurn DEF InHand
<1>4. CASE stage[t] = "running" /\ KillCommand(t, "aborted")
  <2>1. TypeOK' /\ status' = status /\ freed' = freed /\ stage' = stage
    BY <1>1, <1>4 DEF KillCommand, TypeOK, Reasons
  <2>2. \A u \in Turns \ {t} : Untouched(u)
    BY <1>1, <1>4 DEF KillCommand, Untouched, TypeOK
  <2>3. child'[t] # "alive" /\ reason'[t] \in {"aborted", reason[t]} /\ reason'[t] # "none"
        /\ outcome' = outcome
    BY <1>4 DEF KillCommand, TypeOK
  <2>4. Process(t)' /\ Story(t)'
    BY <1>1, <1>4, <2>1, <2>3 DEF Process, Story, Cancelled, Asking
  <2> QED
    BY <1>1, <2>1, <2>2, <2>4, OneTurn DEF InHand
<1>5. CASE /\ stage[t] \in {"absent", "closing"}
           /\ UNCHANGED <<stage, child, closed, reason, outcome, status, freed>>
  <2>1. TypeOK' /\ \A u \in Turns \ {t} : Untouched(u)
    BY <1>1, <1>5 DEF TypeOK, Untouched
  <2>2. Process(t)' /\ Story(t)'
    BY <1>1, <1>5 DEF Process, Story, Cancelled, Asking
  <2> QED
    BY <1>1, <1>5, <2>1, <2>2, OneTurn DEF InHand
<1> QED
  BY <1>2, <1>3, <1>4, <1>5 DEF Abort

LEMMA TimeOutHolds ==
  ASSUME IInv, NEW t \in Turns, TimeOut(t)
  PROVE  IInv'
<1> USE DEF IInv
<1>1. /\ timedOut' \in [Turns -> BOOLEAN] /\ timedOut'[t]
      /\ \A u \in Turns \ {t} : timedOut'[u] = timedOut[u]
      /\ transport' = transport /\ probing' = probing /\ aborted' = aborted
      /\ spoke' = spoke /\ ask' = ask
      /\ ~timedOut[t] /\ Serving(t)
  BY DEF TimeOut, TypeOK
<1>2. CASE stage[t] \in Asking /\ GiveUp(t, "timeout")
  <2>1. /\ CloseOnce(t) /\ Return(t, "timeout") /\ reason' = reason
        /\ "timeout" \in Outcomes
    BY <1>2 DEF GiveUp, Asking, Outcomes
  <2>2. TypeOK'
    <3>1. /\ status' \in {"docked", "errored"} /\ stage' \in [Turns -> Stages]
          /\ outcome' \in [Turns -> Outcomes] /\ freed' \subseteq Turns
      BY <2>1, Returned
    <3> QED
      BY <1>1, <2>1, <3>1, Closed DEF TypeOK
  <2>3. child'[t] # "alive"
    BY <1>2, <2>1, Closed DEF Process
  <2> QED
    BY <1>1, <2>1, <2>2, <2>3, Closed, ReturnHolds
<1>3. CASE stage[t] = "starting" /\ GiveUp(t, "timeout")
  <2>1. /\ CloseOnce(t) /\ reason' = reason /\ stage' = stage /\ outcome' = outcome
        /\ status' = status /\ freed' = freed
    BY <1>3 DEF GiveUp
  <2>2. TypeOK'
    BY <1>1, <2>1, Closed DEF TypeOK
  <2>3. \A u \in Turns \ {t} : Untouched(u)
    BY <1>1, <2>1, Closed DEF Untouched
  <2>4. Process(t)' /\ Story(t)'
    BY <1>1, <1>3, <2>1, Closed DEF Process, Story, Cancelled, Asking
  <2> QED
    BY <1>1, <2>1, <2>2, <2>3, <2>4, OneTurn DEF InHand
<1>4. CASE stage[t] = "running" /\ KillCommand(t, "timeout")
  <2>1. TypeOK' /\ status' = status /\ freed' = freed /\ stage' = stage
    BY <1>1, <1>4 DEF KillCommand, TypeOK, Reasons
  <2>2. \A u \in Turns \ {t} : Untouched(u)
    BY <1>1, <1>4 DEF KillCommand, Untouched, TypeOK
  <2>3. child'[t] # "alive" /\ reason'[t] \in {"timeout", reason[t]} /\ reason'[t] # "none"
        /\ outcome' = outcome
    BY <1>4 DEF KillCommand, TypeOK
  <2>4. Process(t)' /\ Story(t)'
    BY <1>1, <1>4, <2>1, <2>3 DEF Process, Story, Cancelled, Asking
  <2> QED
    BY <1>1, <2>1, <2>2, <2>4, OneTurn DEF InHand
<1> QED
  BY <1>2, <1>3, <1>4 DEF TimeOut

LEMMA ExitHolds ==
  ASSUME IInv, NEW t \in Turns, NEW code \in {0, 1}, Exit(t, code)
  PROVE  IInv'
<1> USE DEF IInv
<1>1. /\ child' \in [Turns -> {"none", "alive", "dying", "gone"}] /\ child'[t] = "gone"
      /\ \A u \in Turns \ {t} : child'[u] = child[u]
      /\ transport' = transport /\ probing' = probing /\ aborted' = aborted
      /\ timedOut' = timedOut /\ reason' = reason /\ spoke' = spoke /\ ask' = ask
  BY DEF Exit, TypeOK
<1>2. CASE /\ stage[t] \in Asking
           /\ Return(t, OutcomeOf(t, "threw"))
           /\ closed' = [closed EXCEPT ![t] = TRUE]
  <2>1. OutcomeOf(t, "threw") \in Outcomes
    BY DEF Outcomes, OutcomeOf
  <2>2. TypeOK' /\ \A u \in Turns \ {t} : closed'[u] = closed[u]
    BY <1>1, <1>2, <2>1, Returned DEF TypeOK
  <2>3. /\ OutcomeOf(t, "threw") # "ok"
        /\ OutcomeOf(t, "threw") = "timeout" => timedOut'[t]
        /\ OutcomeOf(t, "threw") = "failed" => ~Cancelled(t)'
    BY <1>1 DEF OutcomeOf, Cancelled
  <2> QED
    BY <1>1, <1>2, <2>1, <2>2, <2>3, ReturnHolds
<1>3. CASE /\ stage[t] = "running" /\ closed' = closed
           /\ Return(t, IF Cancelled(t) \/ code # 0 THEN OutcomeOf(t, "threw")
                        ELSE OutcomeOf(t, "answered"))
  <2> DEFINE result == IF Cancelled(t) \/ code # 0 THEN OutcomeOf(t, "threw")
                       ELSE OutcomeOf(t, "answered")
  <2>1. result \in Outcomes /\ Return(t, result)
    BY <1>3 DEF Outcomes, OutcomeOf
  <2>2. /\ result = "ok" => ~aborted'[t] /\ ~timedOut'[t] /\ spoke'[t]
        /\ result = "timeout" => timedOut'[t]
        /\ result = "failed" => ~Cancelled(t)'
    BY <1>1 DEF OutcomeOf, Cancelled
  <2> HIDE DEF result
  <2>3. TypeOK'
    BY <1>1, <1>3, <2>1, Returned DEF TypeOK
  <2> QED
    BY <1>1, <1>3, <2>1, <2>2, <2>3, ReturnHolds
<1>4. CASE /\ stage[t] \in {"closing", "ended"}
           /\ UNCHANGED <<stage, closed, outcome, status, freed>>
  <2>1. TypeOK' /\ \A u \in Turns \ {t} : Untouched(u)
    BY <1>1, <1>4 DEF TypeOK, Untouched
  <2>2. Process(t)' /\ Story(t)'
    BY <1>1, <1>4 DEF Process, Story, Cancelled, Asking
  <2> QED
    BY <1>1, <1>4, <2>1, <2>2, OneTurn DEF InHand
<1> QED
  BY <1>2, <1>3, <1>4 DEF Exit

-----------------------------------------------------------------------------
LEMMA NextHolds == IInv /\ [Next]_vars => IInv'
<1> SUFFICES ASSUME IInv, [Next]_vars PROVE IInv'
  OBVIOUS
<1>1. CASE UNCHANGED vars
  <2>1. /\ transport' = transport /\ \A t \in Turns : Untouched(t)
        /\ TypeOK' /\ Held' /\ OneAtATime'
    BY <1>1 DEF vars, turn, Untouched, IInv, TypeOK, Held, OneAtATime, InHand
  <2> QED
    BY <2>1, Rest DEF IInv
<1>2. CASE Probe \/ \E seen \in {"docked", "unreachable"} : ProbeEnds(seen)
  BY <1>2, ProbeHolds
<1>3. ASSUME NEW t \in Turns,
             \/ Delegate(t) \/ Spawned(t) \/ Unstartable(t) \/ Answer(t) \/ RequestFails(t)
             \/ Chunk(t) \/ Finish(t) \/ AskPermission(t) \/ Abort(t) \/ TimeOut(t)
             \/ Grace(t)
             \/ \E answer \in {"allow", "refuse"} : PersonAnswers(t, answer)
             \/ \E code \in {0, 1} : Exit(t, code)
      PROVE  IInv'
  BY <1>3, DelegateHolds, SpawnedHolds, UnstartableHolds, AnswerHolds, QuietHolds,
     FinishHolds, AbortHolds, TimeOutHolds, GraceHolds, ExitHolds
<1> QED
  BY <1>1, <1>2, <1>3 DEF Next

(* The invariant holds of every behaviour of the vendor.                   *)
THEOREM Invariant == Spec => []IInv
<1> QED
  BY InitHolds, NextHolds, PTL DEF Spec

(* registry.ts:267: delegations are serialised, save for a probe or a      *)
(* return that wrote the status over.                                      *)
THEOREM DelegationsAreSerialised == Spec => []OneAtATime
<1>1. IInv => OneAtATime
  BY DEF IInv
<1> QED
  BY <1>1, Invariant, PTL

(* acp.ts:214: no process outlives its delegation without having been      *)
(* killed, but for the turn that was cancelled before it began.            *)
THEOREM NoAgentIsLeftBehind == Spec => []AgentsGoWithTheirTurn
<1>1. IInv => AgentsGoWithTheirTurn
  BY DEF IInv, Process, AgentsGoWithTheirTurn
<1> QED
  BY <1>1, Invariant, PTL

(* registry.ts:284: what the tool is handed agrees with what happened.     *)
THEOREM OutcomesAreTrue == Spec => []OutcomeTellsWhy
<1>1. IInv => OutcomeTellsWhy
  BY DEF IInv, Story, OutcomeTellsWhy
<1> QED
  BY <1>1, Invariant, PTL
=============================================================================
