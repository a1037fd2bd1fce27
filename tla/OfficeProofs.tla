---------------------------- MODULE OfficeProofs ----------------------------
(* What is proved of the runtime facade. First of Office: that nobody      *)
(* outside the office process is ahead of its store, that a decision       *)
(* stands, and that the ledgers of the organisations add up, whatever is   *)
(* submitted, decided, created, removed or interrupted by a crash: for any *)
(* number of runs, crashes and organisations.                              *)
(*                                                                         *)
(* Then of OrgFloor: that no two rooms of a floor overlap, for any kits    *)
(* that cut their rooms alike, that newcomers get a desk, and that an      *)
(* installation which keeps its kit finds its floors at a restart as it    *)
(* left them.                                                              *)
EXTENDS Office, OrgFloor, FiniteSetTheorems, SequenceTheorems, WellFoundedInduction,
        TLAPS

AboutApproval(e) == e.type \in {"requested", "decided"}

(* The events the runtime emits about a run.                               *)
RunMatter(e) ==
  /\ e.run \in Runs
  /\ \/ e = RunEvent(e.run, e.rec)
     \/ e = Requested(e.run)
     \/ e = Decided(e.run, e.status) /\ e.status \in Decision

(* The parts of the state the argument is about.                           *)
Shape ==
  /\ at \in {"idle", "commit", "approval", "append", "project", "charge", "broadcast",
             "answer"}
  /\ event \in {NoEvent, OrgUpdated} \/ RunMatter(event)
  /\ \A e \in heard : e = OrgUpdated \/ RunMatter(e)
  /\ disk = [office |-> disk.office, runs |-> disk.runs, approvals |-> disk.approvals,
             events |-> disk.events]
  /\ disk.runs = [r \in Runs |-> disk.runs[r]]
  /\ disk.approvals = [r \in Runs |-> disk.approvals[r]]
  /\ runs = [r \in Runs |-> runs[r]]
  /\ \A r \in Runs : "status" \in DOMAIN runs[r]
  /\ told = [r \in Runs |-> told[r]]

(* Where the running handler stands, its event is written this far.        *)
Written ==
  /\ at \in {"append", "project", "charge", "broadcast", "answer"} => event # NoEvent
  /\ at \in {"project", "charge", "broadcast", "answer"} => event \in disk.events
  /\ at # "idle" /\ event.type = "run" => runs[event.run] = event.rec /\ event.rec # Absent
  /\ at \in {"charge", "broadcast"} /\ event.type = "run" => disk.runs[event.run] = event.rec
  /\ at \in {"append", "project", "broadcast", "answer"} /\ AboutApproval(event) =>
       disk.approvals[event.run] = event.status
  /\ at = "commit" => event \in {NoEvent, OrgUpdated}
  /\ at = "approval" => AboutApproval(event)
  /\ at = "answer" => event.type = "decided" /\ event \in heard
  /\ at = "charge" => event.type = "run"

(* What was heard of a settled run stays the last word on it.              *)
RunsRest ==
  \A e \in heard :
    e.type = "run" /\ e.rec.status \in Terminal =>
      disk.runs[e.run] = e.rec /\ runs[e.run] \in {Absent, e.rec}

(* Somebody waits for an approval only while it is undecided: in the store,*)
(* or about to be there.                                                   *)
Undecided(r) ==
  \/ disk.approvals[r] = "pending"
  \/ at = "approval" /\ event = Requested(r)

Waiting ==
  /\ pending \subseteq Runs
  /\ \A r \in pending : Undecided(r)
  /\ at # "idle" /\ event.type = "decided" => event.run \notin pending
  /\ at = "approval" => disk.approvals[event.run] \notin Decision

(* What was heard of a decision stays the last word on it.                 *)
DecisionsRest ==
  \A e \in heard :
    e.type = "decided" => disk.approvals[e.run] = e.status /\ e.run \notin pending

Answered == \A r \in Runs : told[r] # "none" => Decided(r, told[r]) \in heard

IInv ==
  /\ Shape
  /\ heard \subseteq disk.events
  /\ Written
  /\ RunsRest
  /\ Waiting
  /\ DecisionsRest
  /\ Answered

-----------------------------------------------------------------------------
(* The events apart.                                                       *)
LEMMA EventKinds ==
  /\ NoEvent.type = "none" /\ OrgUpdated.type = "org"
  /\ NoEvent # OrgUpdated
  /\ \A r, rec : RunEvent(r, rec).type = "run" /\ RunEvent(r, rec).run = r
                 /\ RunEvent(r, rec).rec = rec
  /\ \A r : Requested(r).type = "requested" /\ Requested(r).run = r
            /\ Requested(r).status = "pending"
  /\ \A r, s : Decided(r, s).type = "decided" /\ Decided(r, s).run = r
               /\ Decided(r, s).status = s
BY DEF NoEvent, OrgUpdated, RunEvent, Requested, Decided

LEMMA Matters == \A e : RunMatter(e) => e.type \in {"run", "requested", "decided"}
BY EventKinds DEF RunMatter

LEMMA InitInv == Init => IInv
<1> SUFFICES ASSUME Init PROVE IInv
  OBVIOUS
<1>1. Shape
  BY DEF Init, Shape, Absent
<1>2. Written /\ RunsRest /\ Waiting /\ DecisionsRest /\ Answered /\ heard \subseteq disk.events
  BY EventKinds DEF Init, Written, RunsRest, Waiting, DecisionsRest, Answered
<1> QED
  BY <1>1, <1>2 DEF IInv

(* Handlers that are about the books only.                                 *)
LEMMA BookkeepingInv ==
  ASSUME IInv,
         \/ at' = "commit" /\ event' \in {NoEvent, OrgUpdated}
         \/ UNCHANGED <<at, event>>,
         UNCHANGED <<runs, pending, told, disk, heard>>, Idle
  PROVE  IInv'
<1>1. Shape'
  BY DEF IInv, Shape
<1>2. Written'
  BY EventKinds DEF IInv, Written, Shape, AboutApproval, Idle
<1>3. Waiting'
  BY EventKinds DEF IInv, Waiting, Undecided, Shape, Idle
<1>4. RunsRest' /\ DecisionsRest' /\ Answered' /\ (heard \subseteq disk.events)'
  BY DEF IInv, RunsRest, DecisionsRest, Answered
<1> QED
  BY <1>1, <1>2, <1>3, <1>4 DEF IInv

(* run.created and run.updated.                                            *)
LEMMA EmitRunInv ==
  ASSUME IInv, NEW r \in Runs, NEW rec, "status" \in DOMAIN rec, rec # Absent,
         Handle(RunEvent(r, rec), "append"),
         runs' = [runs EXCEPT ![r] = rec],
         UNCHANGED pending,
         disk.runs[r] = Absent \/ runs[r].status = "running"
  PROVE  IInv'
<1> USE DEF Handle, Idle
<1>1. event' = RunEvent(r, rec) /\ at' = "append" /\ at = "idle"
  OBVIOUS
<1>2. event'.type = "run" /\ event'.run = r /\ event'.rec = rec
  BY <1>1, EventKinds
<1>3. Shape'
  <2>1. RunMatter(event)'
    BY <1>1, <1>2 DEF RunMatter
  <2> QED
    BY <1>1, <2>1 DEF IInv, Shape
<1>4. Written'
  BY <1>1, <1>2, EventKinds DEF IInv, Written, Shape, AboutApproval
<1>5. RunsRest'
  <2> SUFFICES ASSUME NEW e \in heard, e.type = "run", e.rec.status \in Terminal
               PROVE  disk.runs[e.run] = e.rec /\ runs'[e.run] \in {Absent, e.rec}
    BY DEF RunsRest
  <2>1. disk.runs[e.run] = e.rec /\ runs[e.run] \in {Absent, e.rec}
    BY DEF IInv, RunsRest
  <2>2. e.run # r
    BY <2>1 DEF Absent, Terminal
  <2>3. e.run \in Runs
    BY EventKinds DEF IInv, Shape, RunMatter
  <2> QED
    BY <2>1, <2>2, <2>3 DEF IInv, Shape
<1>6. Waiting'
  BY <1>1, <1>2, EventKinds DEF IInv, Waiting, Undecided, Shape
<1>7. DecisionsRest' /\ Answered' /\ (heard \subseteq disk.events)'
  BY DEF IInv, DecisionsRest, Answered
<1> QED
  BY <1>3, <1>4, <1>5, <1>6, <1>7 DEF IInv

LEMMA RequestInv == ASSUME IInv, NEW r \in Runs, Request(r) PROVE IInv'
<1> USE DEF Handle, Idle, Request
<1>1. event' = Requested(r) /\ at' = "approval" /\ at = "idle"
  OBVIOUS
<1>2. event'.type = "requested" /\ event'.run = r /\ event'.status = "pending"
  BY <1>1, EventKinds
<1>3. Shape'
  <2>1. RunMatter(event)'
    BY <1>1, <1>2 DEF RunMatter
  <2> QED
    BY <1>1, <2>1 DEF IInv, Shape
<1>4. Written' /\ RunsRest' /\ Answered' /\ (heard \subseteq disk.events)'
  BY <1>1, <1>2 DEF IInv, Written, AboutApproval, RunsRest, Answered
<1>5. Waiting'
  BY <1>1, <1>2 DEF IInv, Waiting, Undecided, Decision
<1>6. DecisionsRest'
  <2> SUFFICES ASSUME NEW e \in heard, e.type = "decided"
               PROVE  disk.approvals[e.run] = e.status /\ e.run \notin pending'
    BY DEF DecisionsRest
  <2>1. disk.approvals[e.run] = e.status /\ e.run \notin pending
    BY DEF IInv, DecisionsRest
  <2>2. e.status \in Decision
    BY EventKinds DEF IInv, Shape, RunMatter
  <2> QED
    BY <2>1, <2>2 DEF Decision
<1> QED
  BY <1>3, <1>4, <1>5, <1>6 DEF IInv

LEMMA ResolveInv ==
  ASSUME IInv, NEW r \in Runs, NEW status \in Decision, ResolveApproval(r, status)
  PROVE  IInv'
<1> USE DEF Handle, Idle, ResolveApproval
<1>1. event' = Decided(r, status) /\ at' = "approval" /\ at = "idle"
  OBVIOUS
<1>2. event'.type = "decided" /\ event'.run = r /\ event'.status = status
  BY <1>1, EventKinds
<1>3. Shape'
  <2>1. RunMatter(event)'
    BY <1>1, <1>2 DEF RunMatter
  <2> QED
    BY <1>1, <2>1 DEF IInv, Shape
<1>4. Written' /\ RunsRest' /\ Answered' /\ (heard \subseteq disk.events)'
  BY <1>1, <1>2 DEF IInv, Written, AboutApproval, RunsRest, Answered
<1>5. Waiting'
  BY <1>1, <1>2 DEF IInv, Waiting, Undecided, Decision
<1>6. DecisionsRest'
  BY DEF IInv, DecisionsRest
<1> QED
  BY <1>3, <1>4, <1>5, <1>6 DEF IInv

-----------------------------------------------------------------------------
(* The writes.                                                             *)

LEMMA CommitInv == ASSUME IInv, CommitOffice PROVE IInv'
<1> USE DEF CommitOffice, Step
<1>1. disk'.runs = disk.runs /\ disk'.approvals = disk.approvals /\ disk'.events = disk.events
  BY DEF IInv, Shape
<1>2. Shape'
  BY <1>1 DEF IInv, Shape, RunMatter
<1>3. Written'
  BY <1>1, EventKinds DEF IInv, Written, AboutApproval
<1>4. RunsRest' /\ DecisionsRest' /\ Answered' /\ (heard \subseteq disk.events)'
  BY <1>1 DEF IInv, RunsRest, DecisionsRest, Answered
<1>5. Waiting'
  BY <1>1 DEF IInv, Waiting, Undecided
<1> QED
  BY <1>2, <1>3, <1>4, <1>5 DEF IInv

LEMMA SaveApprovalInv == ASSUME IInv, SaveApproval PROVE IInv'
<1> USE DEF SaveApproval, Step
<1>1. /\ disk'.runs = disk.runs /\ disk'.events = disk.events
      /\ disk'.approvals = [disk.approvals EXCEPT ![event.run] = event.status]
  BY DEF IInv, Shape
<1>2. RunMatter(event) /\ AboutApproval(event) /\ event.run \in Runs
  BY EventKinds DEF IInv, Shape, Written, RunMatter, AboutApproval
<1>3. disk'.approvals[event.run] = event.status
  BY <1>1, <1>2 DEF IInv, Shape
<1>4. \A r \in Runs \ {event.run} : disk'.approvals[r] = disk.approvals[r]
  BY <1>1 DEF IInv, Shape
<1>5. Shape'
  BY <1>1 DEF IInv, Shape, RunMatter
<1>6. Written'
  BY <1>1, <1>2, <1>3, EventKinds DEF IInv, Written, AboutApproval
<1>7. RunsRest' /\ Answered' /\ (heard \subseteq disk.events)'
  BY <1>1 DEF IInv, RunsRest, Answered
<1>8. DecisionsRest'
  <2> SUFFICES ASSUME NEW e \in heard, e.type = "decided"
               PROVE  disk'.approvals[e.run] = e.status /\ e.run \notin pending
    BY DEF DecisionsRest
  <2>1. disk.approvals[e.run] = e.status /\ e.run \notin pending
    BY DEF IInv, DecisionsRest
  <2>2. e.run \in Runs /\ e.status \in Decision
    BY EventKinds DEF IInv, Shape, RunMatter
  <2>3. e.run # event.run
    BY <2>1, <2>2 DEF IInv, Waiting
  <2> QED
    BY <2>1, <2>2, <2>3, <1>4
<1>9. Waiting'
  <2>1. ASSUME NEW r \in pending PROVE disk'.approvals[r] = "pending"
    <3>1. CASE r = event.run
      <4>1. event.type = "requested"
        BY <1>2, <3>1 DEF IInv, Waiting, AboutApproval
      <4>2. event.status = "pending"
        BY <1>2, <4>1, EventKinds DEF RunMatter
      <4> QED
        BY <3>1, <4>2, <1>3
    <3>2. CASE r # event.run
      BY <3>2, <1>4, EventKinds DEF IInv, Waiting, Undecided
    <3> QED
      BY <3>1, <3>2
  <2> QED
    BY <2>1 DEF IInv, Waiting, Undecided
<1> QED
  BY <1>5, <1>6, <1>7, <1>8, <1>9 DEF IInv

LEMMA AppendInv == ASSUME IInv, AppendEvent PROVE IInv'
<1> USE DEF AppendEvent, Step
<1>1. /\ disk'.runs = disk.runs /\ disk'.approvals = disk.approvals
      /\ disk'.events = disk.events \cup {event}
  BY DEF IInv, Shape
<1>2. Shape'
  BY <1>1 DEF IInv, Shape, RunMatter
<1>3. Written'
  BY <1>1 DEF IInv, Written, AboutApproval
<1>4. RunsRest' /\ DecisionsRest' /\ Answered' /\ (heard \subseteq disk.events)'
  BY <1>1 DEF IInv, RunsRest, DecisionsRest, Answered
<1>5. Waiting'
  BY <1>1 DEF IInv, Waiting, Undecided
<1> QED
  BY <1>2, <1>3, <1>4, <1>5 DEF IInv

LEMMA ProjectRunInv == ASSUME IInv, ProjectRun PROVE IInv'
<1> USE DEF ProjectRun, Step
<1>1. /\ disk'.approvals = disk.approvals /\ disk'.events = disk.events
      /\ disk'.runs = [disk.runs EXCEPT ![event.run] = event.rec]
  BY DEF IInv, Shape
<1>2. event.run \in Runs /\ runs[event.run] = event.rec /\ event.rec # Absent
  BY EventKinds DEF IInv, Shape, Written, RunMatter
<1>3. Shape'
  BY <1>1 DEF IInv, Shape, RunMatter
<1>4. Written'
  BY <1>1, <1>2 DEF IInv, Written, Shape, AboutApproval
<1>5. RunsRest'
  <2> SUFFICES ASSUME NEW e \in heard, e.type = "run", e.rec.status \in Terminal
               PROVE  disk'.runs[e.run] = e.rec /\ runs[e.run] \in {Absent, e.rec}
    BY DEF RunsRest
  <2>1. disk.runs[e.run] = e.rec /\ runs[e.run] \in {Absent, e.rec}
    BY DEF IInv, RunsRest
  <2>2. e.run \in Runs
    BY EventKinds DEF IInv, Shape, RunMatter
  <2>3. CASE e.run # event.run
    BY <2>1, <2>2, <2>3, <1>1 DEF IInv, Shape
  <2>4. CASE e.run = event.run
    <3>1. event.rec \in {Absent, e.rec}
      BY <2>1, <2>4, <1>2
    <3> QED
      BY <3>1, <2>1, <2>2, <2>4, <1>1, <1>2 DEF IInv, Shape
  <2> QED
    BY <2>3, <2>4
<1>6. DecisionsRest' /\ Answered' /\ (heard \subseteq disk.events)'
  BY <1>1 DEF IInv, DecisionsRest, Answered
<1>7. Waiting'
  BY <1>1 DEF IInv, Waiting, Undecided
<1> QED
  BY <1>3, <1>4, <1>5, <1>6, <1>7 DEF IInv

LEMMA PersistChargeInv == ASSUME IInv, PersistCharge PROVE IInv'
<1> USE DEF PersistCharge, Step
<1>1. disk'.runs = disk.runs /\ disk'.approvals = disk.approvals /\ disk'.events = disk.events
  BY DEF IInv, Shape
<1>2. Shape'
  BY <1>1 DEF IInv, Shape, RunMatter
<1>3. Written'
  BY <1>1 DEF IInv, Written, AboutApproval
<1>4. RunsRest' /\ DecisionsRest' /\ Answered' /\ (heard \subseteq disk.events)'
  BY <1>1 DEF IInv, RunsRest, DecisionsRest, Answered
<1>5. Waiting'
  BY <1>1 DEF IInv, Waiting, Undecided
<1> QED
  BY <1>2, <1>3, <1>4, <1>5 DEF IInv

LEMMA ProjectApprovalInv == ASSUME IInv, ProjectApproval PROVE IInv'
<1> USE DEF ProjectApproval, Step
<1>1. disk.approvals[event.run] = event.status /\ event.run \in Runs
  BY EventKinds DEF IInv, Shape, Written, RunMatter, AboutApproval
<1>2. /\ disk'.runs = disk.runs /\ disk'.events = disk.events
      /\ disk'.approvals = disk.approvals
  BY <1>1 DEF IInv, Shape
<1>3. Shape'
  BY <1>2 DEF IInv, Shape, RunMatter
<1>4. Written'
  BY <1>2 DEF IInv, Written, AboutApproval
<1>5. RunsRest' /\ DecisionsRest' /\ Answered' /\ (heard \subseteq disk.events)'
  BY <1>2 DEF IInv, RunsRest, DecisionsRest, Answered
<1>6. Waiting'
  BY <1>2 DEF IInv, Waiting, Undecided
<1> QED
  BY <1>3, <1>4, <1>5, <1>6 DEF IInv

LEMMA ProjectOrgInv == ASSUME IInv, ProjectOrg PROVE IInv'
<1> USE DEF ProjectOrg, Step
<1>1. disk'.runs = disk.runs /\ disk'.approvals = disk.approvals /\ disk'.events = disk.events
  BY DEF IInv, Shape
<1>2. Shape'
  BY <1>1 DEF IInv, Shape, RunMatter
<1>3. Written'
  BY <1>1 DEF IInv, Written, AboutApproval
<1>4. RunsRest' /\ DecisionsRest' /\ Answered' /\ (heard \subseteq disk.events)'
  BY <1>1 DEF IInv, RunsRest, DecisionsRest, Answered
<1>5. Waiting'
  BY <1>1 DEF IInv, Waiting, Undecided
<1> QED
  BY <1>2, <1>3, <1>4, <1>5 DEF IInv

LEMMA BroadcastInv == ASSUME IInv, Broadcast PROVE IInv'
<1> USE DEF Broadcast, Step
<1>1. Shape'
  BY DEF IInv, Shape, Written, RunMatter
<1>2. Written' /\ (heard \subseteq disk.events)'
  BY DEF IInv, Written, AboutApproval
<1>3. RunsRest'
  BY DEF IInv, RunsRest, Written
<1>4. DecisionsRest'
  BY DEF IInv, DecisionsRest, Written, Waiting, AboutApproval
<1>5. Waiting' /\ Answered'
  BY DEF IInv, Waiting, Undecided, Answered
<1> QED
  BY <1>1, <1>2, <1>3, <1>4, <1>5 DEF IInv

LEMMA AnswerInv == ASSUME IInv, Answer PROVE IInv'
<1> USE DEF Answer, Step
<1>1. event \in heard /\ event.run \in Runs /\ event = Decided(event.run, event.status)
  BY EventKinds DEF IInv, Shape, Written, RunMatter
<1>2. Shape'
  BY DEF IInv, Shape, RunMatter
<1>3. Written' /\ RunsRest' /\ DecisionsRest' /\ (heard \subseteq disk.events)'
  BY DEF IInv, Written, RunsRest, DecisionsRest
<1>4. Waiting'
  BY EventKinds DEF IInv, Waiting, Undecided
<1>5. Answered'
  BY <1>1 DEF IInv, Shape, Answered
<1> QED
  BY <1>2, <1>3, <1>4, <1>5 DEF IInv

LEMMA WriteInv == ASSUME IInv, Write PROVE IInv'
BY CommitInv, SaveApprovalInv, AppendInv, ProjectRunInv, PersistChargeInv,
   ProjectApprovalInv, ProjectOrgInv, BroadcastInv, AnswerInv DEF Write

(* Memory goes and the store stays.                                        *)
LEMMA CrashInv == ASSUME IInv, Crash PROVE IInv'
<1> USE DEF Crash
<1>1. Shape'
  BY DEF IInv, Shape, Absent, RunMatter
<1>2. Written' /\ Waiting'
  BY DEF Written, Waiting, AboutApproval
<1>3. RunsRest'
  BY EventKinds DEF IInv, RunsRest, Shape, RunMatter
<1>4. DecisionsRest' /\ Answered' /\ (heard \subseteq disk.events)'
  BY DEF IInv, DecisionsRest, Answered
<1> QED
  BY <1>1, <1>2, <1>3, <1>4 DEF IInv

LEMMA BootInv == ASSUME IInv, Boot PROVE IInv'
BY DEF Boot, IInv, Shape, RunMatter, Written, AboutApproval, RunsRest, Waiting, Undecided,
       DecisionsRest, Answered

-----------------------------------------------------------------------------
LEMMA UpdateRunInv ==
  ASSUME IInv, NEW r \in Runs, NEW status \in {"running", "settled"}, NEW spent,
         runs[r].status = "running", UpdateRun(r, status, spent)
  PROVE  IInv'
<1> DEFINE rec == [runs[r] EXCEPT !.status = status, !.spent = spent]
<1>1. "status" \in DOMAIN rec /\ rec.status = status
  BY DEF IInv, Shape
<1>2. rec # Absent
  BY <1>1 DEF Absent
<1> QED
  BY <1>1, <1>2, EmitRunInv DEF UpdateRun

LEMMA OperateInv == ASSUME IInv, Operate PROVE IInv'
<1>1. ASSUME NEW r \in Runs, NEW w \in DOMAIN office, StartRun(r, w) PROVE IInv'
  <2> DEFINE rec == [ws |-> w, born |-> office[w].born, status |-> "running", spent |-> 0]
  <2>1. "status" \in DOMAIN rec /\ rec # Absent
    BY DEF Absent
  <2> QED
    BY <1>1, <2>1, EmitRunInv DEF StartRun
<1>2. ASSUME NEW r \in Runs, SpendRun(r) \/ SettleRun(r) PROVE IInv'
  BY <1>2, UpdateRunInv DEF SpendRun, SettleRun
<1>3. ASSUME NEW r \in Runs, Request(r) PROVE IInv'
  BY <1>3, RequestInv
<1>4. ASSUME NEW r \in Runs, NEW status \in Decision, ResolveApproval(r, status) PROVE IInv'
  BY <1>4, ResolveInv
<1>5. ASSUME NEW name \in Names, NEW path \in Paths, CreateWorkspace(name, path) PROVE IInv'
  BY <1>5, BookkeepingInv DEF CreateWorkspace, Handle, Idle
<1>6. ASSUME NEW w \in DOMAIN office,
             RemoveWorkspace(w) \/ SetActiveWorkspace(w) \/ \E patch \in {-1, 0} : SetWorkspaceBudget(w, patch)
      PROVE  IInv'
  BY <1>6, BookkeepingInv DEF RemoveWorkspace, SetActiveWorkspace, SetWorkspaceBudget, Handle, Idle
<1> QED
  BY <1>1, <1>2, <1>3, <1>4, <1>5, <1>6 DEF Operate

LEMMA NextInv == ASSUME IInv, [Next]_vars PROVE IInv'
<1>1. CASE Operate
  BY <1>1, OperateInv
<1>2. CASE Write
  BY <1>2, WriteInv
<1>3. CASE Crash
  BY <1>3, CrashInv
<1>4. CASE Boot
  BY <1>4, BootInv
<1>5. CASE UNCHANGED vars
  BY <1>5 DEF vars, memory, IInv, Shape, RunMatter, Written, AboutApproval, RunsRest, Waiting,
              Undecided, DecisionsRest, Answered
<1> QED
  BY <1>1, <1>2, <1>3, <1>4, <1>5 DEF Next

(* The invariant the theorems below follow from.                           *)
THEOREM Invariant == Spec => []IInv
BY InitInv, NextInv, PTL DEF Spec

(* What a console was sent is in the store's log and in the table it is    *)
(* about, and what a tool was answered is what they have, at every moment  *)
(* of every handler and after every crash (runtime.ts emit, 1017-1087).    *)
THEOREM ConsolesAreNeverAhead == Spec => []HeardIsDurable
<1>1. IInv => HeardIsDurable
  BY DEF IInv, RunsRest, DecisionsRest, Answered, HeardIsDurable
<1> QED
  BY <1>1, Invariant, PTL

(* No later write, crash or restart changes a decision, on disk or for the *)
(* tool that was told of it (runtime.ts resolveApproval, 1109-1129).       *)
THEOREM DecisionsAreFinal == Spec => DecisionsStand
<1> DEFINE Stands ==
      \A r \in Runs :
        /\ disk.approvals[r] \in Decision => disk'.approvals[r] = disk.approvals[r]
        /\ told[r] # "none" => told'[r] = told[r]
<1>1. ASSUME IInv, SaveApproval PROVE Stands
  BY <1>1 DEF SaveApproval, Step, IInv, Shape, Waiting
<1>2. ASSUME IInv, ProjectApproval PROVE Stands
  <2>1. disk.approvals[event.run] = event.status
    BY <1>2 DEF ProjectApproval, Step, IInv, Written, AboutApproval
  <2> QED
    BY <1>2, <2>1 DEF ProjectApproval, Step, IInv, Shape
<1>3. ASSUME IInv, Answer PROVE Stands
  <2>1. event.type = "decided" /\ event \in heard
    BY <1>3 DEF Answer, Step, IInv, Written
  <2>2. disk.approvals[event.run] = event.status
    BY <1>3, <2>1 DEF IInv, DecisionsRest
  <2>3. ASSUME NEW r \in Runs, told[r] # "none" PROVE disk.approvals[r] = told[r]
    BY <1>3, <2>3, EventKinds DEF IInv, Answered, DecisionsRest
  <2> QED
    BY <1>3, <2>2, <2>3 DEF Answer, Step, IInv, Shape
<1>4. ASSUME IInv,
             CommitOffice \/ AppendEvent \/ ProjectRun \/ PersistCharge \/ ProjectOrg \/ Broadcast
      PROVE  Stands
  BY <1>4 DEF CommitOffice, AppendEvent, ProjectRun, PersistCharge, ProjectOrg, Broadcast,
              Step, IInv, Shape
<1>5. ASSUME Operate \/ Crash \/ Boot \/ UNCHANGED vars PROVE UNCHANGED <<disk, told>>
  BY <1>5 DEF Operate, StartRun, SpendRun, SettleRun, UpdateRun, Request, ResolveApproval,
              CreateWorkspace, RemoveWorkspace, SetActiveWorkspace, SetWorkspaceBudget,
              Handle, Crash, Boot, vars
<1>6. ASSUME IInv, [Next]_vars PROVE Stands
  BY <1>1, <1>2, <1>3, <1>4, <1>5, <1>6 DEF Next, Write
<1> QED
  BY <1>6, Invariant, PTL DEF Spec, DecisionsStand
-----------------------------------------------------------------------------
(* Sums over a finite set. The library's induction theorem takes a         *)
(* predicate as a parameter; that the subsets of a finite set are well     *)
(* founded does not, so an induction here looks at a least set at which    *)
(* its claim fails.                                                        *)

(* A family of subsets of a finite set has a least one.                    *)
LEMMA LeastSubset ==
  ASSUME NEW S, IsFiniteSet(S), NEW T, T \subseteq SUBSET S, T # {}
  PROVE  \E U \in T : \A V \in SUBSET U : V # U => V \notin T
<1>1. IsWellFoundedOn(StrictSubsetOrdering(S), FiniteSubsetsOf(S))
  BY FS_StrictSubsetOrderingWellFounded
<1>2. T \subseteq FiniteSubsetsOf(S)
  BY FS_FiniteSubsetsOfFinite
<1>3. PICK U \in T : \A V \in T : <<V, U>> \notin StrictSubsetOrdering(S)
  BY <1>1, <1>2, WFMin
<1> QED
  BY <1>3 DEF StrictSubsetOrdering

Pick(s) == CHOOSE x \in s : TRUE
Rest(s) == s \ {Pick(s)}

(* The table a fold fills in.                                              *)
Tallies(it, f, S) ==
  it = [s \in SUBSET S |-> IF s = {} THEN 0 ELSE f[Pick(s)].spent + it[Rest(s)]]

LEMMA TotalIsATally == \A f, S : Total(f, S) = (CHOOSE it : Tallies(it, f, S))[S]
BY DEF Total, MapThenSumSet, MapThenFoldSet, Tallies, Pick, Rest

LEMMA PickIn == \A s : s # {} => Pick(s) \in s
BY DEF Pick

LEMMA TalliesAgree ==
  ASSUME NEW f, NEW S, NEW R, NEW g, NEW h, Tallies(g, f, S), Tallies(h, f, R),
         IsFiniteSet(S), S \subseteq R
  PROVE  \A s \in SUBSET S : g[s] = h[s]
<1> DEFINE T == {s \in SUBSET S : g[s] # h[s]}
<1> SUFFICES ASSUME T # {} PROVE FALSE
  OBVIOUS
<1>0. T \subseteq SUBSET S
  OBVIOUS
<1>1. PICK U \in T : \A V \in SUBSET U : V # U => V \notin T
  <2> HIDE DEF T
  <2> QED BY <1>0, LeastSubset
<1>2. CASE U = {}
  BY <1>2 DEF Tallies
<1>3. CASE U # {}
  <2>1. Rest(U) \in SUBSET U /\ Rest(U) # U
    BY <1>3, PickIn DEF Rest
  <2>2. g[Rest(U)] = h[Rest(U)]
    BY <2>1, <1>1
  <2> QED
    BY <2>2, <1>3 DEF Tallies
<1> QED
  BY <1>2, <1>3

LEMMA TalliesExist ==
  ASSUME NEW f, NEW S, IsFiniteSet(S)
  PROVE  \E it : Tallies(it, f, S)
<1> DEFINE T == {s \in SUBSET S : ~ \E it : Tallies(it, f, s)}
<1> SUFFICES ASSUME T # {} PROVE FALSE
  OBVIOUS
<1>0. T \subseteq SUBSET S
  OBVIOUS
<1>1. PICK U \in T : \A V \in SUBSET U : V # U => V \notin T
  <2> HIDE DEF T
  <2> QED BY <1>0, LeastSubset
<1> DEFINE G(V) == CHOOSE it : Tallies(it, f, V)
<1>2. \A V \in SUBSET U : V # U => Tallies(G(V), f, V)
  BY <1>1
<1> DEFINE it == [s \in SUBSET U |-> IF s = {} THEN 0 ELSE f[Pick(s)].spent + G(Rest(s))[Rest(s)]]
<1>3. ASSUME NEW V \in SUBSET U, V # U PROVE G(V)[V] = it[V]
  <2>1. Tallies(G(V), f, V)
    BY <1>2, <1>3
  <2>2. CASE V = {}
    BY <2>1, <2>2 DEF Tallies
  <2>3. CASE V # {}
    <3>1. Rest(V) \in SUBSET V /\ Rest(V) # U /\ IsFiniteSet(Rest(V))
      BY <2>3, <1>3, FS_Subset DEF Rest
    <3>2. Tallies(G(Rest(V)), f, Rest(V))
      BY <3>1, <1>2
    <3>3. G(Rest(V))[Rest(V)] = G(V)[Rest(V)]
      BY <3>1, <3>2, <2>1, TalliesAgree
    <3>4. G(V)[V] = f[Pick(V)].spent + G(V)[Rest(V)]
      BY <2>1, <2>3 DEF Tallies
    <3>5. it[V] = f[Pick(V)].spent + G(Rest(V))[Rest(V)]
      BY <2>3
    <3> QED
      BY <3>3, <3>4, <3>5
  <2> QED
    BY <2>2, <2>3
<1>4. Tallies(it, f, U)
  <2>1. ASSUME NEW s \in SUBSET U, s # {} PROVE G(Rest(s))[Rest(s)] = it[Rest(s)]
    <3>1. Rest(s) \in SUBSET U /\ Rest(s) # U
      BY <2>1, PickIn DEF Rest
    <3> QED
      BY <3>1, <1>3
  <2>2. it = [s \in SUBSET U |-> IF s = {} THEN 0 ELSE f[Pick(s)].spent + it[Rest(s)]]
    <3>1. \A s \in SUBSET U : it[s] = IF s = {} THEN 0 ELSE f[Pick(s)].spent + G(Rest(s))[Rest(s)]
      OBVIOUS
    <3>2. it = [s \in SUBSET U |-> it[s]]
      OBVIOUS
    <3> HIDE DEF it, G
    <3> QED BY <3>1, <3>2, <2>1
  <2> HIDE DEF it
  <2> QED
    BY <2>2 DEF Tallies
<1> QED
  BY <1>4

(* What the fold gives, one element taken out at a time.                   *)
LEMMA TotalUnfolds ==
  ASSUME NEW f, NEW S, IsFiniteSet(S)
  PROVE  Total(f, S) = IF S = {} THEN 0 ELSE f[Pick(S)].spent + Total(f, Rest(S))
<1> DEFINE it(R) == CHOOSE it : Tallies(it, f, R)
<1>1. Tallies(it(S), f, S)
  BY TalliesExist
<1>2. Rest(S) \in SUBSET S /\ IsFiniteSet(Rest(S))
  BY FS_Subset DEF Rest
<1>3. Tallies(it(Rest(S)), f, Rest(S))
  BY TalliesExist, <1>2
<1>4. it(Rest(S))[Rest(S)] = it(S)[Rest(S)]
  BY <1>1, <1>2, <1>3, TalliesAgree
<1>5. it(S)[S] = IF S = {} THEN 0 ELSE f[Pick(S)].spent + it(S)[Rest(S)]
  BY <1>1 DEF Tallies
<1> QED
  BY <1>4, <1>5, TotalIsATally

(* A total is a number,                                                    *)
LEMMA TotalType ==
  ASSUME NEW f, NEW S, IsFiniteSet(S), \A r \in S : f[r].spent \in Nat
  PROVE  Total(f, S) \in Nat
<1> DEFINE T == {s \in SUBSET S : Total(f, s) \notin Nat}
<1> SUFFICES ASSUME T # {} PROVE FALSE
  OBVIOUS
<1>0. T \subseteq SUBSET S
  OBVIOUS
<1>1. PICK U \in T : \A V \in SUBSET U : V # U => V \notin T
  <2> HIDE DEF T
  <2> QED BY <1>0, LeastSubset
<1>2. Total(f, U) = IF U = {} THEN 0 ELSE f[Pick(U)].spent + Total(f, Rest(U))
  BY TotalUnfolds, FS_Subset
<1>3. CASE U # {}
  <2>1. Pick(U) \in U /\ Rest(U) \in SUBSET U /\ Rest(U) # U
    BY <1>3, PickIn DEF Rest
  <2>2. Total(f, Rest(U)) \in Nat
    BY <2>1, <1>1
  <2> QED
    BY <2>1, <2>2, <1>2, <1>3
<1> QED
  BY <1>2, <1>3

(* it is the same whichever element is taken out first,                    *)
LEMMA TotalTakesOut ==
  ASSUME NEW f, NEW S, IsFiniteSet(S), \A r \in S : f[r].spent \in Nat, NEW e \in S
  PROVE  Total(f, S) = f[e].spent + Total(f, S \ {e})
<1> DEFINE T == {s \in SUBSET S : \E x \in s : Total(f, s) # f[x].spent + Total(f, s \ {x})}
<1> SUFFICES ASSUME T # {} PROVE FALSE
  OBVIOUS
<1>0. T \subseteq SUBSET S
  OBVIOUS
<1>1. PICK U \in T : \A V \in SUBSET U : V # U => V \notin T
  <2> HIDE DEF T
  <2> QED BY <1>0, LeastSubset
<1>2. PICK x \in U : Total(f, U) # f[x].spent + Total(f, U \ {x})
  OBVIOUS
<1>3. Total(f, U) = f[Pick(U)].spent + Total(f, Rest(U))
  BY TotalUnfolds, FS_Subset
<1>4. Pick(U) \in U /\ U \in SUBSET S
  BY PickIn
<1>5. x # Pick(U)
  BY <1>2, <1>3 DEF Rest
<1> DEFINE V == Rest(U) \ {x}
<1>9. \A W \in SUBSET U : W # U => \A y \in W : Total(f, W) = f[y].spent + Total(f, W \ {y})
  BY <1>1
<1>6. Total(f, Rest(U)) = f[x].spent + Total(f, V)
  <2>1. Rest(U) \in SUBSET U /\ Rest(U) # U /\ x \in Rest(U)
    BY <1>4, <1>5 DEF Rest
  <2> QED
    BY <2>1, <1>1
<1>7. Total(f, U \ {x}) = f[Pick(U)].spent + Total(f, V)
  <2>1. U \ {x} \in SUBSET U /\ U \ {x} # U /\ Pick(U) \in U \ {x}
    BY <1>4, <1>5
  <2>2. (U \ {x}) \ {Pick(U)} = V
    BY DEF Rest
  <2> QED
    BY <2>1, <2>2, <1>9
<1>8. Total(f, V) \in Nat
  <2>1. V \in SUBSET S
    BY <1>4 DEF Rest
  <2> QED
    BY <2>1, TotalType, FS_Subset
<1> QED
  BY <1>2, <1>3, <1>4, <1>6, <1>7, <1>8

(* and it depends on nothing outside the set.                              *)
LEMMA TotalAgrees ==
  ASSUME NEW f, NEW g, NEW S, IsFiniteSet(S), \A r \in S : f[r].spent = g[r].spent
  PROVE  Total(f, S) = Total(g, S)
<1> DEFINE T == {s \in SUBSET S : Total(f, s) # Total(g, s)}
<1> SUFFICES ASSUME T # {} PROVE FALSE
  OBVIOUS
<1>0. T \subseteq SUBSET S
  OBVIOUS
<1>1. PICK U \in T : \A V \in SUBSET U : V # U => V \notin T
  <2> HIDE DEF T
  <2> QED BY <1>0, LeastSubset
<1>2. /\ Total(f, U) = IF U = {} THEN 0 ELSE f[Pick(U)].spent + Total(f, Rest(U))
      /\ Total(g, U) = IF U = {} THEN 0 ELSE g[Pick(U)].spent + Total(g, Rest(U))
  BY TotalUnfolds, FS_Subset
<1>3. CASE U # {}
  <2>1. Pick(U) \in U /\ Rest(U) \in SUBSET U /\ Rest(U) # U
    BY <1>3, PickIn DEF Rest
  <2>2. Total(f, Rest(U)) = Total(g, Rest(U))
    BY <2>1, <1>1
  <2> QED
    BY <2>1, <2>2, <1>2, <1>3
<1> QED
  BY <1>2, <1>3

(* A ledger over the runs recs records, n organisations opened so far,     *)
(* whose sum is right.                                                     *)
Ledger(l, recs, n) ==
  /\ l = [path |-> l.path, floor |-> l.floor, born |-> l.born, spent |-> l.spent,
          charged |-> l.charged, waived |-> l.waived]
  /\ l.born \in 0 .. n
  /\ l.charged \subseteq {r \in Runs : recs[r].status = "settled"}
  /\ l.waived \subseteq l.charged
  /\ l.spent = Total(recs, l.charged \ l.waived)

Apart(l, k) == l.born # k.born /\ l.charged \cap k.charged = {}

Ledgers(books, recs, n) ==
  /\ books = [w \in DOMAIN books |-> books[w]]
  /\ \A w \in DOMAIN books : Ledger(books[w], recs, n)
  /\ \A w \in DOMAIN books : \A v \in DOMAIN books \ {w} : Apart(books[v], books[w])

(* A run of an organisation carries the id it was opened under.            *)
Filed(rec, books) == \A w \in DOMAIN books : books[w].born = rec.born => w = rec.ws

(* What is recorded of a run.                                              *)
Record(rec, n) ==
  /\ rec = [ws |-> rec.ws, born |-> rec.born, status |-> rec.status, spent |-> rec.spent]
  /\ rec.status \in {"running", "settled"}
  /\ rec.spent \in Nat
  /\ rec.born \in 0 .. n

Entry(rec, n, books) == rec # Absent => Record(rec, n) /\ Filed(rec, books)

Known(recs) == {r \in Runs : recs[r] # Absent}

(* Settled runs no ledger has though their organisation is open.           *)
Lost(books, recs) ==
  {r \in Runs : recs[r].status = "settled"
                /\ \E w \in DOMAIN books : books[w].born = recs[r].born /\ r \notin books[w].charged}

(* The event of a run is on its way to the table.                          *)
Unwritten(r) == at \in {"append", "project"} /\ event.type = "run" /\ event.run = r

(* The run whose charge is in memory and not on disk.                      *)
InHand == IF at = "charge" THEN {event.run} ELSE {}

Places ==
  /\ opened \in Nat /\ crashes \in Nat
  /\ ~up => at = "idle"
  /\ up /\ at \notin {"commit", "charge"} => disk.office = office

Records ==
  /\ \A r \in Runs : Entry(disk.runs[r], opened, disk.office) /\ Entry(runs[r], opened, disk.office)
  /\ up => \A r \in Runs : Entry(disk.runs[r], opened, office) /\ Entry(runs[r], opened, office)
  /\ IsFiniteSet(Known(disk.runs))
  /\ \A r \in Runs : Unwritten(r) => disk.runs[r].status # "settled"
  /\ \A r \in Runs : runs[r] # Absent /\ ~Unwritten(r) => disk.runs[r] = runs[r]

Books ==
  /\ Ledgers(disk.office, disk.runs, opened)
  /\ up => Ledgers(office, disk.runs, opened)

Losses ==
  /\ Cardinality(Lost(disk.office, disk.runs) \ InHand) <= crashes
  /\ up => Cardinality(Lost(office, disk.runs)) <= crashes

Accounts == Places /\ Records /\ Books /\ Losses
-----------------------------------------------------------------------------
(* A ledger and what happens to it.                                        *)

LEMMA KnownSettled ==
  \A recs : \A r \in Runs : recs[r].status = "settled" => r \in Known(recs)
BY DEF Known, Absent

LEMMA LedgerStays ==
  ASSUME NEW l, NEW recs, NEW n \in Nat, NEW m \in Nat, n <= m, Ledger(l, recs, n)
  PROVE  Ledger(l, recs, m)
<1>1. l.born \in 0 .. m
  BY DEF Ledger
<1> QED
  BY <1>1 DEF Ledger

(* The runs of a ledger are finitely many.                                 *)
LEMMA LedgerFinite ==
  ASSUME NEW l, NEW recs, NEW n, Ledger(l, recs, n), IsFiniteSet(Known(recs))
  PROVE  l.charged \subseteq Known(recs) /\ IsFiniteSet(l.charged \ l.waived)
<1>1. l.charged \subseteq Known(recs)
  BY KnownSettled DEF Ledger
<1> QED
  BY <1>1, FS_Subset

(* A record written of a run that was not settled is on no ledger yet.     *)
LEMMA LedgerRecord ==
  ASSUME NEW l, NEW recs, NEW new, NEW n \in Nat, NEW r \in Runs,
         Ledger(l, recs, n), IsFiniteSet(Known(recs)), recs[r].status # "settled",
         \A s \in Runs \ {r} : new[s] = recs[s]
  PROVE  Ledger(l, new, n)
<1>1. l.charged \subseteq {s \in Runs \ {r} : recs[s].status = "settled"}
  BY DEF Ledger
<1>2. \A s \in l.charged \ l.waived : recs[s].spent = new[s].spent
  BY <1>1
<1>3. Total(recs, l.charged \ l.waived) = Total(new, l.charged \ l.waived)
  BY <1>2, LedgerFinite, TotalAgrees
<1>4. l.charged \subseteq {s \in Runs : new[s].status = "settled"}
  BY <1>1
<1> QED
  BY <1>3, <1>4 DEF Ledger

(* A settled run is charged.                                               *)
LEMMA LedgerCharge ==
  ASSUME NEW l, NEW recs, NEW n \in Nat, NEW r \in Runs, NEW spent \in Nat,
         Ledger(l, recs, n), IsFiniteSet(Known(recs)),
         \A s \in Known(recs) : recs[s].spent \in Nat,
         recs[r].status = "settled", recs[r].spent = spent, r \notin l.charged
  PROVE  /\ Ledger(Charged(l, r, spent), recs, n)
         /\ Charged(l, r, spent).born = l.born
         /\ Charged(l, r, spent).charged = l.charged \cup {r}
<1> DEFINE S == l.charged \ l.waived
           T == (l.charged \cup {r}) \ l.waived
<1>1. Charged(l, r, spent) = [path |-> l.path, floor |-> l.floor, born |-> l.born,
                              spent |-> l.spent + spent, charged |-> l.charged \cup {r},
                              waived |-> l.waived]
  <2> DEFINE c == Charged(l, r, spent)
             d == [path |-> l.path, floor |-> l.floor, born |-> l.born, spent |-> l.spent + spent,
                   charged |-> l.charged \cup {r}, waived |-> l.waived]
  <2>1. l = [path |-> l.path, floor |-> l.floor, born |-> l.born, spent |-> l.spent,
             charged |-> l.charged, waived |-> l.waived]
    BY DEF Ledger
  <2>2. /\ DOMAIN c = DOMAIN d /\ c = [k \in DOMAIN c |-> c[k]]
        /\ c.path = l.path /\ c.floor = l.floor /\ c.born = l.born
        /\ c.spent = l.spent + spent /\ c.charged = l.charged \cup {r} /\ c.waived = l.waived
    BY <2>1 DEF Charged
  <2>3. \A k \in DOMAIN d : c[k] = d[k]
    <3> HIDE DEF c
    <3> QED BY <2>2
  <2>4. d = [k \in DOMAIN d |-> d[k]]
    OBVIOUS
  <2> HIDE DEF c, d
  <2>5. c = d
    BY <2>2, <2>3, <2>4
  <2> QED
    BY <2>5 DEF c, d
<1>2. l.waived \subseteq l.charged
  BY DEF Ledger
<1>3. r \in T /\ T \ {r} = S
  BY <1>2
<1>4. S \subseteq Known(recs) /\ T \subseteq Known(recs) /\ IsFiniteSet(S) /\ IsFiniteSet(T)
  <2>1. S \subseteq Known(recs) /\ T \subseteq Known(recs)
    BY LedgerFinite, KnownSettled
  <2> QED
    BY <2>1, FS_Subset
<1>5. \A s \in T : recs[s].spent \in Nat
  BY <1>4
<1>6. Total(recs, T) = recs[r].spent + Total(recs, S)
  <2> HIDE DEF S, T
  <2> QED
    BY <1>3, <1>4, <1>5, TotalTakesOut
<1>7. Total(recs, S) \in Nat
  BY <1>4, TotalType
<1>8. l.spent + spent = Total(recs, T)
  BY <1>6, <1>7 DEF Ledger
<1> QED
  BY <1>1, <1>8 DEF Ledger

LEMMA NothingTotal == \A recs : Total(recs, {}) = 0
BY TotalUnfolds, FS_EmptySet

(* What was charged is written off, and a new ledger is empty.             *)
LEMMA LedgerPatch ==
  ASSUME NEW l, NEW recs, NEW n \in Nat, NEW patch \in {-1, 0}, Ledger(l, recs, n)
  PROVE  /\ Ledger(WrittenOff(l, patch), recs, n)
         /\ WrittenOff(l, patch).born = l.born
         /\ WrittenOff(l, patch).charged = l.charged
<1>1. Clamped(patch) = 0
  <2>1. CASE patch = 0
    <3>1. {0, patch} = {0}
      BY <2>1
    <3> QED
      BY <3>1 DEF Clamped, Max
  <2>2. CASE patch = -1
    <3>1. {0, patch} = {0, -1}
      BY <2>2
    <3> QED
      BY <3>1 DEF Clamped, Max
  <2> QED
    BY <2>1, <2>2
<1>2. WrittenOff(l, patch) = [path |-> l.path, floor |-> l.floor, born |-> l.born,
                              spent |-> 0, charged |-> l.charged, waived |-> l.charged]
  <2> DEFINE c == WrittenOff(l, patch)
             d == [path |-> l.path, floor |-> l.floor, born |-> l.born, spent |-> 0,
                   charged |-> l.charged, waived |-> l.charged]
  <2>1. l = [path |-> l.path, floor |-> l.floor, born |-> l.born, spent |-> l.spent,
             charged |-> l.charged, waived |-> l.waived]
    BY DEF Ledger
  <2>2. /\ DOMAIN c = DOMAIN d /\ c = [k \in DOMAIN c |-> c[k]]
        /\ c.path = l.path /\ c.floor = l.floor /\ c.born = l.born
        /\ c.spent = 0 /\ c.charged = l.charged /\ c.waived = l.charged
    BY <2>1, <1>1 DEF WrittenOff
  <2>3. \A k \in DOMAIN d : c[k] = d[k]
    <3> HIDE DEF c
    <3> QED BY <2>2
  <2>4. d = [k \in DOMAIN d |-> d[k]]
    OBVIOUS
  <2> HIDE DEF c, d
  <2>5. c = d
    BY <2>2, <2>3, <2>4
  <2> QED
    BY <2>5 DEF c, d
<1>3. l.charged \ l.charged = {}
  OBVIOUS
<1> QED
  BY <1>2, <1>3, NothingTotal DEF Ledger

LEMMA LedgerNew ==
  ASSUME NEW recs, NEW n \in Nat, NEW m \in 0 .. n, NEW path, NEW floor
  PROVE  /\ Ledger(NewWorkspace(path, floor, m), recs, n)
         /\ NewWorkspace(path, floor, m).born = m
         /\ NewWorkspace(path, floor, m).charged = {}
BY NothingTotal DEF Ledger, NewWorkspace

-----------------------------------------------------------------------------
(* The ledgers of an office.                                               *)

LEMMA LedgersStay ==
  ASSUME NEW b, NEW recs, NEW n \in Nat, NEW m \in Nat, n <= m, Ledgers(b, recs, n)
  PROVE  Ledgers(b, recs, m)
BY LedgerStays DEF Ledgers

LEMMA LedgersRecord ==
  ASSUME NEW b, NEW recs, NEW new, NEW n \in Nat, NEW r \in Runs,
         Ledgers(b, recs, n), IsFiniteSet(Known(recs)), recs[r].status # "settled",
         \A s \in Runs \ {r} : new[s] = recs[s]
  PROVE  Ledgers(b, new, n)
BY LedgerRecord DEF Ledgers

LEMMA LedgersChange ==
  ASSUME NEW b, NEW recs, NEW n, NEW w \in DOMAIN b, NEW l, Ledgers(b, recs, n),
         Ledger(l, recs, n), l.born = b[w].born,
         \A v \in DOMAIN b \ {w} : b[v].charged \cap l.charged = {}
  PROVE  Ledgers([b EXCEPT ![w] = l], recs, n)
BY DEF Ledgers, Apart

LEMMA LedgersOpen ==
  ASSUME NEW b, NEW recs, NEW n \in Nat, NEW id, NEW l,
         Ledgers(b, recs, n), Ledger(l, recs, n + 1), l.born = n + 1, l.charged = {}
  PROVE  Ledgers([w \in DOMAIN b \cup {id} |-> IF w = id THEN l ELSE b[w]], recs, n + 1)
<1> DEFINE c == [w \in DOMAIN b \cup {id} |-> IF w = id THEN l ELSE b[w]]
<1>1. /\ DOMAIN c = DOMAIN b \cup {id} /\ c[id] = l /\ c = [w \in DOMAIN c |-> c[w]]
      /\ \A w \in DOMAIN b \ {id} : c[w] = b[w]
  OBVIOUS
<1>2. \A w \in DOMAIN b : Ledger(b[w], recs, n + 1)
  BY LedgerStays DEF Ledgers
<1>3. \A w \in DOMAIN b : b[w].born # n + 1
  <2>1. \A w \in DOMAIN b : b[w].born \in 0 .. n
    BY DEF Ledgers, Ledger
  <2>2. n + 1 \notin 0 .. n
    OBVIOUS
  <2> QED
    BY <2>1, <2>2
<1>4. ASSUME NEW w \in DOMAIN c, NEW v \in DOMAIN c \ {w} PROVE Apart(c[v], c[w])
  <2> HIDE DEF c
  <2>1. CASE w = id
    BY <2>1, <1>1, <1>3 DEF Apart
  <2>2. CASE v = id
    BY <2>2, <1>1, <1>3 DEF Apart
  <2>3. CASE w # id /\ v # id
    BY <2>3, <1>1 DEF Ledgers
  <2> QED
    BY <2>1, <2>2, <2>3
<1> HIDE DEF c
<1>5. \A w \in DOMAIN c : Ledger(c[w], recs, n + 1)
  BY <1>1, <1>2
<1> QED
  BY <1>1, <1>4, <1>5 DEF Ledgers, c

LEMMA LedgersClose ==
  ASSUME NEW b, NEW recs, NEW n, NEW w, Ledgers(b, recs, n)
  PROVE  Ledgers([v \in DOMAIN b \ {w} |-> b[v]], recs, n)
BY DEF Ledgers

-----------------------------------------------------------------------------
(* Settled runs no ledger has, and where runs are filed.                   *)

LEMMA LostFinite ==
  ASSUME NEW b, NEW recs, IsFiniteSet(Known(recs))
  PROVE  IsFiniteSet(Lost(b, recs))
<1>1. Lost(b, recs) \subseteq Known(recs)
  BY KnownSettled DEF Lost
<1> QED
  BY <1>1, FS_Subset

LEMMA Fewer ==
  ASSUME NEW S, NEW T, IsFiniteSet(T), S \subseteq T, NEW n \in Nat, Cardinality(T) <= n
  PROVE  Cardinality(S) <= n
BY FS_Subset, FS_CardinalityType

LEMMA LostRecord ==
  ASSUME NEW b, NEW recs, NEW new, NEW r \in Runs, recs[r].status # "settled",
         \A s \in Runs \ {r} : new[s] = recs[s]
  PROVE  /\ Lost(b, new) \ {r} \subseteq Lost(b, recs)
         /\ new[r].status # "settled" => Lost(b, new) \subseteq Lost(b, recs)
         /\ Filed(new[r], b) /\ new[r].ws \notin DOMAIN b => Lost(b, new) \subseteq Lost(b, recs)
BY DEF Lost, Filed

LEMMA LostChange ==
  ASSUME NEW b, NEW recs, NEW w \in DOMAIN b, NEW l, l.born = b[w].born,
         b[w].charged \subseteq l.charged
  PROVE  /\ Lost([b EXCEPT ![w] = l], recs) \subseteq Lost(b, recs)
         /\ \A r \in l.charged :
              Filed(recs[r], b) /\ recs[r].ws = w => r \notin Lost([b EXCEPT ![w] = l], recs)
BY DEF Lost, Filed

LEMMA LostOpen ==
  ASSUME NEW b, NEW c, NEW recs, NEW n \in Nat, NEW id,
         DOMAIN c = DOMAIN b \cup {id}, \A w \in DOMAIN b \ {id} : c[w] = b[w],
         c[id].born = n + 1, \A r \in Known(recs) : recs[r].born \in 0 .. n
  PROVE  Lost(c, recs) \subseteq Lost(b, recs)
<1>1. \A r \in Runs : recs[r].status = "settled" => recs[r].born # n + 1
  BY KnownSettled
<1> QED
  BY <1>1 DEF Lost

LEMMA LostClose ==
  ASSUME NEW b, NEW recs, NEW w
  PROVE  Lost([v \in DOMAIN b \ {w} |-> b[v]], recs) \subseteq Lost(b, recs)
BY DEF Lost

LEMMA EntryStays ==
  ASSUME NEW rec, NEW n \in Nat, NEW m \in Nat, n <= m, NEW b, NEW c, Entry(rec, n, b),
         rec # Absent /\ Record(rec, n) /\ Filed(rec, b) => Filed(rec, c)
  PROVE  Entry(rec, m, c)
BY DEF Entry, Record

LEMMA EntryChange ==
  ASSUME NEW rec, NEW n \in Nat, NEW b, NEW w \in DOMAIN b, NEW l, l.born = b[w].born,
         Entry(rec, n, b)
  PROVE  Entry(rec, n, [b EXCEPT ![w] = l])
BY EntryStays DEF Filed

LEMMA EntryOpen ==
  ASSUME NEW rec, NEW n \in Nat, NEW b, NEW c, NEW id,
         DOMAIN c = DOMAIN b \cup {id}, \A w \in DOMAIN b \ {id} : c[w] = b[w],
         c[id].born = n + 1, Entry(rec, n, b)
  PROVE  Entry(rec, n + 1, c)
<1>1. Record(rec, n) => rec.born # n + 1
  BY DEF Record
<1> QED
  BY <1>1, EntryStays DEF Filed

LEMMA EntryClose ==
  ASSUME NEW rec, NEW n \in Nat, NEW b, NEW w, Entry(rec, n, b)
  PROVE  Entry(rec, n, [v \in DOMAIN b \ {w} |-> b[v]])
BY EntryStays DEF Filed

-----------------------------------------------------------------------------
(* The books through the steps of the office.                              *)

LEMMA InitAccounts == Init => Accounts
<1> SUFFICES ASSUME Init PROVE Accounts
  OBVIOUS
<1>1. Places
  BY DEF Init, Places
<1>2. Known(disk.runs) = {} /\ Lost(disk.office, disk.runs) = {}
  BY DEF Init, Known, Lost, Absent
<1>3. Records
  BY <1>2, FS_EmptySet DEF Init, Records, Entry, Unwritten, Absent
<1>4. Ledgers(disk.office, disk.runs, opened)
  <2>1. FirstOffice = [w \in {DefaultId} |-> NewWorkspace(Default, 1, 0)]
    BY DEF FirstOffice
  <2>2. Ledger(NewWorkspace(Default, 1, 0), disk.runs, 0)
    BY LedgerNew
  <2> HIDE DEF FirstOffice
  <2>3. Ledgers(FirstOffice, disk.runs, 0)
    BY <2>1, <2>2 DEF Ledgers
  <2> QED
    BY <2>3 DEF Init
<1>5. Books
  BY <1>4 DEF Books, Init
<1>6. Losses
  <2>1. InHand = {} /\ ~up /\ crashes = 0
    BY DEF Init, InHand
  <2> QED
    BY <1>2, <2>1, FS_EmptySet DEF Losses
<1> QED
  BY <1>1, <1>3, <1>5, <1>6 DEF Accounts

(* Steps that are about something else.                                    *)
LEMMA QuietAccounts ==
  ASSUME Accounts, UNCHANGED <<up, office, runs, opened, crashes>>,
         disk'.office = disk.office, disk'.runs = disk.runs, InHand' = InHand,
         Places', \A r \in Runs : Unwritten(r)' <=> Unwritten(r)
  PROVE  Accounts'
<1>1. Records'
  BY DEF Accounts, Records
<1>2. Books' /\ Losses'
  BY DEF Accounts, Books, Losses
<1> QED
  BY <1>1, <1>2 DEF Accounts

LEMMA EmitRunAccounts ==
  ASSUME Accounts, IInv, NEW r \in Runs, NEW rec, Record(rec, opened), Filed(rec, office),
         Handle(RunEvent(r, rec), "append"), runs' = [runs EXCEPT ![r] = rec],
         UNCHANGED <<office, opened>>, disk.runs[r].status # "settled"
  PROVE  Accounts'
<1>1. up /\ at = "idle" /\ at' = "append" /\ UNCHANGED <<up, disk, crashes>>
  BY DEF Handle, Idle
<1>2. event'.type = "run" /\ event'.run = r
  BY EventKinds DEF Handle
<1>3. disk.office = office
  BY <1>1 DEF Accounts, Places
<1>4. Places'
  BY <1>1, <1>3 DEF Accounts, Places
<1>5. runs'[r] = rec /\ \A s \in Runs \ {r} : runs'[s] = runs[s]
  BY DEF IInv, Shape
<1>6. Entry(rec, opened, office)
  BY DEF Entry
<1>7. \A s \in Runs : Unwritten(s)' <=> s = r
  BY <1>1, <1>2 DEF Unwritten
<1>8. \A s \in Runs : ~Unwritten(s)
  BY <1>1 DEF Unwritten
<1>9. Records'
  BY <1>1, <1>3, <1>5, <1>6, <1>7, <1>8 DEF Accounts, Records
<1>10. InHand' = {} /\ InHand = {}
  BY <1>1 DEF InHand
<1>11. Books' /\ Losses'
  BY <1>1, <1>10 DEF Accounts, Books, Losses
<1> QED
  BY <1>4, <1>9, <1>11 DEF Accounts

(* A handler that leaves the office in memory as c, to be committed.       *)
LEMMA OfficeAccounts ==
  ASSUME Accounts, up, at = "idle", at' = "commit", UNCHANGED <<up, disk, runs, crashes>>,
         opened' \in Nat, opened <= opened',
         \A r \in Runs : Entry(disk.runs[r], opened', office') /\ Entry(runs[r], opened', office'),
         Ledgers(office', disk.runs, opened'),
         Lost(office', disk.runs) \subseteq Lost(office, disk.runs)
  PROVE  Accounts'
<1> USE DEF Accounts
<1>1. Places'
  BY DEF Places
<1>2. \A r \in Runs : ~Unwritten(r) /\ ~Unwritten(r)'
  BY DEF Unwritten
<1>3. \A r \in Runs : Entry(disk.runs[r], opened', disk.office) /\ Entry(runs[r], opened', disk.office)
  BY EntryStays DEF Records, Places
<1>4. Records'
  BY <1>2, <1>3 DEF Records
<1>5. Ledgers(disk.office, disk.runs, opened')
  BY LedgersStay DEF Books, Places
<1>6. Books'
  BY <1>5 DEF Books
<1>7. Cardinality(Lost(office', disk.runs)) <= crashes
  BY LostFinite, Fewer DEF Losses, Places, Records
<1>8. InHand' = InHand
  BY DEF InHand
<1>9. Losses'
  BY <1>7, <1>8 DEF Losses
<1> QED
  BY <1>1, <1>4, <1>6, <1>9

LEMMA StartRunAccounts ==
  ASSUME Accounts, IInv, NEW r \in Runs, NEW w \in DOMAIN office, StartRun(r, w)
  PROVE  Accounts'
<1> DEFINE rec == [ws |-> w, born |-> office[w].born, status |-> "running", spent |-> 0]
<1>1. up /\ Ledgers(office, disk.runs, opened)
  BY DEF StartRun, Handle, Idle, Accounts, Books
<1>2. office[w].born \in 0 .. opened
  BY <1>1 DEF Ledgers, Ledger
<1>3. Record(rec, opened)
  BY <1>2 DEF Record
<1>4. Filed(rec, office)
  BY <1>1 DEF Filed, Ledgers, Apart
<1>5. disk.runs[r].status # "settled"
  BY DEF StartRun, Absent
<1> HIDE DEF rec
<1> QED
  BY <1>3, <1>4, <1>5, EmitRunAccounts DEF StartRun, rec

LEMMA UpdateRunAccounts ==
  ASSUME Accounts, IInv, NEW r \in Runs, NEW status \in {"running", "settled"}, NEW spent \in Nat,
         runs[r].status = "running", UpdateRun(r, status, spent)
  PROVE  Accounts'
<1> DEFINE rec == [runs[r] EXCEPT !.status = status, !.spent = spent]
<1>1. up /\ at = "idle"
  BY DEF UpdateRun, Handle, Idle
<1>2. runs[r] # Absent
  BY DEF Absent
<1>3. disk.runs[r] = runs[r]
  BY <1>1, <1>2 DEF Accounts, Records, Unwritten
<1>4. Record(runs[r], opened) /\ Filed(runs[r], office)
  BY <1>1, <1>2 DEF Accounts, Records, Entry
<1>5. /\ DOMAIN rec = {"ws", "born", "status", "spent"} /\ rec = [k \in DOMAIN rec |-> rec[k]]
      /\ rec.ws = runs[r].ws /\ rec.born = runs[r].born
      /\ rec.status = status /\ rec.spent = spent
  BY <1>4 DEF Record
<1> HIDE DEF rec
<1>6. rec = [ws |-> rec.ws, born |-> rec.born, status |-> rec.status, spent |-> rec.spent]
  BY <1>5
<1>7. Record(rec, opened) /\ Filed(rec, office)
  BY <1>4, <1>5, <1>6 DEF Record, Filed
<1> QED
  BY <1>3, <1>7, EmitRunAccounts DEF UpdateRun, rec

LEMMA CreateAccounts ==
  ASSUME Accounts, NEW name, NEW path, CreateWorkspace(name, path)
  PROVE  Accounts'
<1> DEFINE id == UniqueId(name)
           l == NewWorkspace(path, NextFloor, opened + 1)
<1>1. /\ up /\ at = "idle" /\ at' = "commit" /\ UNCHANGED <<up, disk, runs, crashes>>
      /\ opened \in Nat /\ opened' = opened + 1
      /\ office' = [w \in DOMAIN office \cup {id} |-> IF w = id THEN l ELSE office[w]]
  BY DEF CreateWorkspace, Handle, Idle, Accounts, Places
<1>2. Ledger(l, disk.runs, opened + 1) /\ l.born = opened + 1 /\ l.charged = {}
  <2>1. opened + 1 \in Nat /\ opened + 1 \in 0 .. opened + 1
    BY <1>1
  <2> QED
    BY <2>1, LedgerNew
<1> HIDE DEF id, l
<1>3. Ledgers(office', disk.runs, opened')
  BY <1>1, <1>2, LedgersOpen DEF Accounts, Books
<1>4. /\ DOMAIN office' = DOMAIN office \cup {id}
      /\ \A w \in DOMAIN office \ {id} : office'[w] = office[w]
      /\ office'[id].born = opened + 1
  BY <1>1, <1>2
<1>5. \A rec : Entry(rec, opened, office) => Entry(rec, opened', office')
  BY <1>1, <1>4, EntryOpen
<1>6. \A r \in Runs : Entry(disk.runs[r], opened', office') /\ Entry(runs[r], opened', office')
  BY <1>1, <1>5 DEF Accounts, Records
<1>7. \A r \in Known(disk.runs) : disk.runs[r].born \in 0 .. opened
  BY DEF Known, Accounts, Records, Entry, Record
<1>8. Lost(office', disk.runs) \subseteq Lost(office, disk.runs)
  BY <1>1, <1>4, <1>7, LostOpen
<1>9. opened' \in Nat /\ opened <= opened'
  BY <1>1
<1> QED
  BY <1>1, <1>3, <1>6, <1>8, <1>9, OfficeAccounts

LEMMA RemoveAccounts ==
  ASSUME Accounts, NEW w \in DOMAIN office, RemoveWorkspace(w)
  PROVE  Accounts'
<1>1. /\ up /\ at = "idle" /\ at' = "commit" /\ UNCHANGED <<up, disk, runs, opened, crashes>>
      /\ opened \in Nat
      /\ office' = [v \in DOMAIN office \ {w} |-> office[v]]
  BY DEF RemoveWorkspace, Handle, Idle, Accounts, Places
<1>2. Ledgers(office', disk.runs, opened')
  BY <1>1, LedgersClose DEF Accounts, Books
<1>3. \A r \in Runs : Entry(disk.runs[r], opened', office') /\ Entry(runs[r], opened', office')
  BY <1>1, EntryClose DEF Accounts, Records
<1>4. Lost(office', disk.runs) \subseteq Lost(office, disk.runs)
  BY <1>1, LostClose
<1> QED
  BY <1>1, <1>2, <1>3, <1>4, OfficeAccounts

LEMMA BudgetAccounts ==
  ASSUME Accounts, NEW w \in DOMAIN office, NEW patch \in {-1, 0}, SetWorkspaceBudget(w, patch)
  PROVE  Accounts'
<1> DEFINE l == WrittenOff(office[w], patch)
<1>1. /\ up /\ at = "idle" /\ at' = "commit" /\ UNCHANGED <<up, disk, runs, opened, crashes>>
      /\ opened \in Nat
      /\ office' = [office EXCEPT ![w] = l]
  BY DEF SetWorkspaceBudget, Handle, Idle, Accounts, Places
<1>2. Ledgers(office, disk.runs, opened)
  BY <1>1 DEF Accounts, Books
<1>3. Ledger(l, disk.runs, opened) /\ l.born = office[w].born /\ l.charged = office[w].charged
  BY <1>1, <1>2, LedgerPatch DEF Ledgers
<1> HIDE DEF l
<1>4. \A v \in DOMAIN office \ {w} : office[v].charged \cap l.charged = {}
  BY <1>2, <1>3 DEF Ledgers, Apart
<1>5. Ledgers(office', disk.runs, opened')
  BY <1>1, <1>2, <1>3, <1>4, LedgersChange
<1>6. \A r \in Runs : Entry(disk.runs[r], opened', office') /\ Entry(runs[r], opened', office')
  BY <1>1, <1>3, EntryChange DEF Accounts, Records
<1>7. Lost(office', disk.runs) \subseteq Lost(office, disk.runs)
  BY <1>1, <1>3, LostChange
<1>8. opened' \in Nat /\ opened <= opened'
  BY <1>1
<1> QED
  BY <1>1, <1>5, <1>6, <1>7, <1>8, OfficeAccounts

LEMMA OperateAccounts == ASSUME Accounts, IInv, Operate PROVE Accounts'
<1>1. ASSUME NEW r \in Runs, SpendRun(r) PROVE Accounts'
  <2>1. up /\ at = "idle" /\ runs[r].status = "running"
    BY <1>1 DEF SpendRun, UpdateRun, Handle, Idle
  <2>2. runs[r] # Absent
    BY <2>1 DEF Absent
  <2>3. runs[r].spent \in Nat
    BY <2>2 DEF Accounts, Records, Entry, Record
  <2> QED
    BY <1>1, <2>1, <2>3, UpdateRunAccounts DEF SpendRun
<1>2. ASSUME NEW r \in Runs, SettleRun(r) PROVE Accounts'
  <2>1. up /\ at = "idle" /\ runs[r].status = "running"
    BY <1>2 DEF SettleRun, UpdateRun, Handle, Idle
  <2>2. runs[r] # Absent
    BY <2>1 DEF Absent
  <2>3. runs[r].spent \in Nat
    BY <2>2 DEF Accounts, Records, Entry, Record
  <2> QED
    BY <1>2, <2>1, <2>3, UpdateRunAccounts DEF SettleRun
<1>3. ASSUME NEW r \in Runs, Request(r) \/ \E status \in Decision : ResolveApproval(r, status)
      PROVE  Accounts'
  <2>1. up /\ at = "idle" /\ at' = "approval" /\ UNCHANGED <<up, office, disk, runs, opened, crashes>>
    BY <1>3 DEF Request, ResolveApproval, Handle, Idle
  <2>2. Places' /\ InHand' = InHand
    BY <2>1 DEF Accounts, Places, InHand
  <2>3. \A s \in Runs : Unwritten(s)' <=> Unwritten(s)
    BY <2>1 DEF Unwritten
  <2> QED
    BY <2>1, <2>2, <2>3, QuietAccounts
<1>4. ASSUME NEW w \in DOMAIN office, SetActiveWorkspace(w) PROVE Accounts'
  <2>1. UNCHANGED <<up, at, event, office, disk, runs, opened, crashes>>
    BY <1>4 DEF SetActiveWorkspace
  <2>2. Places' /\ InHand' = InHand
    BY <2>1 DEF Accounts, Places, InHand
  <2>3. \A s \in Runs : Unwritten(s)' <=> Unwritten(s)
    BY <2>1 DEF Unwritten
  <2> QED
    BY <2>1, <2>2, <2>3, QuietAccounts
<1> QED
  BY <1>1, <1>2, <1>3, <1>4, StartRunAccounts, CreateAccounts, RemoveAccounts, BudgetAccounts
  DEF Operate

-----------------------------------------------------------------------------
(* Writes that touch neither the office nor the runs on disk.              *)
LEMMA OtherWriteAccounts ==
  ASSUME Accounts, IInv, SaveApproval \/ AppendEvent \/ ProjectApproval \/ Broadcast \/ Answer
  PROVE  Accounts'
<1>1. /\ up /\ at \notin {"commit", "charge"} /\ at' \notin {"commit", "charge"}
      /\ UNCHANGED <<up, event, office, runs, opened, crashes>>
  BY DEF SaveApproval, AppendEvent, ProjectApproval, Broadcast, Answer, Step
<1>2. disk'.office = disk.office /\ disk'.runs = disk.runs
  BY DEF SaveApproval, AppendEvent, ProjectApproval, Broadcast, Answer, IInv, Shape
<1>3. Places' /\ InHand' = InHand
  BY <1>1, <1>2 DEF Accounts, Places, InHand
<1>4. (event.type = "run" /\ at \in {"append", "project"}) <=> (event.type = "run" /\ at' \in {"append", "project"})
  BY EventKinds DEF SaveApproval, AppendEvent, ProjectApproval, Broadcast, Answer, Step, IInv, Written,
     AboutApproval
<1>5. \A s \in Runs : Unwritten(s)' <=> Unwritten(s)
  BY <1>1, <1>4 DEF Unwritten
<1> QED
  BY <1>1, <1>2, <1>3, <1>5, QuietAccounts

(* The office in memory goes to disk.                                      *)
LEMMA OfficeWriteAccounts ==
  ASSUME Accounts, IInv, CommitOffice \/ PersistCharge \/ ProjectOrg
  PROVE  Accounts'
<1>1. /\ up /\ at' \in {"idle", "append", "broadcast"}
      /\ UNCHANGED <<up, event, office, runs, opened, crashes>>
  BY DEF CommitOffice, PersistCharge, ProjectOrg, Step
<1>2. disk'.office = office /\ disk'.runs = disk.runs
  BY DEF CommitOffice, PersistCharge, ProjectOrg, IInv, Shape
<1>3. \A s \in Runs : ~Unwritten(s) /\ ~Unwritten(s)'
  BY EventKinds DEF CommitOffice, PersistCharge, ProjectOrg, Step, IInv, Written, Unwritten
<1>4. Places'
  BY <1>1, <1>2 DEF Accounts, Places
<1>5. Records'
  BY <1>1, <1>2, <1>3 DEF Accounts, Records
<1>6. InHand' = {}
  BY <1>1 DEF InHand
<1>7. Books' /\ Losses'
  BY <1>1, <1>2, <1>6 DEF Accounts, Books, Losses
<1> QED
  BY <1>4, <1>5, <1>7 DEF Accounts

LEMMA ProjectRunAccounts == ASSUME Accounts, IInv, ProjectRun PROVE Accounts'
<1> DEFINE run == event.run
           rec == event.rec
           new == disk'.runs
           old == disk.runs
<1>1. /\ up /\ at = "project" /\ event.type = "run" /\ at' \in {"charge", "broadcast"}
      /\ UNCHANGED <<up, event, runs, opened, crashes>>
  BY DEF ProjectRun, Step
<1>2. disk'.office = disk.office /\ disk.office = office
  BY <1>1 DEF ProjectRun, IInv, Shape, Accounts, Places
<1>3. run \in Runs /\ runs[run] = rec /\ rec # Absent
  BY <1>1, EventKinds DEF IInv, Shape, Written, RunMatter
<1>4. new[run] = rec /\ \A s \in Runs \ {run} : new[s] = old[s]
  BY <1>3 DEF ProjectRun, IInv, Shape
<1>5. old[run].status # "settled" /\ \A s \in Runs \ {run} : ~Unwritten(s)
  BY <1>1, <1>3 DEF Unwritten, Accounts, Records
<1>6. Record(rec, opened) /\ Filed(rec, office)
  BY <1>1, <1>3 DEF Accounts, Records, Entry
<1>7. opened \in Nat /\ crashes \in Nat /\ IsFiniteSet(Known(old))
  BY DEF Accounts, Places, Records
<1>8. IsFiniteSet(Known(new))
  <2>1. Known(new) \subseteq Known(old) \cup {run}
    BY <1>4 DEF Known
  <2> QED
    BY <1>7, <2>1, FS_AddElement, FS_Subset
<1>9. \A s \in Runs : Entry(new[s], opened, office) /\ Entry(runs[s], opened, office)
  BY <1>1, <1>3, <1>4, <1>6 DEF Accounts, Records, Entry
<1>10. \A s \in Runs : runs[s] # Absent => new[s] = runs[s]
  BY <1>3, <1>4, <1>5 DEF Accounts, Records
<1>11. \A s \in Runs : ~Unwritten(s)'
  BY <1>1 DEF Unwritten
<1>12. Ledgers(office, new, opened)
  BY <1>1, <1>3, <1>4, <1>5, <1>7, LedgersRecord DEF Accounts, Books
<1>13. /\ Lost(office, new) \ {run} \subseteq Lost(office, old)
       /\ rec.status # "settled" => Lost(office, new) \subseteq Lost(office, old)
       /\ Filed(rec, office) /\ rec.ws \notin DOMAIN office => Lost(office, new) \subseteq Lost(office, old)
  <2> HIDE DEF run, rec, new, old
  <2> QED
    BY <1>3, <1>4, <1>5, LostRecord
<1>14. Cardinality(Lost(office, old)) <= crashes /\ IsFiniteSet(Lost(office, old))
  BY <1>1, <1>7, LostFinite DEF Accounts, Losses
<1>15. CASE Charges
  <2> DEFINE l == Charged(office[rec.ws], run, rec.spent)
  <2>1. rec.status = "settled" /\ rec.ws \in DOMAIN office
    BY <1>15 DEF Charges, Terminal
  <2>2. at' = "charge" /\ office' = [office EXCEPT ![rec.ws] = l]
    BY <1>15 DEF ProjectRun, ChargeRun
  <2>3. \A v \in DOMAIN office : run \notin office[v].charged
    BY <1>1, <1>5 DEF Accounts, Books, Ledgers, Ledger
  <2>4. /\ Ledger(l, new, opened) /\ l.born = office[rec.ws].born
        /\ l.charged = office[rec.ws].charged \cup {run}
    <3>1. Ledger(office[rec.ws], new, opened)
      BY <1>12, <2>1 DEF Ledgers
    <3>2. \A s \in Known(new) : new[s].spent \in Nat
      BY <1>9 DEF Known, Entry, Record
    <3>3. new[run].status = "settled" /\ new[run].spent = rec.spent /\ rec.spent \in Nat
      BY <1>4, <1>6, <2>1 DEF Record
    <3> HIDE DEF run, rec, new, old
    <3> QED
      BY <1>3, <1>7, <1>8, <2>1, <2>3, <3>1, <3>2, <3>3, LedgerCharge
  <2> HIDE DEF l, run, rec, new, old
  <2>5. Places'
    BY <1>1, <2>2 DEF Accounts, Places
  <2>6. \A v \in DOMAIN office \ {rec.ws} : office[v].charged \cap l.charged = {}
    BY <1>12, <2>1, <2>3, <2>4 DEF Ledgers, Apart
  <2>7. Ledgers(office', new, opened)
    BY <1>12, <2>1, <2>2, <2>4, <2>6, LedgersChange
  <2>8. Books'
    BY <1>1, <1>2, <1>12, <2>7 DEF Books, new
  <2>9. \A s \in Runs : Entry(new[s], opened, office') /\ Entry(runs[s], opened, office')
    BY <1>7, <1>9, <2>1, <2>2, <2>4, EntryChange
  <2>10. Records'
    BY <1>1, <1>2, <1>8, <1>9, <1>10, <1>11, <2>9 DEF Records, new
  <2>11. Lost(office', new) \subseteq Lost(office, old)
    <3>1. Lost(office', new) \subseteq Lost(office, new)
      BY <2>1, <2>2, <2>4, LostChange
    <3>2. run \in l.charged /\ Filed(new[run], office) /\ new[run].ws = rec.ws
      BY <1>4, <1>6, <2>4
    <3>3. run \notin Lost(office', new)
      BY <2>1, <2>2, <2>4, <3>2, LostChange
    <3> QED
      BY <1>13, <3>1, <3>3
  <2>12. InHand' = {run}
    BY <1>1, <2>2 DEF InHand, run
  <2>13. Losses'
    BY <1>1, <1>2, <1>7, <1>13, <1>14, <2>11, <2>12, Fewer DEF Losses, new
  <2> QED
    BY <2>5, <2>8, <2>10, <2>13 DEF Accounts
<1>16. CASE ~Charges
  <2>1. at' = "broadcast" /\ office' = office
    BY <1>16 DEF ProjectRun
  <2>2. Lost(office, new) \subseteq Lost(office, old)
    BY <1>6, <1>13, <1>16 DEF Charges, Terminal
  <2>3. InHand' = {}
    BY <2>1 DEF InHand
  <2> HIDE DEF run, rec, new, old
  <2>4. Places'
    BY <1>1, <1>2, <2>1 DEF Accounts, Places
  <2>5. Books'
    BY <1>1, <1>2, <1>12, <2>1 DEF Books, new
  <2>6. Records'
    BY <1>1, <1>2, <1>8, <1>9, <1>10, <1>11, <2>1 DEF Records, new
  <2>7. Losses'
    BY <1>1, <1>2, <1>7, <1>14, <2>1, <2>2, <2>3, Fewer DEF Losses, new
  <2> QED
    BY <2>4, <2>5, <2>6, <2>7 DEF Accounts
<1> QED
  BY <1>15, <1>16

(* A crash costs at most the run in hand.                                  *)
LEMMA CrashAccounts == ASSUME Accounts, IInv, Crash PROVE Accounts'
<1>1. /\ ~up' /\ at' = "idle" /\ crashes' = crashes + 1 /\ UNCHANGED <<disk, opened>>
      /\ runs' = [r \in Runs |-> Absent]
  BY DEF Crash
<1>2. Places'
  BY <1>1 DEF Accounts, Places
<1>3. Records'
  BY <1>1 DEF Accounts, Records, Entry, Unwritten
<1>4. Books'
  BY <1>1 DEF Accounts, Books
<1>5. InHand' = {} /\ InHand \in {{}, {event.run}}
  BY <1>1 DEF InHand
<1> DEFINE L == Lost(disk.office, disk.runs)
<1>6. IsFiniteSet(L) /\ Cardinality(L \ InHand) <= crashes /\ crashes \in Nat
  BY LostFinite DEF Accounts, Records, Losses, Places
<1>7. Cardinality(L) \in Nat /\ Cardinality(L) <= Cardinality(L \ InHand) + 1
  <2> HIDE DEF L
  <2>1. L \ {} = L /\ Cardinality(L) \in Nat
    BY <1>6, FS_CardinalityType
  <2>2. Cardinality(L \ {event.run}) \in {Cardinality(L), Cardinality(L) - 1}
    BY <1>6, FS_RemoveElement
  <2>3. CASE InHand = {}
    BY <2>1, <2>3
  <2>4. CASE InHand = {event.run}
    BY <2>1, <2>2, <2>4
  <2> QED
    BY <1>5, <2>3, <2>4
<1>8. Cardinality(L) <= crashes + 1
  <2> HIDE DEF L
  <2>1. IsFiniteSet(L \ InHand)
    BY <1>6, FS_Difference
  <2>2. Cardinality(L \ InHand) \in Nat
    BY <2>1, FS_CardinalityType
  <2> QED
    BY <1>6, <1>7, <2>2
<1>9. Losses'
  <2>1. Losses' <=> Cardinality(L \ {}) <= crashes + 1
    BY <1>1, <1>5 DEF Losses
  <2>2. L \ {} = L
    OBVIOUS
  <2> QED
    BY <1>8, <2>1, <2>2
<1> QED
  BY <1>2, <1>3, <1>4, <1>9 DEF Accounts

LEMMA BootAccounts == ASSUME Accounts, IInv, Boot PROVE Accounts'
<1>1. /\ ~up /\ up' /\ at = "idle" /\ office' = disk.office
      /\ UNCHANGED <<at, event, disk, runs, opened, crashes>>
  BY DEF Boot, Accounts, Places
<1>2. Places' /\ Records' /\ Books'
  BY <1>1 DEF Accounts, Places, Records, Books, Unwritten
<1>3. InHand = {} /\ InHand' = {}
  BY <1>1 DEF InHand
<1>4. Lost(disk.office, disk.runs) \ {} = Lost(disk.office, disk.runs)
  OBVIOUS
<1>5. Losses'
  BY <1>1, <1>3, <1>4 DEF Accounts, Losses
<1> QED
  BY <1>2, <1>5 DEF Accounts

LEMMA NextAccounts == ASSUME Accounts, IInv, [Next]_vars PROVE Accounts'
<1>1. CASE UNCHANGED vars
  BY <1>1, QuietAccounts DEF vars, memory, InHand, Accounts, Places, Unwritten
<1>2. CASE Write
  BY <1>2, OtherWriteAccounts, OfficeWriteAccounts, ProjectRunAccounts DEF Write
<1> QED
  BY <1>1, <1>2, OperateAccounts, CrashAccounts, BootAccounts DEF Next

LEMMA AccountsAreKept == Spec => []Accounts
BY InitAccounts, NextAccounts, Invariant, PTL DEF Spec

(* What an organisation is charged is the spend of settled runs, none of   *)
(* them charged twice, and every settled run of an open organisation is on *)
(* its ledger but for one a crash, whatever is created, removed, patched   *)
(* or interrupted (runtime.ts emit, 1038-1046).                            *)
THEOREM NoRunIsChargedTwice == Spec => []LedgersAddUp
<1>1. ASSUME Accounts, IInv, NEW b, Ledgers(b, disk.runs, opened) PROVE Adds(b)
  BY <1>1 DEF Ledgers, Ledger, Apart, Adds, Settled, Terminal
<1>2. ASSUME Accounts, IInv, Idle PROVE Cardinality(Missing(disk.office)) <= crashes
  <2>1. Missing(disk.office) = Lost(disk.office, disk.runs)
    BY DEF Missing, Lost, OnTheBooks, Settled, Terminal
  <2>2. Lost(disk.office, disk.runs) \ InHand = Lost(disk.office, disk.runs)
    BY <1>2 DEF Idle, InHand
  <2> QED
    BY <1>2, <2>1, <2>2 DEF Accounts, Losses
<1>3. Accounts /\ IInv => LedgersAddUp
  BY <1>1, <1>2 DEF LedgersAddUp, Accounts, Books
<1> QED
  BY <1>3, AccountsAreKept, Invariant, PTL

-----------------------------------------------------------------------------
(* OrgFloor. The planner's loop is a recursive function, and induction is  *)
(* on the least step at which a claim about it fails.                      *)
LEMMA LeastNumber ==
  ASSUME NEW T, T \subseteq Nat, T # {}
  PROVE  \E n \in T : \A m \in T : n <= m
<1>1. PICK n \in T : \A m \in T : ~(<<m, n>> \in OpToRel(<, Nat))
  BY NatLessThanWellFounded, WFMin
<1>2. \A m \in T : ~(m < n)
  BY <1>1 DEF OpToRel
<1> QED
  BY <1>2

(* Of things with two numbers each there is one that comes first.          *)
LEMMA LeastPair ==
  ASSUME NEW S, S # {}, NEW f \in [S -> Nat], NEW g \in [S -> Nat]
  PROVE  \E s \in S : \A t \in S : \/ f[s] < f[t]
                                   \/ f[s] = f[t] /\ g[s] <= g[t]
<1> DEFINE F == {f[s] : s \in S}
<1>1. PICK a \in F : \A m \in F : a <= m
  <2>1. F \subseteq Nat /\ F # {}
    OBVIOUS
  <2> HIDE DEF F
  <2> QED BY <2>1, LeastNumber
<1> DEFINE G == {g[s] : s \in {t \in S : f[t] = a}}
<1>2. PICK b \in G : \A m \in G : b <= m
  <2>1. G \subseteq Nat /\ G # {}
    OBVIOUS
  <2> HIDE DEF G, F
  <2> QED BY <2>1, LeastNumber
<1>3. PICK s \in S : f[s] = a /\ g[s] = b
  BY <1>2
<1>4. ASSUME NEW t \in S PROVE f[s] < f[t] \/ (f[s] = f[t] /\ g[s] <= g[t])
  <2>1. f[s] <= f[t]
    BY <1>1, <1>3
  <2>2. f[s] = f[t] => g[s] <= g[t]
    BY <1>2, <1>3
  <2> QED
    BY <2>1, <2>2
<1> QED
  BY <1>4

(* What is done step by step can be done: the first n steps,               *)
Iterates(D, start, step, g, n) ==
  /\ g \in [0 .. n -> D]
  /\ g[0] = start
  /\ \A i \in 1 .. n : g[i] = step[i][g[i - 1]]

LEMMA IteratesAgree ==
  ASSUME NEW D, NEW start, NEW step, NEW n \in Nat, NEW m \in Nat, n <= m,
         NEW g, Iterates(D, start, step, g, n), NEW h, Iterates(D, start, step, h, m)
  PROVE  g[n] = h[n]
<1> DEFINE T == {i \in Nat : i \in 0 .. n /\ g[i] # h[i]}
<1> SUFFICES ASSUME T # {} PROVE FALSE
  OBVIOUS
<1>1. PICK i \in T : \A j \in T : i <= j
  <2>1. T \subseteq Nat
    OBVIOUS
  <2> HIDE DEF T
  <2> QED BY <2>1, LeastNumber
<1>2. i # 0
  BY <1>1 DEF Iterates
<1>3. i - 1 \in Nat /\ i - 1 \notin T /\ i \in 1 .. n /\ i \in 1 .. m /\ i - 1 \in 0 .. n
  BY <1>1, <1>2
<1>4. g[i - 1] = h[i - 1]
  BY <1>3
<1> QED
  BY <1>1, <1>3, <1>4 DEF Iterates

LEMMA IteratesExist ==
  ASSUME NEW D, NEW start \in D, NEW step \in [Nat -> [D -> D]], NEW n \in Nat
  PROVE  \E g : Iterates(D, start, step, g, n)
<1> DEFINE T == {i \in Nat : ~ \E g : Iterates(D, start, step, g, i)}
<1> SUFFICES ASSUME T # {} PROVE FALSE
  OBVIOUS
<1>1. PICK i \in T : \A j \in T : i <= j
  <2>1. T \subseteq Nat
    OBVIOUS
  <2> HIDE DEF T
  <2> QED BY <2>1, LeastNumber
<1>2. CASE i = 0
  <2>1. Iterates(D, start, step, [j \in 0 .. 0 |-> start], 0)
    BY DEF Iterates
  <2> QED
    BY <2>1, <1>1, <1>2
<1>3. CASE i # 0
  <2>0. i \in Nat /\ i - 1 \in Nat /\ ~(i <= i - 1)
    BY <1>3
  <2>1. i - 1 \in Nat /\ i - 1 \notin T
    <3> HIDE DEF T
    <3> QED BY <1>1, <2>0
  <2>2. PICK g : Iterates(D, start, step, g, i - 1)
    BY <2>1
  <2> DEFINE h == [j \in 0 .. i |-> IF j = i THEN step[i][g[i - 1]] ELSE g[j]]
  <2>3. g[i - 1] \in D /\ step[i] \in [D -> D]
    BY <2>1, <2>2 DEF Iterates
  <2>4. h \in [0 .. i -> D]
    BY <2>1, <2>2, <2>3 DEF Iterates
  <2>5. h[0] = start
    BY <1>3, <2>1, <2>2 DEF Iterates
  <2>6. ASSUME NEW j \in 1 .. i PROVE h[j] = step[j][h[j - 1]]
    <3>1. CASE j = i
      BY <3>1, <2>1
    <3>2. CASE j # i
      <4>1. j \in 1 .. i - 1 /\ h[j] = g[j] /\ h[j - 1] = g[j - 1]
        BY <3>2, <2>1
      <4> QED
        BY <4>1, <2>2 DEF Iterates
    <3> QED
      BY <3>1, <3>2
  <2>7. Iterates(D, start, step, h, i)
    <3> HIDE DEF h
    <3> QED BY <2>4, <2>5, <2>6 DEF Iterates
  <2> QED
    BY <2>7, <1>1
<1> QED
  BY <1>2, <1>3

(* and hence all of them.                                                  *)
IteratesForever(D, start, step, f) ==
  /\ f \in [Nat -> D]
  /\ f[0] = start
  /\ \A n \in Nat : f[n + 1] = step[n + 1][f[n]]

LEMMA IteratesOn ==
  ASSUME NEW D, NEW start \in D, NEW step \in [Nat -> [D -> D]]
  PROVE  \E f : IteratesForever(D, start, step, f)
<1> DEFINE G(n) == CHOOSE g : Iterates(D, start, step, g, n)
<1>1. \A n \in Nat : Iterates(D, start, step, G(n), n)
  BY IteratesExist
<1> HIDE DEF G
<1> DEFINE f == [n \in Nat |-> G(n)[n]]
<1>2. f \in [Nat -> D]
  BY <1>1 DEF Iterates
<1>3. f[0] = start
  BY <1>1 DEF Iterates
<1>4. ASSUME NEW n \in Nat PROVE f[n + 1] = step[n + 1][f[n]]
  <2>1. G(n)[n] = G(n + 1)[n]
    BY <1>1, IteratesAgree
  <2>2. G(n + 1)[n + 1] = step[n + 1][G(n + 1)[(n + 1) - 1]]
    BY <1>1 DEF Iterates
  <2> QED
    BY <2>1, <2>2
<1> QED
  BY <1>2, <1>3, <1>4 DEF IteratesForever

KindIds(k) == {k.kinds[i].id : i \in 1 .. Len(k.kinds)}
Doorways == [x : Int, z : Int, dir : Edges]
Rooms(ids) == [id : Nat \ {0}, kind : ids, x : Int, z : Int, rotation : 0 .. 3]
Plans(k) ==
  [blocks : Seq(Rooms(KindIds(k))), frontier : Seq(Doorways), cursor : Nat]

(* A step along one axis is an edge.                                       *)
LEMMA EdgesAreSteps ==
  ASSUME NEW a \in {-1, 0, 1}, NEW b \in {-1, 0, 1}
  PROVE  <<a, b>> \in Edges <=> (a + b = 1 \/ a + b + 1 = 0)
BY DEF Edges, North, East, South, West

LEMMA EdgesTurn ==
  ASSUME NEW e \in Edges, NEW r \in 0 .. 3
  PROVE  Turned(e, r) \in Edges
<1>1. PICK a \in {-1, 0, 1}, b \in {-1, 0, 1} : e = <<a, b>>
  BY DEF Edges, North, East, South, West
<1>2. a + b = 1 \/ a + b + 1 = 0
  BY <1>1, EdgesAreSteps
<1>3. -a \in {-1, 0, 1} /\ -b \in {-1, 0, 1} /\ a \in Int /\ b \in Int
  OBVIOUS
<1>4. Turned(e, r) \in {<<a, b>>, <<b, -a>>, <<-a, -b>>, <<-b, a>>}
  BY <1>1 DEF Turned
<1>5. /\ b + (-a) = 1 \/ b + (-a) + 1 = 0
      /\ (-a) + (-b) = 1 \/ (-a) + (-b) + 1 = 0
      /\ (-b) + a = 1 \/ (-b) + a + 1 = 0
  BY <1>2
<1>6. /\ <<a, b>> \in Edges /\ <<b, -a>> \in Edges
      /\ <<-a, -b>> \in Edges /\ <<-b, a>> \in Edges
  BY <1>2, <1>3, <1>5, EdgesAreSteps
<1> QED
  BY <1>4, <1>6

LEMMA DoorOffsetType ==
  ASSUME NEW kind, kind.width \in Int, kind.depth \in Int, NEW e \in Edges, NEW r \in 0 .. 3
  PROVE  DoorOffset(e, kind, r)[1] \in Int /\ DoorOffset(e, kind, r)[2] \in Int
<1>1. e[1] \in Int /\ e[2] \in Int
  BY DEF Edges, North, East, South, West
<1> DEFINE p == EdgeMidpoint(e, kind)
<1>2. p[1] \in Int /\ p[2] \in Int
  <2>1. e[1] * kind.width \in Int /\ e[2] * kind.depth \in Int
    BY <1>1
  <2>2. \A n \in Int : n \div 2 \in Int
    OBVIOUS
  <2> QED
    BY <2>1, <2>2 DEF EdgeMidpoint
<1>3. DoorOffset(e, kind, r) = Turned(p, r)
  BY DEF DoorOffset
<1> HIDE DEF p
<1>4. Turned(p, r)[1] \in Int /\ Turned(p, r)[2] \in Int
  BY <1>2 DEF Turned
<1> QED
  BY <1>3, <1>4

(* A kind that mates a doorway mates it in one way first.                  *)
LEMMA PlacementMates ==
  ASSUME NEW kind, kind.doors \in Seq(Edges), NEW port, Mates(kind, port) # {}
  PROVE  /\ PlacementFor(kind, port) \in Mates(kind, port)
         /\ PlacementFor(kind, port).rotation \in 0 .. 3
         /\ PlacementFor(kind, port).door \in 1 .. Len(kind.doors)
<1> DEFINE S == Mates(kind, port)
<1>1. S \subseteq [rotation : 0 .. 3, door : 1 .. Len(kind.doors)]
  BY DEF Mates
<1>2. Len(kind.doors) \in Nat
  BY LenProperties
<1> HIDE DEF S
<1> DEFINE f == [m \in S |-> m.rotation]
           g == [m \in S |-> m.door]
<1>3. f \in [S -> Nat] /\ g \in [S -> Nat]
  BY <1>1, <1>2
<1>4. \E s \in S : \A t \in S : \/ f[s] < f[t]
                                \/ f[s] = f[t] /\ g[s] <= g[t]
  <2>1. S # {}
    BY DEF S
  <2> HIDE DEF f, g
  <2> QED BY <1>3, <2>1, LeastPair
<1>5. \E s \in S : \A t \in S : \/ s.rotation < t.rotation
                                \/ s.rotation = t.rotation /\ s.door <= t.door
  BY <1>4
<1>6. PlacementFor(kind, port) \in S
  BY <1>5 DEF PlacementFor, S
<1> QED
  BY <1>1, <1>6 DEF S

LEMMA PlacedCountType ==
  ASSUME NEW k, NEW plan \in Plans(k), NEW i
  PROVE  PlacedCount(k, plan, i) \in Nat
<1> DEFINE B == {b \in 1 .. Len(plan.blocks) : plan.blocks[b].kind = k.kinds[i].id}
<1>1. plan.blocks \in Seq(Rooms(KindIds(k)))
  BY DEF Plans
<1>2. Len(plan.blocks) \in Nat
  BY <1>1, LenProperties
<1>3. IsFiniteSet(1 .. Len(plan.blocks)) /\ B \subseteq 1 .. Len(plan.blocks)
  BY <1>2, FS_Interval
<1>4. Cardinality(B) \in Nat
  BY <1>3, FS_Subset, FS_CardinalityType
<1> QED
  BY <1>4 DEF PlacedCount

(* Of the kinds that fit one is tried first.                               *)
LEMMA ChosenFits ==
  ASSUME NEW k, IsKit(k), NEW plan \in Plans(k), Fits(k, plan) # {}
  PROVE  Chosen(k, plan) \in Fits(k, plan)
<1> DEFINE S == Fits(k, plan)
<1>1. S \subseteq Nat
  BY DEF Fits, RoomKinds, IsKit
<1>2. S # {}
  OBVIOUS
<1> HIDE DEF S
<1> DEFINE f == [i \in S |-> PlacedCount(k, plan, i)]
           g == [i \in S |-> i]
<1>3. f \in [S -> Nat] /\ g \in [S -> Nat]
  BY <1>1, PlacedCountType
<1>4. \E s \in S : \A t \in S : \/ f[s] < f[t]
                                \/ f[s] = f[t] /\ g[s] <= g[t]
  <2> HIDE DEF f, g
  <2> QED BY <1>2, <1>3, LeastPair
<1>5. \E s \in S : \A t \in S :
         \/ PlacedCount(k, plan, s) < PlacedCount(k, plan, t)
         \/ PlacedCount(k, plan, s) = PlacedCount(k, plan, t) /\ s <= t
  BY <1>4
<1> QED
  BY <1>5 DEF Chosen, S

LEMMA ListType ==
  ASSUME NEW n \in Nat, NEW S, NEW f \in [1 .. n -> S]
  PROVE  f \in Seq(S) /\ Len(f) = n
<1>1. f \in Seq(S)
  BY SeqDef
<1>2. 1 .. Len(f) = 1 .. n /\ Len(f) \in Nat
  BY <1>1, LenProperties
<1>3. Len(f) <= n
  <2>1. CASE Len(f) = 0
    BY <2>1
  <2>2. CASE Len(f) # 0
    <3>1. Len(f) \in 1 .. Len(f)
      BY <1>2, <2>2
    <3>2. Len(f) \in 1 .. n
      BY <1>2, <3>1
    <3> QED
      BY <3>2
  <2> QED
    BY <2>1, <2>2
<1>4. n <= Len(f)
  <2>1. CASE n = 0
    BY <2>1, <1>2
  <2>2. CASE n # 0
    <3>1. n \in 1 .. n
      BY <2>2
    <3>2. n \in 1 .. Len(f)
      BY <1>2, <3>1
    <3> QED
      BY <3>2
  <2> QED
    BY <2>1, <2>2
<1> QED
  BY <1>1, <1>2, <1>3, <1>4

LEMMA PortsOfType ==
  ASSUME NEW k, IsKit(k), NEW i \in 1 .. Len(k.kinds),
         NEW room \in Rooms(KindIds(k)), NEW entry \in 1 .. Len(k.kinds[i].doors)
  PROVE  /\ PortsOf(room, k.kinds[i], entry) \in Seq(Doorways)
         /\ Len(PortsOf(room, k.kinds[i], entry)) <= 3
<1> DEFINE kind == k.kinds[i]
<1>1. /\ kind.doors \in Seq(Edges) /\ Len(kind.doors) <= 4
      /\ kind.width \in Int /\ kind.depth \in Int
  BY DEF IsKit
<1>2. Len(kind.doors) \in Nat \ {0}
  BY <1>1, LenProperties
<1>3. room.x \in Int /\ room.z \in Int /\ room.rotation \in 0 .. 3
  BY DEF Rooms
<1> HIDE DEF kind
<1> DEFINE edge(n) == kind.doors[IF n < entry THEN n ELSE n + 1]
           port(n) == [x |-> room.x + DoorOffset(edge(n), kind, room.rotation)[1],
                       z |-> room.z + DoorOffset(edge(n), kind, room.rotation)[2],
                       dir |-> Turned(edge(n), room.rotation)]
<1>4. ASSUME NEW n \in 1 .. Len(kind.doors) - 1 PROVE port(n) \in Doorways
  <2>1. (IF n < entry THEN n ELSE n + 1) \in 1 .. Len(kind.doors)
    BY <1>2
  <2>2. edge(n) \in Edges
    BY <2>1, <1>1, ElementOfSeq
  <2> HIDE DEF edge
  <2>3. Turned(edge(n), room.rotation) \in Edges
    BY <2>2, <1>3, EdgesTurn
  <2>4. /\ DoorOffset(edge(n), kind, room.rotation)[1] \in Int
        /\ DoorOffset(edge(n), kind, room.rotation)[2] \in Int
    BY <2>2, <1>1, <1>3, DoorOffsetType
  <2> QED
    BY <2>3, <2>4, <1>3 DEF Doorways
<1>5. PortsOf(room, kind, entry) = [n \in 1 .. Len(kind.doors) - 1 |-> port(n)]
  BY DEF PortsOf
<1> HIDE DEF port
<1>6. PortsOf(room, kind, entry) \in [1 .. Len(kind.doors) - 1 -> Doorways]
  BY <1>4, <1>5
<1>7. Len(kind.doors) - 1 \in Nat /\ Len(kind.doors) - 1 <= 3
  BY <1>1, <1>2
<1> QED
  BY <1>6, <1>7, ListType DEF kind

(* What a doorway leads to: a room of the kit that is clear of the others, *)
(* and three doorways more at most; or nothing.                            *)
Clears(k, rooms, room) == ~Collides(k, rooms, room)

AddsRoom(k, plan, next, room) ==
  /\ next.blocks = Append(plan.blocks, room)
  /\ room.id = Len(plan.blocks) + 1
  /\ Clears(k, plan.blocks, room)
  /\ Len(next.frontier) <= Len(plan.frontier) + 3

LEMMA CandidateType ==
  ASSUME NEW k, IsKit(k), NEW plan \in Plans(k), plan.cursor < Len(plan.frontier),
         NEW i \in Fits(k, plan)
  PROVE  /\ CandidateAt(k, plan, i) \in Rooms(KindIds(k))
         /\ CandidateAt(k, plan, i).id = Len(plan.blocks) + 1
         /\ i \in 1 .. Len(k.kinds)
         /\ PlacementFor(k.kinds[i], plan.frontier[plan.cursor + 1]).door
              \in 1 .. Len(k.kinds[i].doors)
<1> DEFINE port == plan.frontier[plan.cursor + 1]
           kind == k.kinds[i]
           mate == PlacementFor(kind, port)
<1>1. i \in 1 .. Len(k.kinds) /\ Mates(kind, port) # {}
  BY DEF Fits, RoomKinds
<1>2. /\ kind.doors \in Seq(Edges) /\ kind.width \in Int /\ kind.depth \in Int
  BY <1>1 DEF IsKit
<1>3. mate.rotation \in 0 .. 3 /\ mate.door \in 1 .. Len(kind.doors)
  <2> HIDE DEF port, kind
  <2> QED BY <1>1, <1>2, PlacementMates
<1>4. kind.doors[mate.door] \in Edges
  BY <1>2, <1>3, ElementOfSeq
<1>5. port \in Doorways
  <2>1. plan.frontier \in Seq(Doorways) /\ plan.cursor \in Nat
    BY DEF Plans
  <2>2. plan.cursor + 1 \in 1 .. Len(plan.frontier)
    BY <2>1, LenProperties
  <2> QED
    BY <2>1, <2>2, ElementOfSeq
<1>6. port.x \in Int /\ port.z \in Int
  BY <1>5 DEF Doorways
<1> DEFINE offset == DoorOffset(kind.doors[mate.door], kind, mate.rotation)
<1>7. offset[1] \in Int /\ offset[2] \in Int
  <2> HIDE DEF kind, mate
  <2> QED BY <1>2, <1>3, <1>4, DoorOffsetType
<1>8. CandidateAt(k, plan, i) =
        [id |-> Len(plan.blocks) + 1, kind |-> kind.id, x |-> port.x - offset[1],
         z |-> port.z - offset[2], rotation |-> mate.rotation]
  BY DEF CandidateAt, BlockAt
<1>9. Len(plan.blocks) \in Nat
  BY LenProperties DEF Plans
<1>10. kind.id \in KindIds(k)
  BY <1>1 DEF KindIds
<1> HIDE DEF port, kind, mate, offset
<1>11. /\ port.x - offset[1] \in Int /\ port.z - offset[2] \in Int
       /\ Len(plan.blocks) + 1 \in Nat \ {0}
  BY <1>6, <1>7, <1>9
<1>12. CandidateAt(k, plan, i) \in Rooms(KindIds(k))
  BY <1>3, <1>8, <1>10, <1>11 DEF Rooms
<1> QED
  BY <1>1, <1>3, <1>8, <1>12 DEF kind, port, mate

LEMMA NextPort ==
  ASSUME NEW k, IsKit(k), NEW plan \in Plans(k), plan.cursor < Len(plan.frontier)
  PROVE  /\ AtNextPort(k, plan) \in Plans(k)
         /\ AtNextPort(k, plan).cursor = plan.cursor + 1
         /\ \/ /\ AtNextPort(k, plan).blocks = plan.blocks
               /\ AtNextPort(k, plan).frontier = plan.frontier
            \/ \E room \in Rooms(KindIds(k)) : AddsRoom(k, plan, AtNextPort(k, plan), room)
<1> DEFINE next == AtNextPort(k, plan)
<1>0. /\ plan.blocks \in Seq(Rooms(KindIds(k))) /\ plan.frontier \in Seq(Doorways)
      /\ plan.cursor \in Nat /\ plan.cursor + 1 \in Nat
      /\ plan = [blocks |-> plan.blocks, frontier |-> plan.frontier, cursor |-> plan.cursor]
  BY DEF Plans
<1>1. CASE Fits(k, plan) = {}
  <2>1. next = [plan EXCEPT !.cursor = @ + 1]
    BY <1>1 DEF AtNextPort
  <2>2. /\ next.blocks = plan.blocks /\ next.frontier = plan.frontier
        /\ next.cursor = plan.cursor + 1
    BY <2>1, <1>0
  <2>3. next \in Plans(k)
    BY <2>1, <1>0 DEF Plans
  <2> QED
    BY <2>2, <2>3
<1>2. CASE Fits(k, plan) # {}
  <2> DEFINE i == Chosen(k, plan)
             room == CandidateAt(k, plan, i)
             entry == PlacementFor(k.kinds[i], plan.frontier[plan.cursor + 1]).door
             ports == PortsOf(room, k.kinds[i], entry)
  <2>1. i \in Fits(k, plan)
    BY <1>2, ChosenFits
  <2>2. /\ room \in Rooms(KindIds(k)) /\ room.id = Len(plan.blocks) + 1
        /\ i \in 1 .. Len(k.kinds) /\ entry \in 1 .. Len(k.kinds[i].doors)
    <3> HIDE DEF i
    <3> QED BY <2>1, CandidateType
  <2>3. Clears(k, plan.blocks, room)
    BY <2>1 DEF Fits, Clears
  <2>4. ports \in Seq(Doorways) /\ Len(ports) <= 3
    <3> HIDE DEF i, room, entry
    <3> QED BY <2>2, PortsOfType
  <2>5. next = [blocks |-> Append(plan.blocks, room), frontier |-> plan.frontier \o ports,
                cursor |-> plan.cursor + 1]
    BY <1>2 DEF AtNextPort
  <2> HIDE DEF i, room, entry, ports
  <2>6. Append(plan.blocks, room) \in Seq(Rooms(KindIds(k)))
    BY <1>0, <2>2, AppendProperties
  <2>7. /\ plan.frontier \o ports \in Seq(Doorways)
        /\ Len(plan.frontier \o ports) = Len(plan.frontier) + Len(ports)
    BY <1>0, <2>4, ConcatProperties
  <2>8. Len(plan.frontier \o ports) <= Len(plan.frontier) + 3
    BY <2>4, <2>7, <1>0, LenProperties
  <2>9. next \in Plans(k)
    BY <2>5, <2>6, <2>7, <1>0 DEF Plans
  <2>10. AddsRoom(k, plan, next, room)
    BY <2>2, <2>3, <2>5, <2>8 DEF AddsRoom
  <2>11. next.cursor = plan.cursor + 1
    BY <2>5
  <2> HIDE DEF next
  <2> QED
    BY <2>2, <2>9, <2>10, <2>11 DEF next
<1> QED
  BY <1>1, <1>2

(* The plan after n steps of planFloor's loop.                             *)
After(k, rooms) ==
  CHOOSE after : after = [n \in Nat |-> IF n = 0 THEN Start(k)
                                        ELSE Advance(k, rooms, after[n - 1])]

LEMMA PlanFloorIsAfter ==
  \A k, rooms : PlanFloor(k, rooms) = After(k, rooms)[LastStep(k, rooms)].blocks
BY DEF PlanFloor, After

LEMMA StartType ==
  ASSUME NEW k, IsKit(k)
  PROVE  Start(k) \in Plans(k)
<1>1. k.core.ports \in Seq(Doorways)
  BY DEF IsKit, Doorways
<1> QED
  BY <1>1, EmptySeq DEF Start, Plans

LEMMA AdvanceType ==
  ASSUME NEW k, IsKit(k), NEW rooms, NEW plan \in Plans(k)
  PROVE  Advance(k, rooms, plan) \in Plans(k)
BY NextPort DEF Advance

LEMMA AfterSteps ==
  ASSUME NEW k, IsKit(k), NEW rooms
  PROVE  /\ After(k, rooms) \in [Nat -> Plans(k)]
         /\ After(k, rooms)[0] = Start(k)
         /\ \A n \in Nat : After(k, rooms)[n + 1] = Advance(k, rooms, After(k, rooms)[n])
<1> DEFINE step == [n \in Nat |-> [plan \in Plans(k) |-> Advance(k, rooms, plan)]]
           Is(f) == f = [n \in Nat |-> IF n = 0 THEN Start(k) ELSE Advance(k, rooms, f[n - 1])]
<1>1. Start(k) \in Plans(k) /\ step \in [Nat -> [Plans(k) -> Plans(k)]]
  BY StartType, AdvanceType
<1>2. PICK f : IteratesForever(Plans(k), Start(k), step, f)
  <2> HIDE DEF step
  <2> QED BY <1>1, IteratesOn
<1>3. ASSUME NEW n \in Nat PROVE f[n + 1] = Advance(k, rooms, f[n])
  <2>1. f[n] \in Plans(k) /\ n + 1 \in Nat
    BY <1>2 DEF IteratesForever
  <2>2. step[n + 1][f[n]] = Advance(k, rooms, f[n])
    BY <2>1
  <2> QED
    BY <2>2, <1>2 DEF IteratesForever
<1>4. ASSUME NEW n \in Nat PROVE f[n] = IF n = 0 THEN Start(k) ELSE Advance(k, rooms, f[n - 1])
  <2>1. CASE n = 0
    BY <2>1, <1>2 DEF IteratesForever
  <2>2. CASE n # 0
    <3>1. n - 1 \in Nat /\ (n - 1) + 1 = n
      BY <2>2
    <3> QED
      BY <2>2, <3>1, <1>3
  <2> QED
    BY <2>1, <2>2
<1>5. Is(f)
  <2>1. f = [n \in Nat |-> f[n]]
    BY <1>2 DEF IteratesForever
  <2> QED
    BY <2>1, <1>4
<1>6. Is(After(k, rooms))
  BY <1>5 DEF After
<1> DEFINE g == After(k, rooms)
<1> HIDE DEF g
<1>7. /\ g[0] = Start(k)
      /\ \A n \in Nat : g[n + 1] = Advance(k, rooms, g[n])
  <2>1. g = [n \in Nat |-> IF n = 0 THEN Start(k) ELSE Advance(k, rooms, g[n - 1])]
    BY <1>6 DEF g
  <2>2. ASSUME NEW n \in Nat PROVE g[n + 1] = Advance(k, rooms, g[n])
    <3>1. n + 1 \in Nat /\ n + 1 # 0 /\ (n + 1) - 1 = n
      OBVIOUS
    <3> QED
      BY <2>1, <3>1
  <2> QED
    BY <2>1, <2>2
<1>8. \A n \in Nat : g[n] \in Plans(k)
  <2> DEFINE T == {n \in Nat : g[n] \notin Plans(k)}
  <2> SUFFICES ASSUME T # {} PROVE FALSE
    OBVIOUS
  <2>1. PICK n \in T : \A m \in T : n <= m
    <3>1. T \subseteq Nat
      OBVIOUS
    <3> HIDE DEF T
    <3> QED BY <3>1, LeastNumber
  <2>2. n # 0
    BY <2>1, <1>1, <1>7
  <2>3. n \in Nat /\ n - 1 \in Nat /\ ~(n <= n - 1) /\ (n - 1) + 1 = n
    BY <2>2
  <2>4. n - 1 \notin T
    <3> HIDE DEF T
    <3> QED BY <2>1, <2>3
  <2> QED
    BY <2>3, <2>4, <1>7, AdvanceType
<1>9. g = [n \in Nat |-> g[n]]
  BY <1>6 DEF g
<1> QED
  BY <1>7, <1>8, <1>9 DEF g

(* One step of the loop, seen from outside.                                *)
LEMMA AdvanceSteps ==
  ASSUME NEW k, IsKit(k), NEW rooms, NEW plan \in Plans(k)
  PROVE  /\ Advance(k, rooms, plan) \in Plans(k)
         /\ \/ /\ Advance(k, rooms, plan) = plan
               /\ ~(Len(plan.blocks) < rooms /\ plan.cursor < Len(plan.frontier))
            \/ /\ Len(plan.blocks) < rooms
               /\ Advance(k, rooms, plan).cursor = plan.cursor + 1
               /\ \/ /\ Advance(k, rooms, plan).blocks = plan.blocks
                     /\ Advance(k, rooms, plan).frontier = plan.frontier
                  \/ \E room \in Rooms(KindIds(k)) :
                       AddsRoom(k, plan, Advance(k, rooms, plan), room)
BY NextPort DEF Advance

(* No box the planner reckons with is in the core's or in another.          *)
BoxesApart(k, rooms) ==
  \A i \in 1 .. Len(rooms) :
    /\ ~Overlaps(BoxOf(k, rooms[i]), CoreBox(k))
    /\ \A j \in 1 .. i - 1 : ~Overlaps(BoxOf(k, rooms[i]), BoxOf(k, rooms[j]))

(* What a plan keeps to on the way.                                        *)
Building(k, rooms, plan, n) ==
  /\ BoxesApart(k, plan.blocks)
  /\ \A i \in 1 .. Len(plan.blocks) : plan.blocks[i].id = i
  /\ Len(plan.blocks) <= rooms
  /\ Len(plan.frontier) <= Len(k.core.ports) + 3 * Len(plan.blocks)
  /\ \/ plan.cursor = n
     \/ Len(plan.blocks) = rooms
     \/ plan.cursor >= Len(plan.frontier)

LEMMA RoomsStayApart ==
  ASSUME NEW k, NEW blocks \in Seq(Rooms(KindIds(k))), NEW room \in Rooms(KindIds(k)),
         BoxesApart(k, blocks), Clears(k, blocks, room)
  PROVE  BoxesApart(k, Append(blocks, room))
<1> DEFINE after == Append(blocks, room)
<1>1. /\ Len(blocks) \in Nat /\ Len(after) = Len(blocks) + 1
      /\ \A i \in 1 .. Len(blocks) : after[i] = blocks[i]
      /\ after[Len(blocks) + 1] = room
  BY AppendProperties, LenProperties
<1> HIDE DEF after
<1> SUFFICES ASSUME NEW i \in 1 .. Len(after)
    PROVE /\ ~Overlaps(BoxOf(k, after[i]), CoreBox(k))
          /\ \A j \in 1 .. i - 1 : ~Overlaps(BoxOf(k, after[i]), BoxOf(k, after[j]))
  BY DEF BoxesApart, after
<1>2. CASE i = Len(blocks) + 1
  <2>1. \A j \in 1 .. i - 1 : j \in 1 .. Len(blocks) /\ after[j] = blocks[j]
    BY <1>1, <1>2
  <2>2. after[i] = room
    BY <1>1, <1>2
  <2> QED
    BY <2>1, <2>2 DEF Clears, Collides
<1>3. CASE i # Len(blocks) + 1
  <2>1. i \in 1 .. Len(blocks)
    BY <1>1, <1>3
  <2>2. \A j \in 1 .. i - 1 : j \in 1 .. Len(blocks) /\ after[j] = blocks[j]
    BY <1>1, <2>1
  <2> QED
    BY <2>1, <2>2, <1>1 DEF BoxesApart
<1> QED
  BY <1>2, <1>3

LEMMA BuildingStarts ==
  ASSUME NEW k, IsKit(k), NEW rooms \in Nat
  PROVE  Building(k, rooms, Start(k), 0)
<1>1. /\ Start(k).blocks = <<>> /\ Len(<<>>) = 0 /\ Start(k).cursor = 0
      /\ Start(k).frontier = k.core.ports
  BY EmptySeq DEF Start
<1>2. Len(k.core.ports) \in Nat
  BY LenProperties DEF IsKit
<1> QED
  BY <1>1, <1>2 DEF Building, BoxesApart

LEMMA BuildingGoesOn ==
  ASSUME NEW k, IsKit(k), NEW rooms \in Nat, NEW n \in Nat,
         NEW plan \in Plans(k), Building(k, rooms, plan, n)
  PROVE  Building(k, rooms, Advance(k, rooms, plan), n + 1)
<1> DEFINE next == Advance(k, rooms, plan)
<1>0. /\ plan.blocks \in Seq(Rooms(KindIds(k))) /\ Len(plan.blocks) \in Nat
      /\ plan.frontier \in Seq(Doorways) /\ Len(plan.frontier) \in Nat
      /\ plan.cursor \in Nat
  BY LenProperties DEF Plans
<1>1. CASE /\ next = plan
           /\ ~(Len(plan.blocks) < rooms /\ plan.cursor < Len(plan.frontier))
  <2>1. Len(plan.blocks) <= rooms
    BY DEF Building
  <2>2. Len(plan.blocks) = rooms \/ plan.cursor >= Len(plan.frontier)
    BY <1>0, <1>1, <2>1
  <2>3. Building(k, rooms, next, n + 1)
    <3> HIDE DEF next
    <3> QED BY <2>2, <1>1 DEF Building
  <2> QED
    BY <2>3
<1>2. CASE /\ Len(plan.blocks) < rooms
           /\ next.cursor = plan.cursor + 1
           /\ next.blocks = plan.blocks
           /\ next.frontier = plan.frontier
  <2> HIDE DEF next
  <2>1. /\ BoxesApart(k, next.blocks)
        /\ \A i \in 1 .. Len(next.blocks) : next.blocks[i].id = i
        /\ Len(next.blocks) <= rooms
        /\ Len(next.frontier) <= Len(k.core.ports) + 3 * Len(next.blocks)
    BY <1>2 DEF Building
  <2>2. next.cursor = n + 1 \/ next.cursor >= Len(next.frontier)
    <3>1. plan.cursor = n \/ plan.cursor >= Len(plan.frontier)
      BY <1>2, <1>0 DEF Building
    <3> QED
      BY <3>1, <1>0, <1>2
  <2>3. Building(k, rooms, next, n + 1)
    BY <2>1, <2>2 DEF Building
  <2> QED
    BY <2>3 DEF next
<1>3. ASSUME Len(plan.blocks) < rooms, next.cursor = plan.cursor + 1,
             NEW room \in Rooms(KindIds(k)), AddsRoom(k, plan, next, room)
      PROVE  Building(k, rooms, next, n + 1)
  <2> HIDE DEF next
  <2>1. /\ Len(next.blocks) = Len(plan.blocks) + 1
        /\ \A i \in 1 .. Len(plan.blocks) : next.blocks[i] = plan.blocks[i]
        /\ next.blocks[Len(plan.blocks) + 1] = room
    BY <1>0, <1>3, AppendProperties DEF AddsRoom
  <2>2. BoxesApart(k, next.blocks)
    BY <1>0, <1>3, RoomsStayApart DEF AddsRoom, Building
  <2>3. ASSUME NEW i \in 1 .. Len(next.blocks) PROVE next.blocks[i].id = i
    <3>1. CASE i = Len(plan.blocks) + 1
      BY <3>1, <2>1, <1>3 DEF AddsRoom
    <3>2. CASE i # Len(plan.blocks) + 1
      <4>1. i \in 1 .. Len(plan.blocks)
        BY <3>2, <2>1, <1>0
      <4> QED
        BY <4>1, <2>1 DEF Building
    <3> QED
      BY <3>1, <3>2
  <2>4. Len(next.frontier) <= Len(plan.frontier) + 3
    BY <1>3 DEF AddsRoom
  <2>5. next \in Plans(k) /\ Len(next.frontier) \in Nat
    <3>1. next \in Plans(k)
      BY AdvanceType DEF next
    <3> QED
      BY <3>1, LenProperties DEF Plans
  <2>6. Len(next.frontier) <= Len(k.core.ports) + 3 * Len(next.blocks)
    <3>1. Len(k.core.ports) \in Nat
      BY LenProperties DEF IsKit
    <3>2. Len(plan.frontier) <= Len(k.core.ports) + 3 * Len(plan.blocks)
      BY DEF Building
    <3>3. \A a, b, c, d, e \in Nat :
            a <= c + 3 * d /\ b <= a + 3 /\ e = d + 1 => b <= c + 3 * e
      OBVIOUS
    <3>4. Len(next.blocks) \in Nat
      BY <2>1, <1>0
    <3> QED
      BY <3>1, <3>2, <3>3, <3>4, <2>1, <2>4, <2>5, <1>0
  <2>7. Len(next.blocks) <= rooms
    BY <2>1, <1>0, <1>3
  <2>8. next.cursor = n + 1 \/ Len(next.blocks) = rooms \/ next.cursor >= Len(next.frontier)
    <3>1. plan.cursor = n \/ plan.cursor >= Len(plan.frontier)
      BY <1>3, <1>0 DEF Building
    <3>2. plan.cursor < Len(plan.frontier)
      BY <1>3, <1>0 DEF next, Advance, AddsRoom
    <3> QED
      BY <3>1, <3>2, <1>0, <1>3
  <2> QED
    BY <2>2, <2>3, <2>6, <2>7, <2>8 DEF Building
<1> QED
  BY <1>1, <1>2, <1>3, AdvanceSteps

LEMMA AlwaysBuilding ==
  ASSUME NEW k, IsKit(k), NEW rooms \in Nat, NEW n \in Nat
  PROVE  Building(k, rooms, After(k, rooms)[n], n)
<1> DEFINE after == After(k, rooms)
           T == {m \in Nat : ~Building(k, rooms, after[m], m)}
<1>0. /\ after \in [Nat -> Plans(k)] /\ after[0] = Start(k)
      /\ \A m \in Nat : after[m + 1] = Advance(k, rooms, after[m])
  BY AfterSteps
<1> HIDE DEF after
<1>1. T = {}
  <2> SUFFICES ASSUME T # {} PROVE FALSE
    OBVIOUS
  <2>1. PICK m \in T : \A l \in T : m <= l
    <3>1. T \subseteq Nat
      OBVIOUS
    <3> HIDE DEF T
    <3> QED BY <3>1, LeastNumber
  <2>2. m # 0
    BY <1>0, <2>1, BuildingStarts
  <2>3. m \in Nat /\ m - 1 \in Nat /\ ~(m <= m - 1) /\ (m - 1) + 1 = m
    BY <2>2
  <2>4. m - 1 \notin T
    <3> HIDE DEF T
    <3> QED BY <2>1, <2>3
  <2>5. Building(k, rooms, after[m - 1], m - 1) /\ after[m - 1] \in Plans(k)
    BY <2>3, <2>4, <1>0
  <2>6. Building(k, rooms, Advance(k, rooms, after[m - 1]), (m - 1) + 1)
    BY <2>3, <2>5, BuildingGoesOn
  <2>7. after[m] = Advance(k, rooms, after[m - 1])
    BY <2>3, <1>0
  <2> QED
    BY <2>3, <2>6, <2>7
<1> QED
  BY <1>1 DEF after

LEMMA LastStepType ==
  ASSUME NEW k, IsKit(k)
  PROVE  /\ Len(k.core.ports) \in Nat
         /\ \A r \in Nat : LastStep(k, r) \in Nat
         /\ \A r, s \in Nat : r <= s => LastStep(k, r) <= LastStep(k, s)
<1>1. k.core.ports \in Seq(Doorways)
  BY DEF IsKit, Doorways
<1>2. Len(k.core.ports) \in Nat
  BY <1>1, LenProperties
<1> DEFINE p == Len(k.core.ports)
<1>3. \A r : LastStep(k, r) = p + 3 * r
  BY DEF LastStep
<1> HIDE DEF p
<1>4. p \in Nat
  BY <1>2 DEF p
<1>5. \A r \in Nat : LastStep(k, r) \in Nat
  BY <1>3, <1>4
<1>6. ASSUME NEW r \in Nat, NEW s \in Nat, r <= s PROVE LastStep(k, r) <= LastStep(k, s)
  <2>1. p + 3 * r <= p + 3 * s
    BY <1>4, <1>6
  <2> QED
    BY <2>1, <1>3
<1> QED
  BY <1>2, <1>5, <1>6

Finished(rooms, plan) == ~(Len(plan.blocks) < rooms /\ plan.cursor < Len(plan.frontier))

(* The bound on the loop is never what ends it.                            *)
LEMMA TheLoopEnds ==
  ASSUME NEW k, IsKit(k), NEW rooms \in Nat
  PROVE  Finished(rooms, After(k, rooms)[LastStep(k, rooms)])
<1> DEFINE n == LastStep(k, rooms)
           plan == After(k, rooms)[n]
<1>1. Len(k.core.ports) \in Nat /\ n \in Nat /\ n = Len(k.core.ports) + 3 * rooms
  BY LastStepType DEF LastStep
<1> HIDE DEF n
<1>2. plan \in Plans(k)
  BY <1>1, AfterSteps
<1>3. Building(k, rooms, plan, n)
  BY <1>1, AlwaysBuilding
<1> HIDE DEF plan
<1>4. Len(plan.blocks) \in Nat /\ Len(plan.frontier) \in Nat /\ plan.cursor \in Nat
  BY <1>2, LenProperties DEF Plans
<1>5. /\ Len(plan.blocks) <= rooms
      /\ Len(plan.frontier) <= Len(k.core.ports) + 3 * Len(plan.blocks)
      /\ \/ plan.cursor = n
         \/ Len(plan.blocks) = rooms
         \/ plan.cursor >= Len(plan.frontier)
  BY <1>3 DEF Building
<1>6. \A a, b, p, r \in Nat : a <= r /\ b <= p + 3 * a => b <= p + 3 * r
  OBVIOUS
<1>7. Len(plan.frontier) <= n
  BY <1>1, <1>4, <1>5, <1>6
<1>8. Len(plan.blocks) = rooms \/ plan.cursor >= Len(plan.frontier)
  BY <1>4, <1>5, <1>7
<1>9. Finished(rooms, plan)
  BY <1>4, <1>8 DEF Finished
<1> QED
  BY <1>9 DEF plan, n

LEMMA NothingComesAfter ==
  ASSUME NEW k, IsKit(k), NEW rooms \in Nat, NEW n \in Nat, NEW m \in Nat, n <= m,
         Finished(rooms, After(k, rooms)[n])
  PROVE  After(k, rooms)[m] = After(k, rooms)[n]
<1> DEFINE after == After(k, rooms)
           T == {l \in Nat : n <= l /\ after[l] # after[n]}
<1>0. /\ after \in [Nat -> Plans(k)]
      /\ \A l \in Nat : after[l + 1] = Advance(k, rooms, after[l])
  BY AfterSteps
<1>1. Finished(rooms, after[n])
  OBVIOUS
<1> HIDE DEF after
<1>2. T = {}
  <2> SUFFICES ASSUME T # {} PROVE FALSE
    OBVIOUS
  <2>1. PICK l \in T : \A i \in T : l <= i
    <3>1. T \subseteq Nat
      OBVIOUS
    <3> HIDE DEF T
    <3> QED BY <3>1, LeastNumber
  <2>2. l \in Nat /\ n <= l /\ l # n
    BY <2>1
  <2>3. l - 1 \in Nat /\ ~(l <= l - 1) /\ (l - 1) + 1 = l /\ n <= l - 1
    BY <2>2
  <2>4. l - 1 \notin T
    <3> HIDE DEF T
    <3> QED BY <2>1, <2>3
  <2>5. after[l - 1] = after[n]
    BY <2>3, <2>4
  <2>6. after[l] = Advance(k, rooms, after[n])
    BY <2>3, <2>5, <1>0
  <2>7. after[l] = after[n]
    BY <2>6, <1>1 DEF Advance, Finished
  <2> QED
    BY <2>1, <2>7
<1> QED
  BY <1>2 DEF after

LEMMA PlannedApart ==
  ASSUME NEW k, IsKit(k), NEW rooms \in Nat
  PROVE  BoxesApart(k, PlanFloor(k, rooms))
<1>1. LastStep(k, rooms) \in Nat
  BY LastStepType
<1> QED
  BY <1>1, AlwaysBuilding, PlanFloorIsAfter DEF Building

LEMMA PlanFloorType ==
  ASSUME NEW k, IsKit(k), NEW rooms \in Nat
  PROVE  /\ PlanFloor(k, rooms) \in Seq(Rooms(KindIds(k)))
         /\ Len(PlanFloor(k, rooms)) <= rooms
         /\ \A i \in 1 .. Len(PlanFloor(k, rooms)) : PlanFloor(k, rooms)[i].id = i
<1>1. LastStep(k, rooms) \in Nat
  BY LastStepType
<1>2. After(k, rooms)[LastStep(k, rooms)] \in Plans(k)
  BY <1>1, AfterSteps
<1>3. Building(k, rooms, After(k, rooms)[LastStep(k, rooms)], LastStep(k, rooms))
  BY <1>1, AlwaysBuilding
<1> QED
  BY <1>2, <1>3, PlanFloorIsAfter DEF Building, Plans

LEMMA KindsOfAKit ==
  ASSUME NEW k, IsKit(k), NEW id, InKit(k, id)
  PROVE  /\ KindNamed(k, id) \in 1 .. Len(k.kinds)
         /\ k.kinds[KindNamed(k, id)].id = id
BY DEF InKit, KindNamed

(* Half a length, and what a quarter turn makes of a corner.               *)
LEMMA HalfIsNat == \A n \in Nat : n \div 2 \in Nat
OBVIOUS

LEMMA AbsIs ==
  ASSUME NEW n \in Nat
  PROVE  Abs(n) = n /\ Abs(-n) = n
BY DEF Abs

(* The box the planner reckons with is where the room stands.              *)
LEMMA FootprintIsBox ==
  ASSUME NEW k, IsKit(k), NEW room, InKit(k, room.kind), room.rotation \in 0 .. 3
  PROVE  Footprint(k, room) = BoxOf(k, room)
<1> DEFINE kind == k.kinds[KindNamed(k, room.kind)]
           w == kind.width \div 2
           d == kind.depth \div 2
           r == room.rotation
<1>1. kind.width \in Nat /\ kind.depth \in Nat
  BY KindsOfAKit DEF IsKit
<1>2. w \in Nat /\ d \in Nat
  BY <1>1, HalfIsNat
<1>3. /\ Footprint(k, room) =
           [minX |-> room.x - Abs(Turned(<<w, d>>, r)[1]),
            maxX |-> room.x + Abs(Turned(<<w, d>>, r)[1]),
            minZ |-> room.z - Abs(Turned(<<w, d>>, r)[2]),
            maxZ |-> room.z + Abs(Turned(<<w, d>>, r)[2])]
      /\ BoxOf(k, room) = BlockBox(room, kind)
  BY DEF Footprint, BoxOf
<1>4. BlockBox(room, kind) =
        IF r \in {1, 3}
        THEN [minX |-> room.x - d, maxX |-> room.x + d,
              minZ |-> room.z - w, maxZ |-> room.z + w]
        ELSE [minX |-> room.x - w, maxX |-> room.x + w,
              minZ |-> room.z - d, maxZ |-> room.z + d]
  BY DEF BlockBox, Box
<1> HIDE DEF kind, w, d, r
<1>5. Turned(<<w, d>>, r) =
        IF r = 0 THEN <<w, d>> ELSE IF r = 1 THEN <<d, -w>>
        ELSE IF r = 2 THEN <<-w, -d>> ELSE <<-d, w>>
  BY DEF Turned
<1>6. r = 0 \/ r = 1 \/ r = 2 \/ r = 3
  BY DEF r
<1>7. Abs(w) = w /\ Abs(-w) = w /\ Abs(d) = d /\ Abs(-d) = d
  BY <1>2, AbsIs
<1>8. /\ Abs(Turned(<<w, d>>, r)[1]) = IF r \in {1, 3} THEN d ELSE w
      /\ Abs(Turned(<<w, d>>, r)[2]) = IF r \in {1, 3} THEN w ELSE d
  BY <1>5, <1>6, <1>7
<1> QED
  BY <1>3, <1>4, <1>6, <1>8

LEMMA BoxesAreRooms ==
  ASSUME NEW k, IsKit(k), NEW rooms \in Seq(Rooms(KindIds(k))), BoxesApart(k, rooms)
  PROVE  RoomsApart(k, rooms)
<1>1. Len(rooms) \in Nat
  BY LenProperties
<1>2. ASSUME NEW i \in 1 .. Len(rooms) PROVE Footprint(k, rooms[i]) = BoxOf(k, rooms[i])
  <2>1. rooms[i] \in Rooms(KindIds(k))
    BY ElementOfSeq
  <2>2. InKit(k, rooms[i].kind) /\ rooms[i].rotation \in 0 .. 3
    BY <2>1 DEF Rooms, KindIds, InKit
  <2> QED
    BY <2>2, FootprintIsBox
<1>3. \A i \in 1 .. Len(rooms) : \A j \in 1 .. i - 1 : j \in 1 .. Len(rooms)
  BY <1>1
<1> QED
  BY <1>2, <1>3 DEF BoxesApart, RoomsApart

(* layout.ts:11: nothing overlaps. Whatever the kit and however many rooms *)
(* are asked for, no room of a plan stands in the core or in another room. *)
THEOREM NothingOverlaps ==
  ASSUME NEW k, IsKit(k), NEW rooms \in Nat
  PROVE  RoomsApart(k, PlanFloor(k, rooms))
BY PlannedApart, PlanFloorType, BoxesAreRooms

Extends(longer, shorter) ==
  /\ Len(shorter) <= Len(longer)
  /\ \A i \in 1 .. Len(shorter) : longer[i] = shorter[i]

LEMMA AdvanceExtends ==
  ASSUME NEW k, IsKit(k), NEW rooms, NEW plan \in Plans(k), NEW blocks \in Seq(Rooms(KindIds(k))),
         Extends(plan.blocks, blocks)
  PROVE  Extends(Advance(k, rooms, plan).blocks, blocks)
<1> DEFINE next == Advance(k, rooms, plan)
<1>0. plan.blocks \in Seq(Rooms(KindIds(k))) /\ Len(plan.blocks) \in Nat /\ Len(blocks) \in Nat
  BY LenProperties DEF Plans
<1>1. next.blocks = plan.blocks \/ \E room \in Rooms(KindIds(k)) : next.blocks = Append(plan.blocks, room)
  BY AdvanceSteps DEF AddsRoom
<1> HIDE DEF next
<1>2. ASSUME NEW room \in Rooms(KindIds(k)), next.blocks = Append(plan.blocks, room)
      PROVE  Extends(next.blocks, blocks)
  <2>1. /\ Len(next.blocks) = Len(plan.blocks) + 1
        /\ \A i \in 1 .. Len(plan.blocks) : next.blocks[i] = plan.blocks[i]
    BY <1>0, <1>2, AppendProperties
  <2>2. \A i \in 1 .. Len(blocks) : i \in 1 .. Len(plan.blocks)
    BY <1>0 DEF Extends
  <2> QED
    BY <2>1, <2>2, <1>0 DEF Extends
<1>3. Extends(next.blocks, blocks)
  BY <1>1, <1>2
<1> QED
  BY <1>3 DEF next

(* Two plans of one kit are built alike until the smaller one has all its  *)
(* rooms.                                                                  *)
Alike(rooms, small, large) ==
  \/ small = large
  \/ Len(small.blocks) = rooms /\ Extends(large.blocks, small.blocks)

LEMMA PlansBuildAlike ==
  ASSUME NEW k, IsKit(k), NEW r \in Nat, NEW s \in Nat, r <= s, NEW n \in Nat
  PROVE  Alike(r, After(k, r)[n], After(k, s)[n])
<1> DEFINE small == After(k, r)
           large == After(k, s)
           T == {m \in Nat : ~Alike(r, small[m], large[m])}
<1>0. /\ small \in [Nat -> Plans(k)] /\ small[0] = Start(k)
      /\ \A m \in Nat : small[m + 1] = Advance(k, r, small[m])
      /\ large \in [Nat -> Plans(k)] /\ large[0] = Start(k)
      /\ \A m \in Nat : large[m + 1] = Advance(k, s, large[m])
  BY AfterSteps
<1>1. \A m \in Nat : Len(small[m].blocks) <= r
  BY AlwaysBuilding DEF Building
<1> HIDE DEF small, large
<1>2. T = {}
  <2> SUFFICES ASSUME T # {} PROVE FALSE
    OBVIOUS
  <2>1. PICK m \in T : \A l \in T : m <= l
    <3>1. T \subseteq Nat
      OBVIOUS
    <3> HIDE DEF T
    <3> QED BY <3>1, LeastNumber
  <2>2. m # 0
    BY <1>0, <2>1 DEF Alike
  <2>3. m \in Nat /\ m - 1 \in Nat /\ ~(m <= m - 1) /\ (m - 1) + 1 = m
    BY <2>2
  <2>4. m - 1 \notin T
    <3> HIDE DEF T
    <3> QED BY <2>1, <2>3
  <2> DEFINE p == small[m - 1]
             q == large[m - 1]
  <2>5. Alike(r, p, q)
    BY <2>3, <2>4
  <2>6. small[m] = Advance(k, r, p) /\ large[m] = Advance(k, s, q)
    BY <2>3, <1>0
  <2>7. p \in Plans(k) /\ q \in Plans(k) /\ Len(p.blocks) <= r
    BY <2>3, <1>0, <1>1
  <2> HIDE DEF p, q
  <2>8. /\ p.blocks \in Seq(Rooms(KindIds(k))) /\ Len(p.blocks) \in Nat
        /\ Len(p.frontier) \in Nat /\ p.cursor \in Nat
    BY <2>7, LenProperties DEF Plans
  <2>9. CASE Len(p.blocks) = r
    <3>1. Advance(k, r, p) = p
      BY <2>8, <2>9 DEF Advance
    <3>2. Extends(q.blocks, p.blocks)
      BY <2>5, <2>8 DEF Alike, Extends
    <3>3. Extends(Advance(k, s, q).blocks, p.blocks)
      BY <3>2, <2>7, <2>8, AdvanceExtends
    <3>4. Alike(r, small[m], large[m])
      BY <3>1, <3>3, <2>6, <2>9 DEF Alike
    <3> QED
      BY <3>4, <2>1
  <2>10. CASE Len(p.blocks) # r
    <3>1. p = q
      BY <2>5, <2>10 DEF Alike
    <3>2. Len(p.blocks) < r /\ Len(p.blocks) < s
      BY <2>7, <2>8, <2>10
    <3>3. Advance(k, r, p) = Advance(k, s, q)
      BY <3>1, <3>2 DEF Advance
    <3>4. Alike(r, small[m], large[m])
      BY <3>3, <2>6 DEF Alike
    <3> QED
      BY <3>4, <2>1
  <2> QED
    BY <2>9, <2>10
<1> QED
  BY <1>2 DEF small, large

(* layout.ts:226: the prefix is stable. A plan of more rooms begins with   *)
(* the plan of fewer, and is that plan if there was no place for those.    *)
THEOREM ThePrefixIsStable ==
  ASSUME NEW k, IsKit(k), NEW r \in Nat, NEW s \in Nat, r <= s
  PROVE  /\ Extends(PlanFloor(k, s), PlanFloor(k, r))
         /\ Len(PlanFloor(k, r)) # r => PlanFloor(k, s) = PlanFloor(k, r)
<1> DEFINE a == LastStep(k, r)
           b == LastStep(k, s)
<1>1. a \in Nat /\ b \in Nat /\ a <= b
  BY LastStepType
<1>2. After(k, r)[b] = After(k, r)[a]
  <2>1. Finished(r, After(k, r)[a])
    BY TheLoopEnds
  <2> HIDE DEF a, b
  <2> QED BY <1>1, <2>1, NothingComesAfter
<1>3. Alike(r, After(k, r)[b], After(k, s)[b])
  <2> HIDE DEF a, b
  <2> QED BY <1>1, PlansBuildAlike
<1>4. PlanFloor(k, r) = After(k, r)[b].blocks /\ PlanFloor(k, s) = After(k, s)[b].blocks
  BY <1>2, PlanFloorIsAfter
<1>5. PlanFloor(k, r) \in Seq(Rooms(KindIds(k))) /\ Len(PlanFloor(k, r)) \in Nat
  BY PlanFloorType, LenProperties
<1> QED
  BY <1>3, <1>4, <1>5 DEF Alike, Extends

(* Every room of the list is of a kind of the kit, and of those that are   *)
(* none stands in the core or in another.                                  *)
AllInKit(k, rooms) == \A i \in 1 .. Len(rooms) : InKit(k, rooms[i].kind)

ClearIn(k, rooms) ==
  \A i \in 1 .. Len(rooms) : InKit(k, rooms[i].kind) =>
    /\ ~Overlaps(BoxOf(k, rooms[i]), CoreBox(k))
    /\ \A j \in 1 .. i - 1 :
         InKit(k, rooms[j].kind) => ~Overlaps(BoxOf(k, rooms[i]), BoxOf(k, rooms[j]))

AnyRoom == Rooms(UNION {KindIds(k) : k \in Kits})

(* A floor as any kit may find it.                                         *)
Sound(rooms) ==
  /\ rooms \in Seq(AnyRoom)
  /\ \A i \in 1 .. Len(rooms), j \in 1 .. Len(rooms) : rooms[i].id = rooms[j].id => i = j
  /\ \A k \in Planned : ClearIn(k, rooms)

(* The kit on disk is one of the kits, with its plans.                     *)
LEMMA PlannedIs ==
  ASSUME NEW p \in Planned
  PROVE  \E k \in Kits :
           /\ IsKit(k) /\ p.core = k.core /\ p.kinds = k.kinds
           /\ \A n \in 0 .. MaxRooms : p.plans[n] = PlanFloor(k, n)
<1>1. PICK k \in Kits :
        p = [core |-> k.core, kinds |-> k.kinds,
             plans |-> [n \in 0 .. MaxRooms |-> PlanFloor(k, n)]]
  BY DEF Planned
<1>2. IsKit(k)
  BY KitsAssumption
<1> QED
  BY <1>1, <1>2

(* Kits that are cut alike put a room in the same place.                   *)
LEMMA BoxesAgree ==
  ASSUME NEW k, IsKit(k), NEW other, IsKit(other), SameCut(k, other),
         NEW room, InKit(k, room.kind), InKit(other, room.kind)
  PROVE  BoxOf(k, room) = BoxOf(other, room)
<1> DEFINE a == k.kinds[KindNamed(k, room.kind)]
           b == other.kinds[KindNamed(other, room.kind)]
<1>1. a.width = b.width /\ a.depth = b.depth
  BY KindsOfAKit DEF SameCut
<1> HIDE DEF a, b
<1>2. BlockBox(room, a) = BlockBox(room, b)
  BY <1>1 DEF BlockBox
<1> QED
  BY <1>2 DEF BoxOf, a, b

LEMMA PlannedCut ==
  ASSUME NEW p \in Planned, NEW k \in Kits
  PROVE  SameCut(k, p) /\ IsKit(p)
<1>1. PICK m \in Kits : IsKit(m) /\ p.core = m.core /\ p.kinds = m.kinds
  BY PlannedIs
<1>2. SameCut(k, m)
  BY KitsAssumption
<1> QED
  BY <1>1, <1>2 DEF SameCut, IsKit, CoreBox

LEMMA PlansAreSound ==
  ASSUME NEW p \in Planned, NEW n \in 0 .. MaxRooms
  PROVE  Sound(p.plans[n]) /\ AllInKit(p, p.plans[n]) /\ Len(p.plans[n]) <= n
<1>0. MaxRooms \in Nat /\ n \in Nat
  BY OrgFloorAssumption
<1>1. PICK k \in Kits :
        /\ IsKit(k) /\ p.core = k.core /\ p.kinds = k.kinds
        /\ p.plans[n] = PlanFloor(k, n)
  BY PlannedIs
<1> DEFINE rooms == PlanFloor(k, n)
<1>2. /\ rooms \in Seq(Rooms(KindIds(k))) /\ Len(rooms) <= n
      /\ \A i \in 1 .. Len(rooms) : rooms[i].id = i
  BY <1>0, <1>1, PlanFloorType
<1>3. BoxesApart(k, rooms)
  BY <1>0, <1>1, PlannedApart
<1> HIDE DEF rooms
<1>4. ASSUME NEW i \in 1 .. Len(rooms) PROVE InKit(k, rooms[i].kind)
  <2>1. rooms[i] \in Rooms(KindIds(k))
    BY <1>2, ElementOfSeq
  <2> QED
    BY <2>1 DEF Rooms, KindIds, InKit
<1>5. AllInKit(p, rooms)
  BY <1>1, <1>4 DEF AllInKit, InKit
<1>6. rooms \in Seq(AnyRoom)
  <2>1. Rooms(KindIds(k)) \subseteq AnyRoom
    BY DEF AnyRoom, Rooms
  <2> QED
    BY <1>2, <2>1, SeqMonotonic
<1>7. ASSUME NEW q \in Planned PROVE ClearIn(q, rooms)
  <2>1. SameCut(k, q) /\ IsKit(q)
    BY PlannedCut
  <2>2. ASSUME NEW i \in 1 .. Len(rooms), InKit(q, rooms[i].kind)
        PROVE  BoxOf(q, rooms[i]) = BoxOf(k, rooms[i])
    BY <1>1, <1>4, <2>1, <2>2, BoxesAgree
  <2>3. CoreBox(q) = CoreBox(k)
    BY <2>1 DEF SameCut
  <2>4. \A i \in 1 .. Len(rooms) : \A j \in 1 .. i - 1 : j \in 1 .. Len(rooms)
    BY <1>2, LenProperties
  <2> QED
    BY <1>3, <2>2, <2>3, <2>4 DEF ClearIn, BoxesApart
<1> QED
  BY <1>1, <1>2, <1>5, <1>6, <1>7 DEF Sound, rooms

(* What pruning has kept of the first n rooms: known ones, in their order, *)
(* and all of them if all are known.                                       *)
Kept(k, rooms) ==
  CHOOSE kept : kept = [n \in 0 .. Len(rooms) |->
                          IF n = 0 THEN <<>>
                          ELSE IF InKit(k, rooms[n].kind) THEN Append(kept[n - 1], rooms[n])
                          ELSE kept[n - 1]]

PickedFrom(k, rooms, picked, n) ==
  /\ picked \in Seq(AnyRoom)
  /\ \A i \in 1 .. Len(picked) :
       InKit(k, picked[i].kind) /\ \E a \in 1 .. n : picked[i] = rooms[a]
  /\ \A i \in 1 .. Len(picked) : \A j \in 1 .. i - 1 :
       \E a \in 1 .. n : \E b \in 1 .. a - 1 : picked[i] = rooms[a] /\ picked[j] = rooms[b]
  /\ AllInKit(k, rooms) => Len(picked) = n /\ \A i \in 1 .. n : picked[i] = rooms[i]

LEMMA PrunedIsKept == \A k, rooms : Pruned(k, rooms) = Kept(k, rooms)[Len(rooms)]
BY DEF Pruned, Kept

LEMMA KeptSteps ==
  ASSUME NEW k, NEW rooms \in Seq(AnyRoom)
  PROVE  /\ Kept(k, rooms)[0] = <<>>
         /\ \A n \in 1 .. Len(rooms) :
              Kept(k, rooms)[n] =
                IF InKit(k, rooms[n].kind) THEN Append(Kept(k, rooms)[n - 1], rooms[n])
                ELSE Kept(k, rooms)[n - 1]
<1> DEFINE D == Seq(AnyRoom)
           takes(n) == n \in 1 .. Len(rooms) /\ InKit(k, rooms[n].kind)
           step == [n \in Nat |-> [q \in D |-> IF takes(n) THEN Append(q, rooms[n]) ELSE q]]
           Is(f) == f = [n \in 0 .. Len(rooms) |->
                           IF n = 0 THEN <<>>
                           ELSE IF InKit(k, rooms[n].kind) THEN Append(f[n - 1], rooms[n])
                           ELSE f[n - 1]]
<1>0. Len(rooms) \in Nat
  BY LenProperties
<1>1. <<>> \in D /\ step \in [Nat -> [D -> D]]
  <2>1. ASSUME NEW n \in Nat, NEW q \in D
        PROVE  (IF takes(n) THEN Append(q, rooms[n]) ELSE q) \in D
    BY ElementOfSeq, AppendProperties
  <2> HIDE DEF takes
  <2> QED BY <2>1, EmptySeq
<1>2. PICK f : IteratesForever(D, <<>>, step, f)
  <2> HIDE DEF step, D
  <2> QED BY <1>1, IteratesOn
<1> DEFINE g == [n \in 0 .. Len(rooms) |-> f[n]]
<1>3. Is(g)
  <2>1. ASSUME NEW n \in 0 .. Len(rooms)
        PROVE  f[n] = IF n = 0 THEN <<>>
                      ELSE IF InKit(k, rooms[n].kind) THEN Append(g[n - 1], rooms[n])
                      ELSE g[n - 1]
    <3>1. CASE n = 0
      BY <3>1, <1>2 DEF IteratesForever
    <3>2. CASE n # 0
      <4>1. /\ n - 1 \in Nat /\ (n - 1) + 1 = n /\ n \in 1 .. Len(rooms) /\ n \in Nat
            /\ n - 1 \in 0 .. Len(rooms)
        BY <3>2, <1>0
      <4>2. f[n] = step[n][f[n - 1]] /\ f[n - 1] \in D
        BY <4>1, <1>2 DEF IteratesForever
      <4>3. f[n] = IF takes(n) THEN Append(f[n - 1], rooms[n]) ELSE f[n - 1]
        BY <4>1, <4>2
      <4>4. g[n - 1] = f[n - 1]
        BY <4>1
      <4> HIDE DEF g
      <4> QED BY <3>2, <4>1, <4>3, <4>4
    <3> QED
      BY <3>1, <3>2
  <2>2. g = [n \in 0 .. Len(rooms) |-> f[n]]
    OBVIOUS
  <2> HIDE DEF g
  <2> QED BY <2>1, <2>2
<1>4. Is(Kept(k, rooms))
  <2> HIDE DEF g
  <2> QED BY <1>3 DEF Kept
<1> DEFINE kept == Kept(k, rooms)
<1> HIDE DEF kept
<1>5. kept = [n \in 0 .. Len(rooms) |->
                IF n = 0 THEN <<>>
                ELSE IF InKit(k, rooms[n].kind) THEN Append(kept[n - 1], rooms[n])
                ELSE kept[n - 1]]
  BY <1>4 DEF kept
<1>6. ASSUME NEW n \in 1 .. Len(rooms)
      PROVE  kept[n] = IF InKit(k, rooms[n].kind) THEN Append(kept[n - 1], rooms[n])
                       ELSE kept[n - 1]
  <2>1. n \in 0 .. Len(rooms) /\ n # 0
    BY <1>0
  <2> HIDE DEF Is
  <2> QED BY <1>5, <2>1
<1>7. kept[0] = <<>>
  BY <1>5, <1>0
<1> QED
  BY <1>6, <1>7 DEF kept

LEMMA PickingGoesOn ==
  ASSUME NEW k, NEW rooms \in Seq(AnyRoom), NEW n \in Nat, n + 1 \in 1 .. Len(rooms),
         NEW q, PickedFrom(k, rooms, q, n)
  PROVE  /\ InKit(k, rooms[n + 1].kind) => PickedFrom(k, rooms, Append(q, rooms[n + 1]), n + 1)
         /\ ~InKit(k, rooms[n + 1].kind) => PickedFrom(k, rooms, q, n + 1)
<1>0. q \in Seq(AnyRoom) /\ Len(q) \in Nat /\ rooms[n + 1] \in AnyRoom
  BY LenProperties, ElementOfSeq DEF PickedFrom
<1>1. ASSUME InKit(k, rooms[n + 1].kind)
      PROVE  PickedFrom(k, rooms, Append(q, rooms[n + 1]), n + 1)
  <2> DEFINE r == Append(q, rooms[n + 1])
  <2>1. /\ r \in Seq(AnyRoom) /\ Len(r) = Len(q) + 1
        /\ \A i \in 1 .. Len(q) : r[i] = q[i]
        /\ r[Len(q) + 1] = rooms[n + 1]
    BY <1>0, AppendProperties
  <2> HIDE DEF r
  <2>2. ASSUME NEW i \in 1 .. Len(r)
        PROVE  InKit(k, r[i].kind) /\ \E a \in 1 .. n + 1 : r[i] = rooms[a]
    <3>1. CASE i = Len(q) + 1
      <4>1. n + 1 \in 1 .. n + 1
        OBVIOUS
      <4> QED
        BY <3>1, <4>1, <2>1, <1>1
    <3>2. CASE i # Len(q) + 1
      <4>1. i \in 1 .. Len(q) /\ r[i] = q[i]
        BY <3>2, <2>1, <1>0
      <4>2. InKit(k, q[i].kind) /\ \E a \in 1 .. n : q[i] = rooms[a]
        BY <4>1 DEF PickedFrom
      <4>3. \A a \in 1 .. n : a \in 1 .. n + 1
        OBVIOUS
      <4> QED
        BY <4>1, <4>2, <4>3
    <3> QED
      BY <3>1, <3>2
  <2>3. ASSUME NEW i \in 1 .. Len(r), NEW j \in 1 .. i - 1
        PROVE  \E a \in 1 .. n + 1 : \E b \in 1 .. a - 1 : r[i] = rooms[a] /\ r[j] = rooms[b]
    <3>1. CASE i = Len(q) + 1
      <4>1. j \in 1 .. Len(q) /\ r[j] = q[j]
        BY <3>1, <2>1, <1>0
      <4>2. PICK b \in 1 .. n : q[j] = rooms[b]
        BY <4>1 DEF PickedFrom
      <4>3. n + 1 \in 1 .. n + 1 /\ b \in 1 .. (n + 1) - 1
        OBVIOUS
      <4> QED
        BY <3>1, <4>1, <4>2, <4>3, <2>1
    <3>2. CASE i # Len(q) + 1
      <4>1. i \in 1 .. Len(q) /\ r[i] = q[i] /\ j \in 1 .. Len(q) /\ r[j] = q[j]
        BY <3>2, <2>1, <1>0
      <4>2. PICK a \in 1 .. n : \E b \in 1 .. a - 1 : q[i] = rooms[a] /\ q[j] = rooms[b]
        BY <4>1 DEF PickedFrom
      <4>3. a \in 1 .. n + 1
        OBVIOUS
      <4> QED
        BY <4>1, <4>2, <4>3
    <3> QED
      BY <3>1, <3>2
  <2>4. ASSUME AllInKit(k, rooms) PROVE Len(r) = n + 1 /\ \A i \in 1 .. n + 1 : r[i] = rooms[i]
    <3>1. Len(q) = n /\ \A i \in 1 .. n : q[i] = rooms[i]
      BY <2>4 DEF PickedFrom
    <3>2. Len(r) = n + 1
      BY <3>1, <2>1
    <3>3. ASSUME NEW i \in 1 .. n + 1 PROVE r[i] = rooms[i]
      <4>1. CASE i = n + 1
        BY <4>1, <3>1, <2>1
      <4>2. CASE i # n + 1
        <5>1. i \in 1 .. n
          BY <4>2
        <5> QED
          BY <5>1, <3>1, <2>1
      <4> QED
        BY <4>1, <4>2
    <3> QED
      BY <3>2, <3>3
  <2>5. PickedFrom(k, rooms, r, n + 1)
    BY <2>1, <2>2, <2>3, <2>4 DEF PickedFrom
  <2> QED
    BY <2>5 DEF r
<1>2. ASSUME ~InKit(k, rooms[n + 1].kind) PROVE PickedFrom(k, rooms, q, n + 1)
  <2>1. ~AllInKit(k, rooms)
    BY <1>2 DEF AllInKit
  <2>2. \A a \in 1 .. n : a \in 1 .. n + 1
    OBVIOUS
  <2> QED
    BY <2>1, <2>2 DEF PickedFrom
<1> QED
  BY <1>1, <1>2

LEMMA PrunedIsPicked ==
  ASSUME NEW k, NEW rooms \in Seq(AnyRoom)
  PROVE  PickedFrom(k, rooms, Pruned(k, rooms), Len(rooms))
<1> DEFINE kept == Kept(k, rooms)
           T == {n \in Nat : n <= Len(rooms) /\ ~PickedFrom(k, rooms, kept[n], n)}
<1>0. Len(rooms) \in Nat
  BY LenProperties
<1>1. /\ kept[0] = <<>>
      /\ \A n \in 1 .. Len(rooms) :
           kept[n] = IF InKit(k, rooms[n].kind) THEN Append(kept[n - 1], rooms[n])
                     ELSE kept[n - 1]
  BY KeptSteps
<1> HIDE DEF kept
<1>2. T = {}
  <2> SUFFICES ASSUME T # {} PROVE FALSE
    OBVIOUS
  <2>1. PICK n \in T : \A m \in T : n <= m
    <3>1. T \subseteq Nat
      OBVIOUS
    <3> HIDE DEF T
    <3> QED BY <3>1, LeastNumber
  <2>2. CASE n = 0
    <3>1. PickedFrom(k, rooms, <<>>, 0)
      <4>1. <<>> \in Seq(AnyRoom) /\ Len(<<>>) = 0
        BY EmptySeq
      <4> QED
        BY <4>1 DEF PickedFrom
    <3> QED
      BY <2>1, <2>2, <3>1, <1>1
  <2>3. CASE n # 0
    <3>1. /\ n \in Nat /\ n - 1 \in Nat /\ ~(n <= n - 1) /\ (n - 1) + 1 = n
          /\ n \in 1 .. Len(rooms) /\ n - 1 <= Len(rooms)
      BY <2>1, <2>3, <1>0
    <3>2. n - 1 \notin T
      <4> HIDE DEF T
      <4> QED BY <2>1, <3>1
    <3>3. PickedFrom(k, rooms, kept[n - 1], n - 1)
      BY <3>1, <3>2
    <3>4. PickedFrom(k, rooms, kept[n], n)
      BY <3>1, <3>3, <1>1, PickingGoesOn
    <3> QED
      BY <3>4, <2>1
  <2> QED
    BY <2>2, <2>3
<1>3. PickedFrom(k, rooms, kept[Len(rooms)], Len(rooms))
  BY <1>0, <1>2
<1> QED
  BY <1>3, PrunedIsKept DEF kept

LEMMA PrunedIsSound ==
  ASSUME NEW k, NEW rooms, Sound(rooms)
  PROVE  Sound(Pruned(k, rooms)) /\ AllInKit(k, Pruned(k, rooms))
<1> DEFINE q == Pruned(k, rooms)
<1>0. rooms \in Seq(AnyRoom) /\ Len(rooms) \in Nat
  BY LenProperties DEF Sound
<1>1. PickedFrom(k, rooms, q, Len(rooms))
  BY <1>0, PrunedIsPicked
<1> HIDE DEF q
<1>2. q \in Seq(AnyRoom) /\ Len(q) \in Nat /\ AllInKit(k, q)
  BY <1>1, LenProperties DEF PickedFrom, AllInKit
<1>3. \A i \in 1 .. Len(q) : \E a \in 1 .. Len(rooms) : q[i] = rooms[a]
  BY <1>1 DEF PickedFrom
<1>4. \A i \in 1 .. Len(q) : \A j \in 1 .. i - 1 :
        \E a \in 1 .. Len(rooms) : \E b \in 1 .. a - 1 : q[i] = rooms[a] /\ q[j] = rooms[b]
  BY <1>1 DEF PickedFrom
<1>5. ASSUME NEW i \in 1 .. Len(q), NEW j \in 1 .. i - 1 PROVE q[i].id # q[j].id
  <2>1. PICK a \in 1 .. Len(rooms) : \E b \in 1 .. a - 1 : q[i] = rooms[a] /\ q[j] = rooms[b]
    BY <1>4
  <2>2. PICK b \in 1 .. a - 1 : q[i] = rooms[a] /\ q[j] = rooms[b]
    BY <2>1
  <2>3. b \in 1 .. Len(rooms) /\ a # b
    BY <1>0
  <2> QED
    BY <2>2, <2>3 DEF Sound
<1>6. ASSUME NEW i \in 1 .. Len(q), NEW j \in 1 .. Len(q), q[i].id = q[j].id PROVE i = j
  <2>1. CASE i < j
    BY <2>1, <1>2, <1>5, <1>6
  <2>2. CASE j < i
    BY <2>2, <1>2, <1>5, <1>6
  <2> QED
    BY <2>1, <2>2
<1>7. ASSUME NEW p \in Planned PROVE ClearIn(p, q)
  <2>1. ClearIn(p, rooms)
    BY DEF Sound
  <2>2. ASSUME NEW i \in 1 .. Len(q), InKit(p, q[i].kind)
        PROVE  ~Overlaps(BoxOf(p, q[i]), CoreBox(p))
    BY <2>1, <2>2, <1>3 DEF ClearIn
  <2>3. ASSUME NEW i \in 1 .. Len(q), InKit(p, q[i].kind),
               NEW j \in 1 .. i - 1, InKit(p, q[j].kind)
        PROVE  ~Overlaps(BoxOf(p, q[i]), BoxOf(p, q[j]))
    <3>1. PICK a \in 1 .. Len(rooms) : \E b \in 1 .. a - 1 : q[i] = rooms[a] /\ q[j] = rooms[b]
      BY <1>4
    <3>2. PICK b \in 1 .. a - 1 : q[i] = rooms[a] /\ q[j] = rooms[b]
      BY <3>1
    <3> QED
      BY <3>2, <2>1, <2>3 DEF ClearIn
  <2> QED
    BY <2>2, <2>3 DEF ClearIn
<1> QED
  BY <1>2, <1>6, <1>7 DEF Sound, q

(* Min and Max give what they are named for.                               *)
LEMMA MinIsLeast ==
  ASSUME NEW S, S \subseteq Nat, S # {}
  PROVE  Min(S) \in S /\ \A n \in S : Min(S) <= n
BY LeastNumber DEF Min

LEMMA MaxIsGreatest ==
  ASSUME NEW m \in Nat, NEW S, S \subseteq 0 .. m, S # {}
  PROVE  Max(S) \in S /\ \A n \in S : n <= Max(S)
<1> DEFINE T == {m - n : n \in S}
<1>1. PICK t \in T : \A u \in T : t <= u
  <2>1. \A n \in 0 .. m : m - n \in Nat
    OBVIOUS
  <2>2. T \subseteq Nat /\ T # {}
    BY <2>1
  <2> HIDE DEF T
  <2> QED BY <2>2, LeastNumber
<1>2. PICK n \in S : t = m - n
  OBVIOUS
<1>3. ASSUME NEW l \in S PROVE n >= l
  <2>1. m - n <= m - l /\ l \in Nat /\ n \in Nat
    BY <1>1, <1>2
  <2> QED
    BY <2>1
<1>4. \E x \in S : \A y \in S : x >= y
  BY <1>3
<1>5. Max(S) \in S /\ \A y \in S : Max(S) >= y
  BY <1>4 DEF Max
<1> QED
  BY <1>5

(* The plan of the kit for so many rooms, or for as many as a floor has.   *)
LEMMA PlanOfIs ==
  ASSUME NEW p, NEW n \in Nat
  PROVE  /\ \E m \in 0 .. MaxRooms : m <= n /\ PlanOf(p, n) = p.plans[m]
         /\ n <= MaxRooms => PlanOf(p, n) = p.plans[n]
<1>0. MaxRooms \in Nat
  BY OrgFloorAssumption
<1> DEFINE S == {n, MaxRooms}
<1>1. Min(S) \in S /\ \A i \in S : Min(S) <= i
  <2>1. S \subseteq Nat /\ S # {}
    BY <1>0
  <2> HIDE DEF S
  <2> QED BY <2>1, MinIsLeast
<1>2. Min(S) \in 0 .. MaxRooms /\ Min(S) <= n /\ (n <= MaxRooms => Min(S) = n)
  BY <1>0, <1>1
<1> HIDE DEF S
<1>3. PlanOf(p, n) = p.plans[Min(S)]
  BY DEF PlanOf, S
<1> QED
  BY <1>2, <1>3

(* Growing leaves a floor alone or gives a longer plan.                    *)
LEMMA LongerIs ==
  ASSUME NEW p, NEW rooms, Len(rooms) \in Nat
  PROVE  /\ Longer(p, rooms) \subseteq 1 .. MaxRooms /\ MaxRooms \in Nat
         /\ \A n \in Longer(p, rooms) : PlanOf(p, n) = p.plans[n]
         /\ \A n \in Longer(p, rooms) : n > Len(rooms) /\ Len(p.plans[n]) = n
<1>0. MaxRooms \in Nat
  BY OrgFloorAssumption
<1>1. ASSUME NEW n \in Longer(p, rooms)
      PROVE  n \in 1 .. MaxRooms /\ n > Len(rooms) /\ Len(PlanOf(p, n)) = n
  BY <1>0 DEF Longer
<1>2. \A n \in Longer(p, rooms) : PlanOf(p, n) = p.plans[n]
  BY <1>0, <1>1, PlanOfIs
<1> QED
  BY <1>0, <1>1, <1>2

LEMMA GrownIs ==
  ASSUME NEW p, NEW rooms, Len(rooms) \in Nat, NEW target
  PROVE  \/ /\ Grown(p, rooms, target) = rooms
            /\ Enough(p, rooms, target) \/ Longer(p, rooms) = {}
         \/ \E n \in Longer(p, rooms) :
              /\ Grown(p, rooms, target) = p.plans[n]
              /\ \/ Enough(p, p.plans[n], target)
                 \/ \A m \in Longer(p, rooms) : m <= n
<1> DEFINE longer == Longer(p, rooms)
           seating == {n \in longer : Enough(p, PlanOf(p, n), target)}
<1>1. /\ longer \subseteq 1 .. MaxRooms /\ MaxRooms \in Nat
      /\ \A n \in longer : PlanOf(p, n) = p.plans[n]
  BY LongerIs
<1>2. CASE Enough(p, rooms, target) \/ longer = {}
  BY <1>2 DEF Grown
<1>3. CASE ~(Enough(p, rooms, target) \/ longer = {}) /\ seating # {}
  <2>1. Grown(p, rooms, target) = PlanOf(p, Min(seating))
    BY <1>3 DEF Grown
  <2>2. seating \subseteq Nat
    BY <1>1
  <2>3. Min(seating) \in seating
    <3> HIDE DEF seating
    <3> QED BY <1>3, <2>2, MinIsLeast
  <2> QED
    BY <2>1, <2>3, <1>1
<1>4. CASE ~(Enough(p, rooms, target) \/ longer = {}) /\ seating = {}
  <2>1. Grown(p, rooms, target) = PlanOf(p, Max(longer))
    BY <1>4 DEF Grown
  <2>2. longer \subseteq 0 .. MaxRooms
    BY <1>1
  <2>3. Max(longer) \in longer /\ \A m \in longer : m <= Max(longer)
    <3> HIDE DEF longer
    <3> QED BY <1>1, <1>4, <2>2, MaxIsGreatest
  <2> QED
    BY <2>1, <2>3, <1>1
<1> QED
  BY <1>2, <1>3, <1>4

LEMMA GrownIsSound ==
  ASSUME NEW p \in Planned, NEW rooms, Sound(rooms), AllInKit(p, rooms), NEW target
  PROVE  Sound(Grown(p, rooms, target)) /\ AllInKit(p, Grown(p, rooms, target))
<1>1. Len(rooms) \in Nat
  BY LenProperties DEF Sound
<1>2. ASSUME NEW n \in Longer(p, rooms) PROVE n \in 0 .. MaxRooms
  BY <1>1, LongerIs
<1>3. \A n \in Longer(p, rooms) : Sound(p.plans[n]) /\ AllInKit(p, p.plans[n])
  BY <1>2, PlansAreSound
<1> QED
  BY <1>1, <1>3, GrownIs

LEMMA PlanOfIsSound ==
  ASSUME NEW p \in Planned, NEW n \in Nat
  PROVE  Sound(PlanOf(p, n)) /\ AllInKit(p, PlanOf(p, n))
BY PlanOfIs, PlansAreSound

LEMMA ReconciledIsSound ==
  ASSUME NEW p \in Planned, NEW rooms, Sound(rooms), NEW target
  PROVE  Sound(Reconciled(p, rooms, target)) /\ AllInKit(p, Reconciled(p, rooms, target))
BY PrunedIsSound, GrownIsSound DEF Reconciled

LEMMA NothingIsSound == Sound(<<>>)
<1>1. <<>> \in Seq(AnyRoom) /\ Len(<<>>) = 0
  BY EmptySeq
<1> QED
  BY <1>1 DEF Sound, ClearIn

-----------------------------------------------------------------------------
(* What holds of the floor at all times.                                   *)
FloorsStand ==
  /\ kit \in Planned
  /\ Sound(layout) /\ AllInKit(kit, layout)
  /\ Sound(saved)
  /\ IsFiniteSet(DOMAIN roles)

LEMMA FloorsStandFirst == FloorInit => FloorsStand
<1> SUFFICES ASSUME FloorInit PROVE FloorsStand
  OBVIOUS
<1>1. kit \in Planned /\ roles = FirstRoles /\ saved = <<>>
  BY DEF FloorInit
<1>2. layout = Reconciled(kit, <<>>, Cardinality(DOMAIN FirstRoles))
  BY DEF FloorInit
<1>3. Sound(layout) /\ AllInKit(kit, layout)
  BY <1>1, <1>2, NothingIsSound, ReconciledIsSound
<1> QED
  BY <1>1, <1>3, NothingIsSound, OrgFloorAssumption DEF FloorsStand

LEMMA CommitsStand ==
  ASSUME FloorsStand, NEW rooms, NEW chart, Commit(rooms, chart),
         Sound(rooms), AllInKit(kit, rooms), IsFiniteSet(DOMAIN chart)
  PROVE  FloorsStand'
<1>1. layout' = rooms /\ saved' = rooms /\ roles' = chart /\ kit' = kit
  BY DEF Commit
<1>2. kit' \in Planned
  BY <1>1 DEF FloorsStand
<1>3. IsFiniteSet(DOMAIN roles')
  BY <1>1
<1>4. Sound(layout') /\ AllInKit(kit', layout') /\ Sound(saved')
  BY <1>1
<1> QED
  BY <1>2, <1>3, <1>4 DEF FloorsStand, Planned, Sound, AnyRoom

LEMMA FloorsStandAfterwards == FloorsStand /\ [FloorNext]_floorVars => FloorsStand'
<1> SUFFICES ASSUME FloorsStand, [FloorNext]_floorVars PROVE FloorsStand'
  OBVIOUS
<1>0. /\ kit \in Planned /\ Sound(layout) /\ AllInKit(kit, layout) /\ Sound(saved)
      /\ IsFiniteSet(DOMAIN roles) /\ Len(layout) \in Nat
  BY LenProperties DEF FloorsStand, Sound
<1>1. ASSUME NEW e, NEW boss, NEW asked, Hire(e, boss, asked) PROVE FloorsStand'
  <2> DEFINE grown == Grown(kit, layout, Cardinality(DOMAIN roles) + 1)
             seat == IF asked = NoSeat THEN DeskFor(e, grown) ELSE asked
             chart == [x \in DOMAIN roles \cup {e} |->
                         IF x = e THEN Role(boss, seat) ELSE roles[x]]
  <2>1. Commit(grown, chart)
    BY <1>1 DEF Hire
  <2>2. Sound(grown) /\ AllInKit(kit, grown)
    BY <1>0, GrownIsSound
  <2>3. IsFiniteSet(DOMAIN chart)
    BY <1>0, FS_AddElement
  <2> HIDE DEF grown, chart
  <2> QED BY <2>1, <2>2, <2>3, CommitsStand
<1>2. ASSUME NEW e, Fire(e) PROVE FloorsStand'
  <2> DEFINE chart == [x \in DOMAIN roles \ {e} |-> Reparented(x, e)]
  <2>1. Commit(layout, chart)
    BY <1>2 DEF Fire
  <2>2. IsFiniteSet(DOMAIN chart)
    BY <1>0, FS_RemoveElement
  <2> HIDE DEF chart
  <2> QED BY <2>1, <2>2, <1>0, CommitsStand
<1>3. ASSUME NEW e, NEW seat, SetSeat(e, seat) PROVE FloorsStand'
  <2> DEFINE chart == [roles EXCEPT ![e].seat = seat]
  <2>1. Commit(layout, chart)
    BY <1>3 DEF SetSeat
  <2>2. DOMAIN chart = DOMAIN roles
    OBVIOUS
  <2> HIDE DEF chart
  <2> QED BY <2>1, <2>2, <1>0, CommitsStand
<1>4. CASE AddRoom
  <2> DEFINE planned == PlanOf(kit, Len(layout) + 1)
  <2>1. Commit(planned, roles)
    BY <1>4 DEF AddRoom
  <2>2. Sound(planned) /\ AllInKit(kit, planned)
    BY <1>0, PlanOfIsSound
  <2> HIDE DEF planned
  <2> QED BY <2>1, <2>2, <1>0, CommitsStand
<1>5. CASE RemoveRoom
  <2> DEFINE planned == PlanOf(kit, Len(layout) - 1)
  <2>1. Commit(planned, roles) /\ layout # <<>>
    BY <1>5 DEF RemoveRoom
  <2>2. Len(layout) - 1 \in Nat
    BY <2>1, EmptySeq DEF FloorsStand, Sound
  <2>3. Sound(planned) /\ AllInKit(kit, planned)
    BY <1>0, <2>2, PlanOfIsSound
  <2> HIDE DEF planned
  <2> QED BY <2>1, <2>3, <1>0, CommitsStand
<1>6. ASSUME NEW k \in Planned, Restart(k) PROVE FloorsStand'
  <2>1. /\ kit' = k /\ roles' = roles /\ saved' = saved
        /\ layout' = Reconciled(k, saved, Cardinality(DOMAIN roles))
    BY <1>6 DEF Restart
  <2>2. Sound(layout') /\ AllInKit(kit', layout')
    BY <1>0, <1>6, <2>1, ReconciledIsSound
  <2>3. IsFiniteSet(DOMAIN roles') /\ Sound(saved') /\ kit' \in Planned
    BY <1>0, <1>6, <2>1
  <2> QED
    BY <2>2, <2>3 DEF FloorsStand, Planned, Sound, AnyRoom
<1>7. CASE UNCHANGED floorVars
  BY <1>7 DEF floorVars, FloorsStand, Planned, Sound, AnyRoom
<1> QED
  BY <1>1, <1>2, <1>3, <1>4, <1>5, <1>6, <1>7 DEF FloorNext

LEMMA FloorsStandApart == FloorsStand => RoomsStandApart
<1> SUFFICES ASSUME FloorsStand PROVE RoomsStandApart
  OBVIOUS
<1>1. /\ ClearIn(kit, layout) /\ AllInKit(kit, layout) /\ Len(layout) \in Nat
      /\ layout \in Seq(AnyRoom)
  BY LenProperties DEF FloorsStand, Sound
<1>2. \A i \in 1 .. Len(layout) : \A j \in 1 .. i - 1 : j \in 1 .. Len(layout)
  BY <1>1
<1>3. IsKit(kit)
  BY KitsAssumption, PlannedCut DEF FloorsStand
<1>4. ASSUME NEW i \in 1 .. Len(layout) PROVE Footprint(kit, layout[i]) = BoxOf(kit, layout[i])
  <2>1. layout[i] \in AnyRoom
    BY <1>1, ElementOfSeq
  <2>2. layout[i].rotation \in 0 .. 3 /\ InKit(kit, layout[i].kind)
    BY <1>1, <2>1 DEF AnyRoom, Rooms, AllInKit
  <2> QED
    BY <1>3, <2>2, FootprintIsBox
<1> QED
  BY <1>1, <1>2, <1>4 DEF RoomsStandApart, RoomsApart, ClearIn, AllInKit

(* layout.ts:11 again, of the floors the operator builds: through hirings, *)
(* rooms added and removed, restarts and changes of kit no room stands in  *)
(* the core or in another room.                                            *)
THEOREM FloorsNeverOverlap == FloorSpec => []RoomsStandApart
<1>1. FloorInit => FloorsStand
  BY FloorsStandFirst
<1>2. FloorsStand /\ [FloorNext]_floorVars => FloorsStand'
  BY FloorsStandAfterwards
<1>3. FloorsStand => RoomsStandApart
  BY FloorsStandApart
<1> QED
  BY <1>1, <1>2, <1>3, PTL DEF FloorSpec

OneToOne(f, S) == \A x, y \in S : f[x] = f[y] => x = y

LEMMA ImageIsFinite ==
  ASSUME NEW S, IsFiniteSet(S), NEW f, DOMAIN f = S, f = [x \in S |-> f[x]]
  PROVE  /\ IsFiniteSet({f[x] : x \in S})
         /\ Cardinality({f[x] : x \in S}) <= Cardinality(S)
         /\ OneToOne(f, S) => Cardinality({f[x] : x \in S}) = Cardinality(S)
<1> DEFINE T == {f[x] : x \in S}
<1>1. f \in Surjection(S, T)
  BY DEF Surjection
<1>2. OneToOne(f, S) => f \in Injection(S, T)
  <2>1. f \in [S -> T]
    OBVIOUS
  <2> HIDE DEF T
  <2> QED BY <2>1 DEF Injection, IsInjective, OneToOne
<1> HIDE DEF T
<1>3. IsFiniteSet(T) /\ Cardinality(T) <= Cardinality(S)
  BY <1>1, FS_Surjection
<1>4. f \in Injection(S, T) => Cardinality(T) = Cardinality(S)
  BY <1>1, FS_Surjection
<1> QED
  BY <1>2, <1>3, <1>4 DEF T

(* The desks of a room, and of a floor.                                    *)
LEMMA SeatsOfIs ==
  ASSUME NEW k, IsKit(k), NEW room \in AnyRoom
  PROVE  /\ IsFiniteSet(SeatsOf(k, room))
         /\ \A seat \in SeatsOf(k, room) : \E n \in Nat : seat = <<room.id, n>>
<1>1. CASE ~InKit(k, room.kind)
  BY <1>1, FS_EmptySet DEF SeatsOf
<1>2. CASE InKit(k, room.kind)
  <2> DEFINE n == k.kinds[KindNamed(k, room.kind)].seats
             f == [s \in 1 .. n |-> <<room.id, s>>]
  <2>1. n \in Nat
    BY <1>2, KindsOfAKit DEF IsKit
  <2>2. SeatsOf(k, room) = {<<room.id, s>> : s \in 1 .. n}
    BY <1>2 DEF SeatsOf
  <2> HIDE DEF n
  <2>3. IsFiniteSet(1 .. n)
    BY <2>1, FS_Interval
  <2>4. {f[s] : s \in 1 .. n} = {<<room.id, s>> : s \in 1 .. n}
    OBVIOUS
  <2>5. DOMAIN f = 1 .. n /\ f = [s \in 1 .. n |-> f[s]]
    OBVIOUS
  <2>6. IsFiniteSet({f[s] : s \in 1 .. n})
    <3> HIDE DEF f
    <3> QED BY <2>3, <2>5, ImageIsFinite
  <2>7. IsFiniteSet(SeatsOf(k, room))
    BY <2>2, <2>4, <2>6
  <2> QED
    BY <2>1, <2>2, <2>7
<1> QED
  BY <1>1, <1>2

CoreSeats(k) == {<<0, seat>> : seat \in 1 .. k.core.seats}
RoomSeats(k, rooms) == UNION {SeatsOf(k, rooms[i]) : i \in 1 .. Len(rooms)}
Desks(k, rooms) == UNION {{i} \X SeatsOf(k, rooms[i]) : i \in 1 .. Len(rooms)}

LEMMA CoreSeatsCount ==
  ASSUME NEW k, IsKit(k)
  PROVE  IsFiniteSet(CoreSeats(k)) /\ Cardinality(CoreSeats(k)) = k.core.seats
<1> DEFINE n == k.core.seats
           S == 1 .. n
           f == [s \in S |-> <<0, s>>]
<1>1. n \in Nat
  BY DEF IsKit
<1>2. CoreSeats(k) = {f[s] : s \in S}
  BY DEF CoreSeats
<1> HIDE DEF n
<1>3. IsFiniteSet(S) /\ Cardinality(S) = n
  BY <1>1, FS_Interval
<1>4. DOMAIN f = S /\ f = [s \in S |-> f[s]] /\ OneToOne(f, S)
  BY DEF OneToOne
<1> HIDE DEF f, S
<1>5. /\ IsFiniteSet({f[s] : s \in S})
      /\ Cardinality({f[s] : s \in S}) = Cardinality(S)
  BY <1>3, <1>4, ImageIsFinite
<1>6. IsFiniteSet(CoreSeats(k)) /\ Cardinality(CoreSeats(k)) = n
  BY <1>2, <1>3, <1>5
<1> QED
  BY <1>6 DEF n

LEMMA RoomSeatsFinite ==
  ASSUME NEW k, IsKit(k), NEW rooms, Sound(rooms)
  PROVE  IsFiniteSet(RoomSeats(k, rooms))
<1> DEFINE I == 1 .. Len(rooms)
           f == [i \in I |-> SeatsOf(k, rooms[i])]
<1>1. rooms \in Seq(AnyRoom) /\ Len(rooms) \in Nat
  BY LenProperties DEF Sound
<1>2. IsFiniteSet(I)
  BY <1>1, FS_Interval
<1>3. \A i \in I : IsFiniteSet(f[i])
  BY <1>1, ElementOfSeq, SeatsOfIs
<1>4. RoomSeats(k, rooms) = UNION {f[i] : i \in I}
  BY DEF RoomSeats
<1>5. DOMAIN f = I /\ f = [i \in I |-> f[i]]
  OBVIOUS
<1> HIDE DEF I, f
<1>6. IsFiniteSet({f[i] : i \in I})
  BY <1>2, <1>5, ImageIsFinite
<1>7. IsFiniteSet(UNION {f[i] : i \in I})
  BY <1>3, <1>6, FS_UNION
<1> QED
  BY <1>4, <1>7

(* No two desks have one id.                                               *)
LEMMA DesksHaveIds ==
  ASSUME NEW k, IsKit(k), NEW rooms, Sound(rooms)
  PROVE  /\ IsFiniteSet(Desks(k, rooms)) /\ Cardinality(Desks(k, rooms)) \in Nat
         /\ Cardinality(Desks(k, rooms)) <= Cardinality(RoomSeats(k, rooms))
<1> DEFINE f == [d \in Desks(k, rooms) |-> d[2]]
<1>1. rooms \in Seq(AnyRoom) /\ Len(rooms) \in Nat
  BY LenProperties DEF Sound
<1>2. ASSUME NEW d \in Desks(k, rooms)
      PROVE  \E i \in 1 .. Len(rooms) : \E n \in Nat :
               d = <<i, <<rooms[i].id, n>>>> /\ <<rooms[i].id, n>> \in SeatsOf(k, rooms[i])
  <2>1. PICK i \in 1 .. Len(rooms) : d \in {i} \X SeatsOf(k, rooms[i])
    BY DEF Desks
  <2>2. rooms[i] \in AnyRoom
    BY <1>1, ElementOfSeq
  <2>3. PICK n \in Nat : d[2] = <<rooms[i].id, n>>
    BY <2>1, <2>2, SeatsOfIs
  <2>4. d = <<i, <<rooms[i].id, n>>>> /\ <<rooms[i].id, n>> \in SeatsOf(k, rooms[i])
    BY <2>1, <2>3
  <2> QED
    BY <2>4
<1>3. f \in [Desks(k, rooms) -> RoomSeats(k, rooms)]
  <2>1. ASSUME NEW d \in Desks(k, rooms) PROVE d[2] \in RoomSeats(k, rooms)
    <3>1. PICK i \in 1 .. Len(rooms) : d \in {i} \X SeatsOf(k, rooms[i])
      BY DEF Desks
    <3>2. d[2] \in SeatsOf(k, rooms[i])
      BY <3>1
    <3> QED
      BY <3>2 DEF RoomSeats
  <2> QED
    BY <2>1
<1>4. ASSUME NEW c \in Desks(k, rooms), NEW d \in Desks(k, rooms), c[2] = d[2]
      PROVE  c = d
  <2>1. PICK i \in 1 .. Len(rooms) : \E n \in Nat : c = <<i, <<rooms[i].id, n>>>>
    BY <1>2
  <2>2. PICK m \in Nat : c = <<i, <<rooms[i].id, m>>>>
    BY <2>1
  <2>3. PICK j \in 1 .. Len(rooms) : \E n \in Nat : d = <<j, <<rooms[j].id, n>>>>
    BY <1>2
  <2>4. PICK n \in Nat : d = <<j, <<rooms[j].id, n>>>>
    BY <2>3
  <2>5. rooms[i].id = rooms[j].id /\ m = n
    BY <2>2, <2>4, <1>4
  <2>6. i = j
    BY <2>5 DEF Sound
  <2> QED
    BY <2>2, <2>4, <2>5, <2>6
<1>5. f \in Injection(Desks(k, rooms), RoomSeats(k, rooms))
  <2>1. \A c, d \in Desks(k, rooms) : f[c] = f[d] => c = d
    BY <1>4
  <2> HIDE DEF f
  <2> QED BY <1>3, <2>1 DEF Injection, IsInjective
<1> HIDE DEF f
<1> QED
  BY <1>5, RoomSeatsFinite, FS_Injection, FS_CardinalityType

(* A floor has as many seats as it is said to seat.                        *)
LEMMA SeatsCount ==
  ASSUME NEW k, IsKit(k), NEW rooms, Sound(rooms)
  PROVE  /\ IsFiniteSet(SeatIdsFor(k, rooms))
         /\ CapacityOf(k, rooms) <= Cardinality(SeatIdsFor(k, rooms))
         /\ \A seat \in SeatIdsFor(k, rooms) : \E a, b \in Nat : seat = <<a, b>>
<1>1. rooms \in Seq(AnyRoom) /\ Len(rooms) \in Nat
  BY LenProperties DEF Sound
<1>2. SeatIdsFor(k, rooms) = CoreSeats(k) \cup RoomSeats(k, rooms)
  BY DEF SeatIdsFor, CoreSeats, RoomSeats
<1>3. CapacityOf(k, rooms) = k.core.seats + Cardinality(Desks(k, rooms))
  BY DEF CapacityOf, Desks
<1>4. ASSUME NEW seat \in RoomSeats(k, rooms)
      PROVE  \E a \in Nat \ {0} : \E b \in Nat : seat = <<a, b>>
  <2>1. PICK i \in 1 .. Len(rooms) : seat \in SeatsOf(k, rooms[i])
    BY DEF RoomSeats
  <2>2. rooms[i] \in AnyRoom
    BY <1>1, ElementOfSeq
  <2>3. PICK n \in Nat : seat = <<rooms[i].id, n>>
    BY <2>1, <2>2, SeatsOfIs
  <2>4. rooms[i].id \in Nat \ {0}
    BY <2>2 DEF AnyRoom, Rooms
  <2> QED
    BY <2>3, <2>4
<1>5. k.core.seats \in Nat
  BY DEF IsKit
<1>6. \A seat \in CoreSeats(k) : \E b \in Nat : seat = <<0, b>>
  BY <1>5 DEF CoreSeats
<1>7. CoreSeats(k) \cap RoomSeats(k, rooms) = {}
  <2> SUFFICES ASSUME NEW seat \in CoreSeats(k), seat \in RoomSeats(k, rooms) PROVE FALSE
    OBVIOUS
  <2>1. seat[1] = 0
    BY <1>6
  <2>2. seat[1] # 0
    BY <1>4
  <2> QED
    BY <2>1, <2>2
<1>8. /\ IsFiniteSet(SeatIdsFor(k, rooms))
      /\ Cardinality(SeatIdsFor(k, rooms)) = k.core.seats + Cardinality(RoomSeats(k, rooms))
  <2>1. IsFiniteSet(CoreSeats(k)) /\ IsFiniteSet(RoomSeats(k, rooms))
    BY CoreSeatsCount, RoomSeatsFinite
  <2>2. /\ IsFiniteSet(CoreSeats(k) \cup RoomSeats(k, rooms))
        /\ Cardinality(CoreSeats(k) \cup RoomSeats(k, rooms))
             = Cardinality(CoreSeats(k)) + Cardinality(RoomSeats(k, rooms))
                 - Cardinality(CoreSeats(k) \cap RoomSeats(k, rooms))
    BY <2>1, FS_Union
  <2>3. Cardinality(CoreSeats(k) \cap RoomSeats(k, rooms)) = 0
    BY <1>7, FS_EmptySet
  <2>4. Cardinality(CoreSeats(k)) = k.core.seats
    BY CoreSeatsCount
  <2>5. Cardinality(RoomSeats(k, rooms)) \in Nat
    BY <2>1, FS_CardinalityType
  <2>6. Cardinality(CoreSeats(k) \cup RoomSeats(k, rooms))
          = k.core.seats + Cardinality(RoomSeats(k, rooms))
    BY <1>5, <2>2, <2>3, <2>4, <2>5
  <2> QED
    BY <1>2, <2>2, <2>6
<1>9. /\ Cardinality(RoomSeats(k, rooms)) \in Nat
      /\ Cardinality(Desks(k, rooms)) \in Nat
      /\ Cardinality(Desks(k, rooms)) <= Cardinality(RoomSeats(k, rooms))
  BY RoomSeatsFinite, FS_CardinalityType, DesksHaveIds
<1> QED
  BY <1>2, <1>3, <1>4, <1>5, <1>6, <1>8, <1>9

(* seatNewcomer finds a desk that is free, and there is one on a floor     *)
(* that seats one more than there are.                                     *)
LEMMA ADeskIsFound ==
  ASSUME FloorsStand, NEW e, NEW rooms, Sound(rooms)
  PROVE  LET free == SeatIdsFor(kit, rooms) \ Taken(e)
         IN /\ DeskFor(e, rooms) \in free \/ free = {}
            /\ Enough(kit, rooms, Cardinality(DOMAIN roles) + 1) => free # {}
<1> DEFINE seats == SeatIdsFor(kit, rooms)
           taken == Taken(e)
           free == seats \ taken
           heads == Cardinality(DOMAIN roles)
<1>0. IsKit(kit) /\ IsFiniteSet(DOMAIN roles) /\ heads \in Nat
  BY KitsAssumption, PlannedCut, FS_CardinalityType DEF FloorsStand
<1>1. /\ IsFiniteSet(seats) /\ Cardinality(seats) \in Nat
      /\ CapacityOf(kit, rooms) <= Cardinality(seats)
      /\ \A seat \in seats : \E a, b \in Nat : seat = <<a, b>>
  BY <1>0, SeatsCount, FS_CardinalityType
<1>3. CapacityOf(kit, rooms) \in Nat
  <2>1. Cardinality(Desks(kit, rooms)) \in Nat
    BY <1>0, DesksHaveIds
  <2>2. kit.core.seats \in Nat
    BY <1>0 DEF IsKit
  <2>3. CapacityOf(kit, rooms) = kit.core.seats + Cardinality(Desks(kit, rooms))
    BY DEF CapacityOf, Desks
  <2> QED
    BY <2>1, <2>2, <2>3
<1>4. IsFiniteSet(taken) /\ Cardinality(taken) \in Nat /\ Cardinality(taken) <= heads
  <2> DEFINE S == DOMAIN roles \ {e}
             f == [x \in S |-> roles[x].seat]
  <2>1. IsFiniteSet(S) /\ Cardinality(S) <= heads
    BY <1>0, FS_Subset
  <2>2. taken = {f[x] : x \in S}
    BY DEF Taken
  <2>3. DOMAIN f = S /\ f = [x \in S |-> f[x]]
    OBVIOUS
  <2> HIDE DEF S, f
  <2>4. IsFiniteSet({f[x] : x \in S}) /\ Cardinality({f[x] : x \in S}) <= Cardinality(S)
    BY <2>1, <2>3, ImageIsFinite
  <2>5. Cardinality(S) \in Nat /\ Cardinality({f[x] : x \in S}) \in Nat
    BY <2>1, <2>4, FS_CardinalityType
  <2> HIDE DEF taken, heads
  <2> QED BY <1>0, <2>1, <2>2, <2>4, <2>5
<1>5. Enough(kit, rooms, heads + 1) => free # {}
  <2> SUFFICES ASSUME seats \subseteq taken, CapacityOf(kit, rooms) >= heads + 1 PROVE FALSE
    BY DEF Enough
  <2>1. Cardinality(seats) <= Cardinality(taken)
    BY <1>4, FS_Subset
  <2> HIDE DEF seats, taken, heads
  <2> QED BY <1>0, <1>1, <1>3, <1>4, <2>1
<1> DEFINE f == [s \in free |-> s[1]]
           g == [s \in free |-> s[2]]
<1>6. f \in [free -> Nat] /\ g \in [free -> Nat]
  BY <1>1
<1>7. ASSUME free # {} PROVE DeskFor(e, rooms) \in free
  <2>1. \E s \in free : \A t \in free :
          \/ f[s] < f[t]
          \/ f[s] = f[t] /\ g[s] <= g[t]
    <3> HIDE DEF f, g, free
    <3> QED BY <1>6, <1>7, LeastPair
  <2>2. \E s \in free : \A t \in free : Before(s, t)
    BY <2>1 DEF Before
  <2> QED
    BY <1>7, <2>2 DEF DeskFor
<1> QED
  BY <1>5, <1>7

(* runtime.ts:959: whoever is hired without a seat gets a desk that nobody *)
(* else has, or there is none and the floor cannot be made to seat them.   *)
THEOREM NewcomersFindADesk == FloorSpec => NewcomersGetADesk
<1> DEFINE Free(e) ==
      SeatIdsFor(kit, layout') \ {roles'[x].seat : x \in DOMAIN roles' \ {e}}
           Seated ==
      \A e \in DOMAIN roles' \ DOMAIN roles :
        \/ roles'[e].seat \in Free(e)
        \/ Free(e) = {} /\ ~Enough(kit, layout', Cardinality(DOMAIN roles'))
           Served == served' => Seated
<1>1. FloorInit => FloorsStand
  BY FloorsStandFirst
<1>2. FloorsStand /\ [FloorNext]_floorVars => FloorsStand'
  BY FloorsStandAfterwards
<1>3. FloorsStand /\ [FloorNext]_floorVars => [Served]_floorVars
  <2> SUFFICES ASSUME FloorsStand, FloorNext PROVE Served
    OBVIOUS
  <2>0. IsFiniteSet(DOMAIN roles) /\ Cardinality(DOMAIN roles) \in Nat
    BY FS_CardinalityType DEF FloorsStand
  <2>1. ASSUME NEW e, NEW boss, NEW asked, Hire(e, boss, asked) PROVE Served
    <3> SUFFICES ASSUME served' PROVE Seated
      OBVIOUS
    <3> DEFINE grown == Grown(kit, layout, Cardinality(DOMAIN roles) + 1)
               seat == DeskFor(e, grown)
    <3>1. /\ layout' = grown /\ e \notin DOMAIN roles
          /\ roles' = [x \in DOMAIN roles \cup {e} |->
                         IF x = e THEN Role(boss, seat) ELSE roles[x]]
      BY <2>1 DEF Hire, Commit
    <3>2. /\ DOMAIN roles' = DOMAIN roles \cup {e} /\ roles'[e].seat = seat
          /\ \A x \in DOMAIN roles : roles'[x] = roles[x]
      BY <3>1 DEF Role
    <3>3. Cardinality(DOMAIN roles') = Cardinality(DOMAIN roles) + 1
      BY <3>1, <3>2, <2>0, FS_AddElement
    <3>4. Sound(grown)
      BY GrownIsSound DEF FloorsStand
    <3> HIDE DEF grown
    <3>5. Free(e) = SeatIdsFor(kit, grown) \ Taken(e)
      <4>1. DOMAIN roles' \ {e} = DOMAIN roles \ {e}
        BY <3>2
      <4>2. {roles'[x].seat : x \in DOMAIN roles' \ {e}} = {roles[x].seat : x \in DOMAIN roles \ {e}}
        BY <3>2, <4>1
      <4> QED
        BY <3>1, <4>2 DEF Taken
    <3>6. /\ seat \in Free(e) \/ Free(e) = {}
          /\ Enough(kit, grown, Cardinality(DOMAIN roles) + 1) => Free(e) # {}
      BY <3>4, <3>5, ADeskIsFound
    <3> HIDE DEF Free
    <3>7. \/ roles'[e].seat \in Free(e)
          \/ Free(e) = {} /\ ~Enough(kit, layout', Cardinality(DOMAIN roles'))
      BY <3>1, <3>2, <3>3, <3>6
    <3>8. \A x \in DOMAIN roles' \ DOMAIN roles : x = e
      BY <3>2
    <3> QED
      BY <3>7, <3>8
  <2>2. ASSUME NEW e, Fire(e) \/ \E seat : SetSeat(e, seat) PROVE ~served'
    BY <2>2 DEF Fire, SetSeat
  <2>3. AddRoom \/ RemoveRoom \/ (\E k : Restart(k)) => ~served'
    BY DEF AddRoom, RemoveRoom, Restart
  <2> HIDE DEF Seated
  <2> QED BY <2>1, <2>2, <2>3 DEF FloorNext
<1> QED
  BY <1>1, <1>2, <1>3, PTL DEF FloorSpec, NewcomersGetADesk

(* There is nothing to build.                                              *)
BuiltOut(p, rooms, heads) == Enough(p, rooms, heads) \/ Longer(p, rooms) = {}

(* The plans of one kit begin alike.                                       *)
LEMMA PlansExtend ==
  ASSUME NEW p \in Planned, NEW r \in 0 .. MaxRooms, NEW s \in 0 .. MaxRooms, r <= s
  PROVE  /\ Extends(p.plans[s], p.plans[r])
         /\ Len(p.plans[r]) # r => p.plans[s] = p.plans[r]
<1>1. PICK k \in Kits : IsKit(k) /\ \A n \in 0 .. MaxRooms : p.plans[n] = PlanFloor(k, n)
  BY PlannedIs
<1>2. r \in Nat /\ s \in Nat
  BY OrgFloorAssumption
<1> QED
  BY <1>1, <1>2, ThePrefixIsStable

LEMMA PruningKeepsAll ==
  ASSUME NEW p, NEW rooms, Sound(rooms), AllInKit(p, rooms)
  PROVE  Pruned(p, rooms) = rooms
<1> DEFINE q == Pruned(p, rooms)
<1>1. rooms \in Seq(AnyRoom)
  BY DEF Sound
<1>2. PickedFrom(p, rooms, q, Len(rooms))
  BY <1>1, PrunedIsPicked
<1> HIDE DEF q
<1>3. q \in Seq(AnyRoom) /\ Len(q) = Len(rooms) /\ \A i \in 1 .. Len(q) : q[i] = rooms[i]
  BY <1>2 DEF PickedFrom
<1>4. q = rooms
  BY <1>1, <1>3, SeqEqual
<1> QED
  BY <1>4 DEF q

LEMMA SettledIsRebuilt ==
  ASSUME NEW p, NEW rooms, Sound(rooms), AllInKit(p, rooms), NEW heads,
         BuiltOut(p, rooms, heads)
  PROVE  Reconciled(p, rooms, heads) = rooms
BY PruningKeepsAll DEF Reconciled, Grown, BuiltOut

(* Growing leaves nothing to build.                                        *)
LEMMA GrownIsBuiltOut ==
  ASSUME NEW p, NEW rooms, Sound(rooms), NEW target
  PROVE  BuiltOut(p, Grown(p, rooms, target), target)
<1> DEFINE longer == Longer(p, rooms)
<1>1. Len(rooms) \in Nat
  BY LenProperties DEF Sound
<1>2. /\ longer \subseteq 1 .. MaxRooms /\ MaxRooms \in Nat
      /\ \A n \in longer : n > Len(rooms) /\ Len(p.plans[n]) = n
  BY <1>1, LongerIs
<1>3. CASE Grown(p, rooms, target) = rooms /\ (Enough(p, rooms, target) \/ longer = {})
  BY <1>3 DEF BuiltOut
<1>4. ASSUME NEW n \in longer, Grown(p, rooms, target) = p.plans[n],
             Enough(p, p.plans[n], target) \/ \A m \in longer : m <= n
      PROVE  BuiltOut(p, Grown(p, rooms, target), target)
  <2>1. n \in 0 .. MaxRooms /\ n > Len(rooms) /\ Len(p.plans[n]) = n
    BY <1>2
  <2>2. ASSUME NEW m \in Longer(p, p.plans[n]) PROVE m \in longer /\ ~(m <= n)
    <3>1. m \in n + 1 .. MaxRooms /\ Len(PlanOf(p, m)) = m
      BY <2>1 DEF Longer
    <3>2. m \in Len(rooms) + 1 .. MaxRooms /\ ~(m <= n)
      BY <3>1, <2>1, <1>1, <1>2
    <3> QED
      BY <3>1, <3>2 DEF Longer
  <2>3. BuiltOut(p, p.plans[n], target)
    BY <1>4, <2>2 DEF BuiltOut
  <2> QED
    BY <1>4, <2>3
<1> QED
  BY <1>1, <1>3, <1>4, GrownIs

(* A longer floor seats as many, and has less left to build.               *)
LEMMA LongerSeatsMore ==
  ASSUME NEW p, IsKit(p), NEW rooms, Sound(rooms), NEW more, Sound(more),
         Extends(more, rooms)
  PROVE  /\ CapacityOf(p, rooms) \in Nat /\ CapacityOf(p, more) \in Nat
         /\ CapacityOf(p, rooms) <= CapacityOf(p, more)
         /\ Longer(p, more) \subseteq Longer(p, rooms)
<1>1. Len(rooms) \in Nat /\ Len(more) \in Nat /\ Len(rooms) <= Len(more)
  BY LenProperties DEF Sound, Extends
<1>2. Desks(p, rooms) \subseteq Desks(p, more)
  <2> SUFFICES ASSUME NEW d \in Desks(p, rooms) PROVE d \in Desks(p, more)
    OBVIOUS
  <2>1. PICK i \in 1 .. Len(rooms) : d \in {i} \X SeatsOf(p, rooms[i])
    BY DEF Desks
  <2>2. more[i] = rooms[i] /\ i \in 1 .. Len(more)
    BY <1>1 DEF Extends
  <2> QED
    BY <2>1, <2>2 DEF Desks
<1>3. Cardinality(Desks(p, rooms)) \in Nat /\ Cardinality(Desks(p, more)) \in Nat
  BY DesksHaveIds
<1>4. Cardinality(Desks(p, rooms)) <= Cardinality(Desks(p, more))
  <2>1. IsFiniteSet(Desks(p, more))
    BY DesksHaveIds
  <2> QED
    BY <1>2, <2>1, FS_Subset
<1>5. p.core.seats \in Nat
  BY DEF IsKit
<1>6. \A a : CapacityOf(p, a) = p.core.seats + Cardinality(Desks(p, a))
  BY DEF CapacityOf, Desks
<1>7. Longer(p, more) \subseteq Longer(p, rooms)
  BY <1>1, OrgFloorAssumption DEF Longer
<1> QED
  BY <1>3, <1>4, <1>5, <1>6, <1>7

-----------------------------------------------------------------------------
(* A floor that addRoom has not redrawn has nothing to build.              *)
FloorsSettle ==
  /\ FloorsStand
  /\ ~redrawn => BuiltOut(kit, layout, Cardinality(DOMAIN roles))
  /\ RestartsRebuildTheFloor

LEMMA ReconciledIsBuiltOut ==
  ASSUME NEW p, NEW rooms, Sound(rooms), NEW heads
  PROVE  BuiltOut(p, Reconciled(p, rooms, heads), heads)
BY PrunedIsSound, GrownIsBuiltOut DEF Reconciled

LEMMA FloorsSettleFirst == FloorInit => FloorsSettle
<1> SUFFICES ASSUME FloorInit PROVE FloorsSettle
  OBVIOUS
<1>1. /\ kit \in Planned /\ roles = FirstRoles /\ saved = <<>>
      /\ layout = Reconciled(kit, <<>>, Cardinality(DOMAIN FirstRoles))
  BY DEF FloorInit
<1>2. BuiltOut(kit, layout, Cardinality(DOMAIN roles))
  BY <1>1, NothingIsSound, ReconciledIsBuiltOut
<1> QED
  BY <1>1, <1>2, FloorsStandFirst DEF FloorsSettle, RestartsRebuildTheFloor

LEMMA CommitsSettle ==
  ASSUME FloorsStand, FloorsStand', NEW rooms, NEW chart, Commit(rooms, chart),
         ~redrawn' => BuiltOut(kit, rooms, Cardinality(DOMAIN chart))
  PROVE  FloorsSettle'
<1>1. layout' = rooms /\ saved' = rooms /\ roles' = chart /\ kit' = kit
  BY DEF Commit
<1>2. Sound(layout') /\ AllInKit(kit', layout')
  BY DEF FloorsStand
<1>3. Sound(rooms) /\ AllInKit(kit, rooms)
  BY <1>1, <1>2 DEF Sound, AnyRoom, Planned
<1>4. ~redrawn' => Reconciled(kit, rooms, Cardinality(DOMAIN chart)) = rooms
  BY <1>3, SettledIsRebuilt
<1>5. RestartsRebuildTheFloor'
  BY <1>1, <1>4 DEF RestartsRebuildTheFloor
<1>6. ~redrawn' => BuiltOut(kit', layout', Cardinality(DOMAIN roles'))
  BY <1>1
<1> QED
  BY <1>5, <1>6 DEF FloorsSettle, BuiltOut, Enough, Longer, PlanOf

LEMMA FloorsSettleAfterwards == FloorsSettle /\ [FloorNext]_floorVars => FloorsSettle'
<1> SUFFICES ASSUME FloorsSettle, [FloorNext]_floorVars PROVE FloorsSettle'
  OBVIOUS
<1> DEFINE heads == Cardinality(DOMAIN roles)
<1>0. FloorsStand /\ FloorsStand'
  BY FloorsStandAfterwards DEF FloorsSettle
<1>1. /\ kit \in Planned /\ IsKit(kit) /\ IsFiniteSet(DOMAIN roles) /\ heads \in Nat
      /\ ~redrawn => BuiltOut(kit, layout, heads)
  BY <1>0, KitsAssumption, PlannedCut, FS_CardinalityType DEF FloorsStand, FloorsSettle
<1>2. Sound(layout) /\ Sound(saved) /\ Len(layout) \in Nat /\ MaxRooms \in Nat
  BY <1>0, LenProperties, OrgFloorAssumption DEF FloorsStand, Sound
<1>3. ASSUME NEW e, NEW boss, NEW asked, Hire(e, boss, asked) PROVE FloorsSettle'
  <2> DEFINE grown == Grown(kit, layout, heads + 1)
             seat == IF asked = NoSeat THEN DeskFor(e, grown) ELSE asked
             chart == [x \in DOMAIN roles \cup {e} |->
                         IF x = e THEN Role(boss, seat) ELSE roles[x]]
  <2>1. Commit(grown, chart) /\ e \notin DOMAIN roles
    BY <1>3 DEF Hire
  <2>2. BuiltOut(kit, grown, heads + 1)
    BY <1>2, GrownIsBuiltOut
  <2>3. Cardinality(DOMAIN chart) = heads + 1
    BY <1>1, <2>1, FS_AddElement
  <2> HIDE DEF grown, chart, heads
  <2> QED BY <2>1, <2>2, <2>3, <1>0, CommitsSettle
<1>4. ASSUME NEW e \in DOMAIN roles, Fire(e) PROVE FloorsSettle'
  <2> DEFINE chart == [x \in DOMAIN roles \ {e} |-> Reparented(x, e)]
  <2>1. Commit(layout, chart) /\ redrawn' = redrawn
    BY <1>4 DEF Fire
  <2>2. Cardinality(DOMAIN chart) \in Nat /\ Cardinality(DOMAIN chart) <= heads
    BY <1>1, FS_Subset, FS_CardinalityType
  <2> HIDE DEF chart
  <2>3. ~redrawn => BuiltOut(kit, layout, Cardinality(DOMAIN chart))
    <3>1. CapacityOf(kit, layout) \in Nat
      BY <1>1, <1>2, LongerSeatsMore DEF Extends
    <3> HIDE DEF heads
    <3> QED BY <3>1, <1>1, <2>2 DEF BuiltOut, Enough
  <2> QED
    BY <2>1, <2>3, <1>0, CommitsSettle
<1>5. ASSUME NEW e, NEW seat, SetSeat(e, seat) PROVE FloorsSettle'
  <2> DEFINE chart == [roles EXCEPT ![e].seat = seat]
  <2>1. Commit(layout, chart) /\ redrawn' = redrawn
    BY <1>5 DEF SetSeat
  <2>2. DOMAIN chart = DOMAIN roles
    OBVIOUS
  <2> HIDE DEF chart
  <2> QED BY <2>1, <2>2, <1>0, <1>1, CommitsSettle
<1>6. CASE AddRoom
  <2> DEFINE planned == PlanOf(kit, Len(layout) + 1)
  <2>1. /\ Commit(planned, roles) /\ Len(planned) > Len(layout)
        /\ redrawn' = (redrawn \/ ~AsPlanned)
    BY <1>6 DEF AddRoom
  <2>2. PICK m \in 0 .. MaxRooms : planned = kit.plans[m]
    <3>1. Len(layout) + 1 \in Nat
      BY <1>2
    <3> QED
      BY <3>1, PlanOfIs
  <2>3. PICK l \in 0 .. MaxRooms : PlanOf(kit, Len(layout)) = kit.plans[l]
    BY <1>2, PlanOfIs
  <2>4. Sound(planned) /\ Len(planned) \in Nat /\ Len(planned) <= m
    BY <1>1, <2>2, PlansAreSound, LenProperties DEF Sound
  <2> HIDE DEF planned
  <2>5. ASSUME ~redrawn' PROVE BuiltOut(kit, planned, heads)
    <3>1. ~redrawn /\ layout = kit.plans[l]
      BY <2>1, <2>3, <2>5 DEF AsPlanned
    <3>2. Len(kit.plans[l]) <= l /\ Len(kit.plans[m]) <= m
      BY <1>1, PlansAreSound
    <3>3. l <= m
      <4> SUFFICES ASSUME m <= l, m # l PROVE FALSE
        BY <1>2
      <4>1. Extends(kit.plans[l], kit.plans[m])
        BY <1>1, PlansExtend
      <4> QED
        BY <4>1, <3>1, <2>1, <2>2, <2>4, <1>2 DEF Extends
    <3>4. Extends(planned, layout)
      BY <1>1, <2>2, <3>1, <3>3, PlansExtend
    <3>5. /\ CapacityOf(kit, layout) \in Nat /\ CapacityOf(kit, planned) \in Nat
          /\ CapacityOf(kit, layout) <= CapacityOf(kit, planned)
          /\ Longer(kit, planned) \subseteq Longer(kit, layout)
      BY <1>1, <1>2, <2>4, <3>4, LongerSeatsMore
    <3> HIDE DEF heads
    <3> QED BY <1>1, <3>1, <3>5 DEF BuiltOut, Enough
  <2> QED
    BY <2>1, <2>5, <1>0, CommitsSettle
<1>7. CASE RemoveRoom
  <2> DEFINE planned == PlanOf(kit, Len(layout) - 1)
  <2>1. Commit(planned, roles) /\ Enough(kit, planned, heads)
    BY <1>7 DEF RemoveRoom
  <2> HIDE DEF planned
  <2> QED
    BY <2>1, <1>0, CommitsSettle DEF BuiltOut
<1>8. ASSUME NEW k \in Planned, Restart(k) PROVE FloorsSettle'
  <2>1. /\ kit' = k /\ roles' = roles /\ saved' = saved
        /\ layout' = Reconciled(k, saved, heads)
    BY <1>8 DEF Restart
  <2>2. BuiltOut(k, layout', heads)
    BY <1>2, <2>1, ReconciledIsBuiltOut
  <2>3. BuiltOut(kit', layout', Cardinality(DOMAIN roles'))
    BY <2>1, <2>2
  <2>4. RestartsRebuildTheFloor'
    BY <2>1 DEF RestartsRebuildTheFloor
  <2> QED
    BY <1>0, <2>3, <2>4 DEF FloorsSettle, BuiltOut, Enough, Longer, PlanOf
<1>9. CASE UNCHANGED floorVars
  <2>1. /\ kit' = kit /\ layout' = layout /\ roles' = roles /\ saved' = saved
        /\ redrawn' = redrawn
    BY <1>9 DEF floorVars
  <2>2. ~redrawn' => BuiltOut(kit', layout', Cardinality(DOMAIN roles'))
    BY <2>1, <1>1
  <2>3. RestartsRebuildTheFloor'
    BY <2>1 DEF FloorsSettle, RestartsRebuildTheFloor
  <2> QED
    BY <1>0, <2>2, <2>3 DEF FloorsSettle, BuiltOut, Enough, Longer, PlanOf
<1> QED
  BY <1>3, <1>4, <1>5, <1>6, <1>7, <1>8, <1>9 DEF FloorNext

(* runtime.ts reconcileFloors: a restart on the same kit finds the building*)
(* it left, although it writes none of what it builds and the kits before  *)
(* it may have had other rooms, as long as addRoom has not redrawn it.     *)
THEOREM FloorsAreRebuilt == FloorSpec => []RestartsRebuildTheFloor
<1>1. FloorInit => FloorsSettle
  BY FloorsSettleFirst
<1>2. FloorsSettle /\ [FloorNext]_floorVars => FloorsSettle'
  BY FloorsSettleAfterwards
<1>3. FloorsSettle => RestartsRebuildTheFloor
  BY DEF FloorsSettle
<1> QED
  BY <1>1, <1>2, <1>3, PTL DEF FloorSpec
=============================================================================
