------------------------------- MODULE Office -------------------------------
(***************************************************************************)
(* The runtime facade of apps/server/src/server/runtime.ts over the store  *)
(* of store/store.ts: the organisations, what they are charged, the runs   *)
(* and approvals that are written down, and what the consoles are told.    *)
(*                                                                         *)
(* A handler runs to its end before the next one starts, but it writes to  *)
(* sqlite several times on the way and the process may die between any two *)
(* writes: `at` is where the running handler stands, Crash takes it from   *)
(* there. Memory is lost, `disk` stays, and Boot reads it back.            *)
(***************************************************************************)
EXTENDS Integers, FiniteSets, FiniteSetsExt

CONSTANTS
  Names,      \* what slugify makes of the names an operator may give
  Paths,      \* directories an organisation may work in
  Runs,       \* runs that may be submitted
  Askers,     \* those of them with a turn that asks for an approval
  MaxSpend,   \* bound: what one run may spend
  MaxOpened,  \* bound: organisations created, and the suffix of an id
  MaxCrashes, \* bound: crashes
  Default     \* the directory of config.workspace

ASSUME OfficeAssumption ==
  /\ MaxSpend \in Nat /\ MaxOpened \in Nat /\ MaxCrashes \in Nat
  /\ Default \in Paths
  /\ Askers \subseteq Runs

VARIABLES
  up,       \* the process is running
  office,   \* Office.workspaces in memory, keyed by id
  active,   \* activeWorkspaceId
  runs,     \* the runs the engine holds
  pending,  \* approvals somebody waits for, one per run
  told,     \* what the waiting tool was answered
  at,       \* where emit, or the handler around it, stands
  event,    \* the event being emitted
  disk,     \* the tables office, runs, approvals and events
  heard,    \* the events subscribers were sent
  opened,   \* organisations created so far
  crashes   \* crashes so far

memory == <<office, active, runs, pending>>
vars == <<up, memory, told, at, event, disk, heard, opened, crashes>>

(* uniqueWorkspaceId makes base, base-2, base-3 and so on.                 *)
Ids == [base : Names \cup {"default"}, suffix : 1 .. MaxOpened + 1]
DefaultId == [base |-> "default", suffix |-> 1]

(* "settled" is done, failed and cancelled: this code tells them not apart.*)
Terminal == {"settled"}
Absent == [status |-> "absent"]

Decision == {"approved", "rejected"}
NoEvent == [type |-> "none"]

RunEvent(r, rec) == [type |-> "run", run |-> r, rec |-> rec]
Requested(r) == [type |-> "requested", run |-> r, status |-> "pending"]
Decided(r, status) == [type |-> "decided", run |-> r, status |-> status]
OrgUpdated == [type |-> "org"]

(* "born", "charged" and "waived" are kept to say what the spend consists  *)
(* of: which organisation of that id this is, the runs charged to it, and  *)
(* those the operator has written off.                                     *)
NewWorkspace(path, floor, born) ==
  [path |-> path, floor |-> floor, born |-> born, spent |-> 0, charged |-> {},
   waived |-> {}]

(* A fresh install: one organisation on the ground floor.                  *)
FirstOffice == [id \in {DefaultId} |-> NewWorkspace(Default, 1, 0)]

Init ==
  /\ up = FALSE
  /\ office = FirstOffice
  /\ active = DefaultId
  /\ runs = [r \in Runs |-> Absent]
  /\ pending = {}
  /\ told = [r \in Runs |-> "none"]
  /\ at = "idle"
  /\ event = NoEvent
  /\ disk = [office |-> FirstOffice, runs |-> [r \in Runs |-> Absent],
             approvals |-> [r \in Runs |-> "none"], events |-> {}]
  /\ heard = {}
  /\ opened = 0
  /\ crashes = 0

-----------------------------------------------------------------------------
(* Handlers. Each does what it does in memory and leaves `at` at its first *)
(* write.                                                                  *)

Idle == up /\ at = "idle"

Handle(e, first) ==
  /\ Idle
  /\ event' = e
  /\ at' = first
  /\ UNCHANGED <<up, told, disk, heard, crashes>>

(* run.created, and run.updated with what a turn has cost.                 *)
StartRun(r, w) ==
  LET rec == [ws |-> w, born |-> office[w].born, status |-> "running", spent |-> 0]
  IN /\ disk.runs[r] = Absent
     /\ Handle(RunEvent(r, rec), "append")
     /\ runs' = [runs EXCEPT ![r] = rec]
     /\ UNCHANGED <<office, active, pending, opened>>

UpdateRun(r, status, spent) ==
  LET rec == [runs[r] EXCEPT !.status = status, !.spent = spent]
  IN /\ Handle(RunEvent(r, rec), "append")
     /\ runs' = [runs EXCEPT ![r] = rec]
     /\ UNCHANGED <<office, active, pending, opened>>

SpendRun(r) ==
  /\ runs[r].status = "running" /\ runs[r].spent < MaxSpend
  /\ UpdateRun(r, "running", runs[r].spent + 1)

(* The engine settles a run when no turn of it waits for anybody.          *)
SettleRun(r) ==
  /\ runs[r].status = "running" /\ r \notin pending
  /\ UpdateRun(r, "settled", runs[r].spent)

UniqueId(name) ==
  [base |-> name,
   suffix |-> Min({k \in 1 .. MaxOpened + 1 :
                     [base |-> name, suffix |-> k] \notin DOMAIN office})]

NextFloor == 1 + Max({office[w].floor : w \in DOMAIN office})

CreateWorkspace(name, path) ==
  LET id == UniqueId(name)
  IN /\ opened < MaxOpened
     /\ \A w \in DOMAIN office : office[w].path # path
     /\ Handle(OrgUpdated, "commit")
     /\ opened' = opened + 1
     /\ office' = [w \in DOMAIN office \cup {id} |->
                    IF w = id THEN NewWorkspace(path, NextFloor, opened')
                              ELSE office[w]]
     /\ UNCHANGED <<active, runs, pending>>

(* Nothing is broadcast, and runs of it that are in flight go on.          *)
RemoveWorkspace(w) ==
  /\ w # DefaultId
  /\ Handle(NoEvent, "commit")
  /\ office' = [v \in DOMAIN office \ {w} |-> office[v]]
  /\ active' = IF active = w THEN DefaultId ELSE active
  /\ UNCHANGED <<runs, pending, opened>>

SetActiveWorkspace(w) ==
  /\ Idle
  /\ active' = w
  /\ UNCHANGED <<up, office, runs, pending, told, at, event, disk, heard, opened, crashes>>

Clamped(patch) == Max({0, patch})

WrittenOff(ledger, patch) == [ledger EXCEPT !.spent = Clamped(patch), !.waived = ledger.charged]

(* A patch of the recorded spend, here to zero or below it.                *)
SetWorkspaceBudget(w, patch) ==
  /\ Handle(OrgUpdated, "commit")
  /\ office' = [office EXCEPT ![w] = WrittenOff(@, patch)]
  /\ UNCHANGED <<active, runs, pending, opened>>

Request(r) ==
  /\ runs[r].status = "running" /\ disk.approvals[r] = "none"
  /\ Handle(Requested(r), "approval")
  /\ pending' = pending \cup {r}
  /\ UNCHANGED <<office, active, runs, opened>>

(* Wrong: the timer answers whether or not the operator has.               *)
ResolveAgain(r, status) ==
  /\ disk.approvals[r] # "none"
  /\ Handle(Decided(r, status), "approval")
  /\ pending' = pending \ {r}
  /\ UNCHANGED <<office, active, runs, opened>>

(* The operator, or the timer with "rejected", whichever is first.         *)
ResolveApproval(r, status) ==
  /\ r \in pending
  /\ Handle(Decided(r, status), "approval")
  /\ pending' = pending \ {r}
  /\ UNCHANGED <<office, active, runs, opened>>
-----------------------------------------------------------------------------
(* The writes of a handler, in order.                                      *)

Step(from) ==
  /\ up /\ at = from
  /\ UNCHANGED <<up, active, runs, pending, event, opened, crashes>>

(* persistOffice of commitWorkspace, createWorkspace and removeWorkspace.  *)
CommitOffice ==
  /\ Step("commit")
  /\ disk' = [disk EXCEPT !.office = office]
  /\ at' = IF event = NoEvent THEN "idle" ELSE "append"
  /\ UNCHANGED <<office, told, heard>>

(* saveApproval of request and resolveApproval, before they emit.          *)
SaveApproval ==
  /\ Step("approval")
  /\ disk' = [disk EXCEPT !.approvals[event.run] = event.status]
  /\ at' = "append"
  /\ UNCHANGED <<office, told, heard>>

(* Wrong: takes decisions for events that are only streamed.               *)
AppendUndecided ==
  /\ Step("append")
  /\ disk' = IF event.type = "decided" THEN disk
             ELSE [disk EXCEPT !.events = @ \cup {event}]
  /\ at' = "project"
  /\ UNCHANGED <<office, told, heard>>

AppendEvent ==
  /\ Step("append")
  /\ disk' = [disk EXCEPT !.events = @ \cup {event}]
  /\ at' = "project"
  /\ UNCHANGED <<office, told, heard>>

(* Wrong: at every update of the run.                                      *)
ChargesAlways == event.rec.ws \in DOMAIN office

Charges == event.rec.status \in Terminal /\ event.rec.ws \in DOMAIN office

Charged(ledger, r, spent) ==
  [ledger EXCEPT !.spent = @ + spent, !.charged = @ \cup {r}]

ChargeRun ==
  office' = [office EXCEPT ![event.rec.ws] = Charged(@, event.run, event.rec.spent)]

ProjectRun ==
  /\ Step("project") /\ event.type = "run"
  /\ disk' = [disk EXCEPT !.runs[event.run] = event.rec]
  /\ \/ Charges /\ ChargeRun /\ at' = "charge"
     \/ ~Charges /\ at' = "broadcast" /\ UNCHANGED office
  /\ UNCHANGED <<told, heard>>

PersistCharge ==
  /\ Step("charge")
  /\ disk' = [disk EXCEPT !.office = office]
  /\ at' = "broadcast"
  /\ UNCHANGED <<office, told, heard>>

ProjectApproval ==
  /\ Step("project") /\ event.type \in {"requested", "decided"}
  /\ disk' = [disk EXCEPT !.approvals[event.run] = event.status]
  /\ at' = "broadcast"
  /\ UNCHANGED <<office, told, heard>>

ProjectOrg ==
  /\ Step("project") /\ event.type = "org"
  /\ disk' = [disk EXCEPT !.office = office]
  /\ at' = "broadcast"
  /\ UNCHANGED <<office, told, heard>>

Broadcast ==
  /\ Step("broadcast")
  /\ heard' = heard \cup {event}
  /\ at' = IF event.type = "decided" THEN "answer" ELSE "idle"
  /\ UNCHANGED <<office, told, disk>>

Answer ==
  /\ Step("answer")
  /\ told' = [told EXCEPT ![event.run] = event.status]
  /\ at' = "idle"
  /\ UNCHANGED <<office, disk, heard>>
-----------------------------------------------------------------------------
(* The process dies, by a signal or a crash, wherever it stands.           *)
Crash ==
  /\ up /\ crashes < MaxCrashes
  /\ up' = FALSE
  /\ crashes' = crashes + 1
  /\ runs' = [r \in Runs |-> Absent]
  /\ pending' = {}
  /\ at' = "idle"
  /\ event' = NoEvent
  /\ UNCHANGED <<office, active, told, disk, heard, opened>>

(* Runs left running and approvals left pending stay so on disk.           *)
Boot ==
  /\ ~up
  /\ up' = TRUE
  /\ office' = disk.office
  /\ active' = DefaultId
  /\ UNCHANGED <<runs, pending, told, at, event, disk, heard, opened, crashes>>

Operate ==
  \/ \E r \in Runs :
       \/ \E w \in DOMAIN office : StartRun(r, w)
       \/ SpendRun(r)
       \/ SettleRun(r)
       \/ r \in Askers /\ Request(r)
       \/ \E status \in Decision : ResolveApproval(r, status)
  \/ \E name \in Names, path \in Paths : CreateWorkspace(name, path)
  \/ \E w \in DOMAIN office :
       RemoveWorkspace(w) \/ SetActiveWorkspace(w) \/ \E patch \in {-1, 0} : SetWorkspaceBudget(w, patch)

Write ==
  \/ CommitOffice \/ SaveApproval \/ AppendEvent \/ ProjectRun \/ PersistCharge
  \/ ProjectApproval \/ ProjectOrg \/ Broadcast \/ Answer

Next == Operate \/ Write \/ Crash \/ Boot

Spec == Init /\ [][Next]_vars
-----------------------------------------------------------------------------
(* Nobody outside the process is ahead of the store: what a console was    *)
(* sent is in the log and in the table it is about, and what a tool was    *)
(* answered is what the store, the log and the consoles have. runtime.ts   *)
(* promises both, at 1018 and at 1109, and a crash must not break them.    *)
HeardIsDurable ==
  /\ heard \subseteq disk.events
  /\ \A e \in heard :
       /\ e.type = "run" /\ e.rec.status \in Terminal => disk.runs[e.run] = e.rec
       /\ e.type = "decided" => disk.approvals[e.run] = e.status
  /\ \A r \in Runs : told[r] # "none" => Decided(r, told[r]) \in heard

Settled(r) == disk.runs[r].status \in Terminal

Total(recs, S) == MapThenSumSet(LAMBDA r : recs[r].spent, S)

Adds(books) ==
  \A w \in DOMAIN books :
    /\ \A r \in books[w].charged : Settled(r)
    /\ books[w].spent = Total(disk.runs, books[w].charged \ books[w].waived)
    /\ \A v \in DOMAIN books \ {w} : books[w].charged \cap books[v].charged = {}

OnTheBooks(books, r) ==
  \A w \in DOMAIN books : books[w].born = disk.runs[r].born => r \in books[w].charged

Missing(books) == {r \in Runs : Settled(r) /\ ~OnTheBooks(books, r)}

(* The ledgers add up: what an organisation is charged is the spend of     *)
(* runs the store has as settled, and no run is charged twice or to two    *)
(* organisations, in memory and on disk. Every settled run of an           *)
(* organisation that is still open is on its ledger, but for one a crash:  *)
(* the run that was being settled.                                         *)
LedgersAddUp ==
  /\ Adds(disk.office)
  /\ up => Adds(office)
  /\ Idle => Cardinality(Missing(disk.office)) <= crashes

(* A decision stands: no later write, crash or restart changes it, on disk *)
(* or for the tool that was told.                                          *)
DecisionsStand ==
  [][\A r \in Runs :
       /\ disk.approvals[r] \in Decision => disk'.approvals[r] = disk.approvals[r]
       /\ told[r] # "none" => told'[r] = told[r]]_vars
=============================================================================
