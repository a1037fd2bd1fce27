------------------------------- MODULE Memory -------------------------------
(***************************************************************************)
(* What the office remembers: writeFact and retract of server/memory.ts    *)
(* over the rows of store/store.ts, the recalls of server/runtime.ts with  *)
(* the turns of engine/turn.ts that make them, and the copy a console of   *)
(* apps/web/src/app/store.ts holds.                                        *)
(*                                                                         *)
(* A handler has the thread to itself, but it writes two rows for one      *)
(* correction and then emits, and the process may die in between. A recall *)
(* waits for an embedding and everything goes on meanwhile. Texts, ranks   *)
(* and vectors are left out: what a search picks of what it may is open.   *)
(***************************************************************************)
EXTENDS Naturals, Sequences, FiniteSets

CONSTANTS
  Scopes,    \* the scopes a fact may be pinned to
  Turns,     \* turns that recall
  Visible,   \* scopesFor, of each turn
  Limit,     \* facts a recall is answered with at most
  MaxFacts,  \* bound: facts written
  MaxFrames, \* bound: frames on their way to the console
  MaxCrashes \* bound: crashes

ASSUME MemoryAssumption ==
  /\ Visible \in [Turns -> SUBSET Scopes]
  /\ {Limit, MaxFacts, MaxFrames, MaxCrashes} \subseteq Nat

VARIABLES
  semantic, \* an embedder and a vector index are there
  fact,     \* the table memory_facts, in the order of creation
  at,       \* where the handler that has the thread stands
  event,    \* what it will emit: its type, the fact and the one it replaces
  turn,     \* what each turn is doing and holds
  screen,   \* the console's facts
  wire,     \* frames on their way to it
  online,   \* its socket is open
  crashes   \* crashes so far

console == <<screen, wire, online>>
vars == <<semantic, fact, at, event, turn, console, crashes>>

Ids == DOMAIN fact
None == 0
Written(scope, old) ==
  [scope |-> scope, supersedes |-> old, invalid |-> FALSE, by |-> None, read |-> FALSE]

isActive(row) == ~row.invalid /\ row.by = None
Active == {f \in Ids : isActive(fact[f])}
Rows(ids) == [f \in ids |-> fact[f]]

(* The rows of one set laid over those of another.                         *)
Over(new, old) ==
  [f \in DOMAIN new \cup DOMAIN old |-> IF f \in DOMAIN new THEN new[f] ELSE old[f]]

NoEvent == [type |-> "none", fact |-> None, old |-> None]
Idle == at = "idle"
MayEmit == Idle /\ Len(wire) < MaxFrames

(* A turn holds req.memoryFacts. "stopped" and "told" are kept to judge it:*)
(* what was untrue when it began, and all it was given.                    *)
NewTurn == [at |-> "new", found |-> <<>>, stopped |-> {}, told |-> {}]

Init ==
  /\ semantic \in BOOLEAN
  /\ fact = <<>>
  /\ at = "idle" /\ event = NoEvent
  /\ turn = [t \in Turns |-> NewTurn]
  /\ screen = <<>> /\ wire = <<>> /\ online = FALSE
  /\ crashes = 0

-----------------------------------------------------------------------------
(* Writing.                                                                *)

(* Wrong: a fact that has been replaced may be replaced again.             *)
MayReplaceAny(f, scope) == f \in Ids /\ fact[f].scope = scope

(* A correction is of a current fact and does not move it.                 *)
MayReplace(f, scope) == f \in Active /\ fact[f].scope = scope

Record(scope, old) ==
  /\ MayEmit /\ Len(fact) < MaxFacts
  /\ old # None => MayReplace(old, scope)
  /\ fact' = Append(fact, Written(scope, old))
  /\ at' = IF old = None THEN "emit" ELSE "invalidate"
  /\ event' = [type |-> "created", fact |-> Len(fact'), old |-> old]
  /\ UNCHANGED <<semantic, turn, console, crashes>>

(* The second half of a correction.                                        *)
Invalidate ==
  /\ at = "invalidate"
  /\ fact' = [fact EXCEPT ![event.old].invalid = TRUE, ![event.old].by = event.fact]
  /\ at' = "emit"
  /\ UNCHANGED <<semantic, event, turn, console, crashes>>

Retract(f) ==
  /\ MayEmit /\ f \in Active
  /\ fact' = [fact EXCEPT ![f].invalid = TRUE]
  /\ at' = "emit"
  /\ event' = [type |-> "retracted", fact |-> f, old |-> None]
  /\ UNCHANGED <<semantic, turn, console, crashes>>

(* Wrong: the fact that was replaced is not in the frame.                  *)
NewHalf == Rows({event.fact})

Halves == Rows({event.fact, event.old} \ {None})

Emit ==
  /\ at = "emit"
  /\ wire' = IF online THEN Append(wire, [type |-> event.type, rows |-> Halves]) ELSE wire
  /\ at' = "idle" /\ event' = NoEvent
  /\ UNCHANGED <<semantic, fact, turn, screen, online, crashes>>

-----------------------------------------------------------------------------
(* Recalling.                                                              *)

(* Wrong: goes by the vectors, which know no scope.                        *)
EverythingTrue(t) == Active

InScope(t) == {f \in Active : fact[f].scope \in Visible[t]}

(* searchMemoryFacts: the best of what matches, whichever that is.         *)
Searches(t) == {found \in SUBSET InScope(t) : Cardinality(found) <= Limit}

(* Wrong: writes back the rows as they were found.                         *)
ReadAsFound(rows) ==
  [f \in Ids |-> IF f \in DOMAIN rows THEN [rows[f] EXCEPT !.read = TRUE] ELSE fact[f]]

(* noteMemoryFactsRead reads each row again.                               *)
NoteRead(rows) ==
  [f \in Ids |-> IF f \in DOMAIN rows THEN [fact[f] EXCEPT !.read = TRUE] ELSE fact[f]]

(* The index of a turn is there. The count beside it is a recall as well,  *)
(* of all the turn may see.                                                *)
Indexed(t, rows) ==
  /\ fact' = NoteRead(Over(rows, Rows(InScope(t))))
  /\ turn' = [turn EXCEPT ![t] =
       [at |-> "working", found |-> rows, told |-> DOMAIN rows,
        stopped |-> IF turn[t].at = "new" THEN Ids \ Active ELSE turn[t].stopped]]

(* One fact needs no ranking, and none is done without an embedder.        *)
BeginTurn(t) ==
  /\ Idle /\ turn[t].at = "new"
  /\ \E found \in Searches(t) :
       IF semantic /\ Cardinality(found) > 1
         THEN /\ turn' = [turn EXCEPT ![t] = [at |-> "embedding", found |-> Rows(found),
                                             told |-> {}, stopped |-> Ids \ Active]]
              /\ UNCHANGED fact
         ELSE Indexed(t, Rows(found))
  /\ UNCHANGED <<semantic, at, event, console, crashes>>

(* The embeddings arrive, or fail: the candidates are the same.            *)
Ranked(t) ==
  /\ Idle /\ turn[t].at = "embedding"
  /\ Indexed(t, turn[t].found)
  /\ UNCHANGED <<semantic, at, event, console, crashes>>

(* The tool: what the index asked is answered from it, the rest is looked  *)
(* up, without embeddings.                                                 *)
RecallTool(t) ==
  /\ Idle /\ turn[t].at = "working"
  /\ \E found \in Searches(t) :
       /\ fact' = NoteRead(Rows(found))
       /\ turn' = [turn EXCEPT ![t].told = @ \cup found]
  /\ UNCHANGED <<semantic, at, event, console, crashes>>

EndTurn(t) ==
  /\ Idle /\ turn[t].at = "working"
  /\ turn' = [turn EXCEPT ![t].at = "over"]
  /\ UNCHANGED <<semantic, fact, at, event, console, crashes>>

-----------------------------------------------------------------------------
(* The console.                                                            *)

(* hello carries the facts that are current.                               *)
Connect ==
  /\ Idle /\ ~online
  /\ online' = TRUE
  /\ wire' = <<[type |-> "hello", rows |-> Rows(Active)]>>
  /\ UNCHANGED <<semantic, fact, at, event, turn, screen, crashes>>

(* Any frame but hello is laid over what is there.                         *)
Receive ==
  /\ wire # <<>>
  /\ wire' = Tail(wire)
  /\ screen' = IF Head(wire).type = "hello" THEN Head(wire).rows
                                           ELSE Over(Head(wire).rows, screen)
  /\ UNCHANGED <<semantic, fact, at, event, turn, online, crashes>>

Drop ==
  /\ online
  /\ online' = FALSE /\ wire' = <<>>
  /\ UNCHANGED <<semantic, fact, at, event, turn, screen, crashes>>

(* The process dies where it stands and is started again. The rows stay.   *)
CrashAndRestart ==
  /\ crashes < MaxCrashes
  /\ crashes' = crashes + 1
  /\ at' = "idle" /\ event' = NoEvent
  /\ turn' = [t \in Turns |-> IF turn[t].at \in {"embedding", "working"}
                              THEN [turn[t] EXCEPT !.at = "over"] ELSE turn[t]]
  /\ online' = FALSE /\ wire' = <<>>
  /\ UNCHANGED <<semantic, fact, screen>>

Next ==
  \/ \E scope \in Scopes, old \in Ids \cup {None} : Record(scope, old)
  \/ \E f \in Ids : Retract(f)
  \/ Invalidate \/ Emit
  \/ \E t \in Turns : BeginTurn(t) \/ Ranked(t) \/ RecallTool(t) \/ EndTurn(t)
  \/ Connect \/ Receive \/ Drop \/ CrashAndRestart

Spec == Init /\ [][Next]_vars

-----------------------------------------------------------------------------
HalfApplied ==
  {g \in Ids : fact[g].supersedes # None /\ fact[fact[g].supersedes].by # g}

(* core/memory.ts:240, "a correction can never be half-applied": what was  *)
(* replaced says by what, within its scope, and what replaces something    *)
(* is said to. A crash between the two rows is the exception, and the one  *)
(* that is being written.                                                  *)
CorrectionsStand ==
  /\ \A f \in Ids : fact[f].by # None =>
       /\ fact[f].by \in Ids /\ fact[f].invalid
       /\ fact[fact[f].by].supersedes = f
       /\ fact[fact[f].by].scope = fact[f].scope
  /\ Cardinality(HalfApplied) <= crashes + (IF at = "invalidate" THEN 1 ELSE 0)

(* What has stopped being true is not believed again, whoever reads it,    *)
(* corrects it or waits for its embedding meanwhile.                       *)
NothingComesBack ==
  [][\A f \in Ids \ Active : ~isActive(fact'[f]) /\ fact'[f].by = fact[f].by]_vars

(* runtime.ts:1668, "a console can never briefly hold two active facts     *)
(* that contradict each other", unless the store does; and one that has    *)
(* caught up believes what the office believes.                            *)
Believed == {f \in DOMAIN screen : isActive(screen[f])}

OneBeliefOnScreen ==
  /\ \A g \in Believed : screen[g].supersedes \in Believed => g \in HalfApplied
  /\ online /\ wire = <<>> /\ Idle => Believed = Active

(* memory.ts:135: a turn is told of nothing pinned to a scope it may not   *)
(* read, and of nothing that had stopped being true when it began.         *)
RecallsAreTrue ==
  \A t \in Turns : \A f \in turn[t].told :
    /\ fact[f].scope \in Visible[t]
    /\ f \notin turn[t].stopped
=============================================================================
