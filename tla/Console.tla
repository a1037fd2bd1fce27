------------------------------ MODULE Console ------------------------------
(* One browser console and the office it watches: the socket of            *)
(* apps/web/src/app/ws.ts, the reducer of apps/web/src/app/store.ts, and   *)
(* the server's side of the wire in apps/server/src/index.ts.  One run and *)
(* the approvals it asks for stand for the whole snapshot; streamed text,  *)
(* the feed and the roster are left out.                                   *)
EXTENDS Naturals, Sequences

CONSTANTS
  Asks,        \* the approvals the run may ask for
  MaxQueue,    \* commands a closed socket keeps (64 in the code)
  ReplayLimit, \* events loadRun replays (2000 in the code)
  MaxTyped, MaxDrops, MaxRestarts, MaxClicks, MaxDetails \* bounds of the model

ASSUME BoundsAssumption ==
  /\ MaxQueue \in Nat \ {0}
  /\ {ReplayLimit, MaxTyped, MaxDrops, MaxRestarts, MaxClicks, MaxDetails} \subseteq Nat

VARIABLES
  office,  \* the server: the run, its pending approvals, and whether an engine drives them
  log,     \* the persisted events of the run
  conn,    \* the socket
  wire,    \* frames on their way to the console
  up,      \* commands on their way to the server
  queue,   \* commands kept while the socket is not open
  typed,   \* commands the operator has typed so far, numbered from 1
  heard,   \* those the server has handled, in order
  view,    \* what the console shows
  detail,  \* the GET /api/runs/:id backfill
  cold,    \* the GET /api/state fallback
  merged,  \* what else than the live socket this connection's view was fed
  used     \* how much of each bound is spent

vars == <<office, log, conn, wire, up, queue, typed, heard, view, detail, cold, merged, used>>
server == <<office, log>>
outbound == <<up, queue, typed, heard>>
http == <<detail, cold>>

Runs == {"none", "running", "done"}
LoadRun == 0
-----------------------------------------------------------------------------
(* Frames.                                                                 *)

Snapshot(kind) == [kind |-> kind, run |-> office.run, pending |-> office.pending]
RunEvent(kind, run) == [kind |-> kind, run |-> run]
AskEvent(a, verdict) == [kind |-> "approval", ask |-> a, verdict |-> verdict]

Listening == conn \in {"accepted", "open"}
Sent(frames) == IF Listening THEN wire \o frames ELSE wire

(* The first events of the log, as many as one replay carries.             *)
Replayed == SubSeq(log, 1, IF Len(log) < ReplayLimit THEN Len(log) ELSE ReplayLimit)

-----------------------------------------------------------------------------
(* The office: every event is logged, then broadcast, and a new or settled *)
(* run is followed by a snapshot of the whole office.                      *)

Emit(event) == log' = Append(log, event) /\ wire' = Sent(<<event>>)
EmitWithSnapshot(event) ==
  /\ log' = Append(log, event)
  /\ wire' = Sent(<<event, Snapshot("office.updated")'>>)

Submit ==
  /\ office.live /\ office.run = "none"
  /\ office' = [office EXCEPT !.run = "running"]
  /\ EmitWithSnapshot(RunEvent("run.created", "running"))
  /\ UNCHANGED <<conn, outbound, view, http, merged, used>>

SettleRun ==
  /\ office.live /\ office.run = "running"
  /\ office' = [office EXCEPT !.run = "done"]
  /\ EmitWithSnapshot(RunEvent("run.updated", "done"))
  /\ UNCHANGED <<conn, outbound, view, http, merged, used>>

Request(a) ==
  /\ office.live /\ office.run = "running"
  /\ a \notin office.asked
  /\ office' = [office EXCEPT !.asked = @ \cup {a}, !.pending = @ \cup {a}]
  /\ Emit(AskEvent(a, "pending"))
  /\ UNCHANGED <<conn, outbound, view, http, merged, used>>

Decide(a) ==
  /\ a \in office.pending
  /\ office' = [office EXCEPT !.pending = @ \ {a}]
  /\ Emit(AskEvent(a, "decided"))
  /\ UNCHANGED <<conn, outbound, view, http, merged, used>>

-----------------------------------------------------------------------------
(* The socket.                                                             *)

Connect ==
  /\ conn = "closed"
  /\ conn' = "connecting"
  /\ UNCHANGED <<server, wire, outbound, view, http, merged, used>>

(* The server greets every new connection with the whole office.           *)
Accept ==
  /\ conn = "connecting"
  /\ conn' = "accepted"
  /\ wire' = <<Snapshot("hello")>>
  /\ merged' = {}
  /\ UNCHANGED <<server, outbound, view, http, used>>

(* Wrong: the commands sent stay in the queue. *)
OpenedKeeping ==
  /\ conn = "accepted"
  /\ conn' = "open"
  /\ up' = up \o queue
  /\ UNCHANGED <<server, wire, queue, typed, heard, view, http, merged, used>>

Opened ==
  /\ conn = "accepted"
  /\ conn' = "open"
  /\ up' = up \o queue
  /\ queue' = <<>>
  /\ UNCHANGED <<server, wire, typed, heard, view, http, merged, used>>

Hangup ==
  /\ conn' = "closed"
  /\ wire' = <<>>
  /\ up' = <<>>
  /\ UNCHANGED <<queue, typed, heard, view, merged, cold>>

Drop ==
  /\ conn # "closed" /\ used.drops < MaxDrops
  /\ used' = [used EXCEPT !.drops = @ + 1]
  /\ Hangup
  /\ UNCHANGED <<server, detail>>

(* A restarted office has its runs and its log, and no engine, no pending  *)
(* approval and no socket.                                                 *)
Restart ==
  /\ used.restarts < MaxRestarts
  /\ used' = [used EXCEPT !.restarts = @ + 1]
  /\ office' = [office EXCEPT !.pending = {}, !.live = FALSE]
  /\ Hangup
  /\ detail' = IF detail = "asked" THEN "idle" ELSE detail
  /\ UNCHANGED log

-----------------------------------------------------------------------------
(* Commands.                                                               *)

Send(command) ==
  IF conn = "open"
    THEN up' = Append(up, command) /\ UNCHANGED queue
    ELSE /\ queue' = Append(IF Len(queue) >= MaxQueue THEN Tail(queue) ELSE queue, command)
         /\ UNCHANGED up

Type ==
  /\ typed < MaxTyped
  /\ typed' = typed + 1
  /\ Send(typed')
  /\ UNCHANGED <<server, conn, wire, heard, view, http, merged, used>>

Handle ==
  /\ up # <<>>
  /\ up' = Tail(up)
  /\ IF Head(up) = LoadRun
       THEN /\ wire' = IF office.run = "none" THEN wire ELSE wire \o Replayed
            /\ merged' = merged \cup {"replay"} \cup (IF office.live THEN {} ELSE {"stale"})
            /\ UNCHANGED heard
       ELSE heard' = Append(heard, Head(up)) /\ UNCHANGED <<wire, merged>>
  /\ UNCHANGED <<server, conn, queue, typed, view, http, used>>

-----------------------------------------------------------------------------
(* The reducer.                                                            *)

(* Wrong: a snapshot adds its approvals to those on screen. *)
AdoptedMerging(v, frame) ==
  [v EXCEPT !.known = TRUE, !.run = frame.run, !.selected = frame.run # "none",
            !.asks = [a \in Asks |-> IF a \in frame.pending THEN "pending" ELSE @[a]]]

Adopted(v, frame) ==
  [v EXCEPT !.known = TRUE, !.run = frame.run, !.selected = frame.run # "none",
            !.asks = [a \in Asks |-> IF a \in frame.pending THEN "pending" ELSE "none"]]

(* Wrong: only the first hello replaces what the console shows. *)
HandleFirstHello(v, frame) ==
  IF v.hello THEN v ELSE [Adopted(v, frame) EXCEPT !.hello = TRUE]

HandleHello(v, frame) == [Adopted(v, frame) EXCEPT !.hello = TRUE]

MergeRun(v, run) == IF v.known THEN [v EXCEPT !.run = run] ELSE v

(* Opening a run asks the server to replay it and, unless its turns are    *)
(* known or on their way, fetches them.                                    *)
Opening(v, frame) == frame.kind = "run.created" /\ v.known /\ ~v.selected

EnsureRunDetail ==
  \/ /\ detail = "idle" /\ used.details < MaxDetails
     /\ detail' = "asked"
     /\ used' = [used EXCEPT !.details = @ + 1]
  \/ UNCHANGED <<detail, used>> \* its turns are known

Apply(frame) ==
  /\ view' = CASE frame.kind = "hello" -> HandleHello(view, frame)
               [] frame.kind = "office.updated" -> Adopted(view, frame)
               [] frame.kind = "approval" -> [view EXCEPT !.asks[frame.ask] = frame.verdict]
               [] OTHER -> [MergeRun(view, frame.run) EXCEPT
                              !.selected = @ \/ Opening(view, frame)]
  /\ IF Opening(view, frame)
       THEN Send(LoadRun) /\ EnsureRunDetail
       ELSE UNCHANGED <<up, queue, detail, used>>

Receive ==
  /\ conn = "open" /\ wire # <<>>
  /\ wire' = Tail(wire)
  /\ Apply(Head(wire))
  /\ UNCHANGED <<server, conn, typed, heard, cold, merged>>

SelectRun ==
  /\ view.known /\ view.run # "none"
  /\ used.clicks < MaxClicks
  /\ view' = [view EXCEPT !.selected = TRUE]
  /\ IF view.selected THEN UNCHANGED <<up, queue>> ELSE Send(LoadRun)
  /\ \/ /\ detail = "idle" /\ used.details < MaxDetails
        /\ detail' = "asked"
        /\ used' = [used EXCEPT !.clicks = @ + 1, !.details = @ + 1]
     \/ /\ used' = [used EXCEPT !.clicks = @ + 1]
        /\ UNCHANGED detail
  /\ UNCHANGED <<server, conn, wire, typed, heard, cold, merged>>

Deselect ==
  /\ view.selected
  /\ view' = [view EXCEPT !.selected = FALSE]
  /\ UNCHANGED <<server, conn, wire, outbound, http, merged, used>>

-----------------------------------------------------------------------------
(* The two HTTP reads: the server answers at once, the answer takes its    *)
(* time.                                                                   *)

DetailRead ==
  /\ detail = "asked"
  /\ detail' = IF office.run = "none" THEN "idle" ELSE office.run
  /\ UNCHANGED <<server, conn, wire, outbound, view, cold, merged, used>>

IngestRunDetail ==
  /\ detail \in Runs
  /\ view' = MergeRun(view, detail)
  /\ detail' = "idle"
  /\ merged' = merged \cup {"detail"}
  /\ UNCHANGED <<server, conn, wire, outbound, cold, used>>

ColdRead ==
  /\ cold.at = "idle" /\ ~view.hello
  /\ cold' = [at |-> "read", state |-> Snapshot("cold")]
  /\ UNCHANGED <<server, conn, wire, outbound, view, detail, merged, used>>

ApplyColdState ==
  /\ cold.at = "read"
  /\ view' = IF view.known \/ view.hello THEN view ELSE Adopted(view, cold.state)
  /\ cold' = [cold EXCEPT !.at = "over"]
  /\ UNCHANGED <<server, conn, wire, outbound, detail, merged, used>>

-----------------------------------------------------------------------------
Init ==
  /\ office = [run |-> "none", pending |-> {}, asked |-> {}, live |-> TRUE]
  /\ log = <<>>
  /\ conn = "closed" /\ wire = <<>> /\ up = <<>> /\ queue = <<>>
  /\ typed = 0 /\ heard = <<>>
  /\ view = [known |-> FALSE, hello |-> FALSE, run |-> "none", selected |-> FALSE,
             asks |-> [a \in Asks |-> "none"]]
  /\ detail = "idle"
  /\ cold = [at |-> "idle", state |-> Snapshot("cold")]
  /\ merged = {}
  /\ used = [drops |-> 0, restarts |-> 0, clicks |-> 0, details |-> 0]

Next ==
  \/ Submit \/ SettleRun
  \/ \E a \in Asks : Request(a) \/ Decide(a)
  \/ Connect \/ Accept \/ Opened \/ Drop \/ Restart
  \/ Type \/ Handle \/ Receive
  \/ SelectRun \/ Deselect
  \/ DetailRead \/ IngestRunDetail \/ ColdRead \/ ApplyColdState

Spec == Init /\ [][Next]_vars

-----------------------------------------------------------------------------
(* A console with a live socket and no frame left to apply.                *)
CaughtUp == conn = "open" /\ wire = <<>>
WholeReplays == Len(log) <= ReplayLimit \/ "replay" \notin merged

(* A caught-up console shows the run as it is, whatever order of live      *)
(* events, snapshots, reconnects, restarts, replays and cold state it went *)
(* through: as long as no HTTP detail was merged and every replay carried  *)
(* the whole log.                                                          *)
RunInStep ==
  CaughtUp /\ WholeReplays /\ "detail" \notin merged => view.run = office.run

(* A caught-up console asks the operator about exactly the approvals that  *)
(* still wait: one decided elsewhere, or while it was away, is gone.  (A   *)
(* replay of a log whose approvals a restart forgot is the exception.)     *)
PromptsInStep ==
  CaughtUp /\ WholeReplays /\ "stale" \notin merged =>
    {a \in Asks : view.asks[a] = "pending"} = office.pending

(* Commands reach the server in the order typed and at most once, across   *)
(* drops, restarts and a queue that overflowed.                            *)
CommandsInOrder ==
  \A i, j \in 1..Len(heard) : i < j => heard[i] < heard[j]

=============================================================================
