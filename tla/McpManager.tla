----------------------------- MODULE McpManager -----------------------------
(***************************************************************************)
(* The MCP connections of apps/server/src/mcp: McpManager keeps one        *)
(* connection per configured server, publishes its tools in the registry,  *)
(* and reconnects on POST /api/mcp/refresh; McpClient carries the calls.   *)
(*                                                                         *)
(* A refresh runs until it awaits the end of a process it closes, or the   *)
(* connections it has begun; nobody else acts in between (Quiet). Several  *)
(* may be under way. A connection is a number, given out once.             *)
(***************************************************************************)
EXTENDS Naturals, FiniteSets

CONSTANTS
  Servers,    \* ids an operator may configure
  Tools,      \* names a server may give its tools
  Refreshers, \* POST /api/mcp/refresh requests that may be open at once
  Callers,    \* turns that may be calling a tool at once
  MaxConns    \* bound: connections opened in a behaviour

ASSUME McpAssumption == MaxConns \in Nat /\ Servers # {}

Conns == 1 .. MaxConns

VARIABLES
  conn,      \* every Connection there has been
  current,   \* the map connections, 0 where it has no entry
  registry,  \* the client a published tool calls, 0 where none is published
  approved,  \* approvedServers
  refresher, \* where each refresh stands
  caller,    \* where each call stands
  started,   \* start has been called
  stopping,  \* shutdown has called close
  raced      \* history: servers two refreshes have dropped at the same time

vars == <<conn, current, registry, approved, refresher, caller, started, stopping, raced>>

(* "live" is the process, "closed" what McpClient.close has set, "relist"  *)
(* an open tools/list of relistTools, "opening" that connectOne has not    *)
(* returned.                                                               *)
Connection ==
  [server : Servers, state : {"unused", "connecting", "ready", "failed"},
   closed : BOOLEAN, live : BOOLEAN, opening : BOOLEAN, tools : SUBSET Tools,
   relist : BOOLEAN]

(* "begun" are the connections whose connectOne a refresh waits for.       *)
RefreshState == [pc : {"idle", "boot", "sweep", "closing", "connect", "waiting"},
                 wanted : SUBSET Servers, todo : SUBSET Servers,
                 seen : [Servers -> 0 .. MaxConns], at : 0 .. MaxConns, begun : SUBSET Conns]

CallState == [pc : {"idle", "asking", "calling"}, on : 0 .. MaxConns]

Unused == [server |-> CHOOSE s \in Servers : TRUE, state |-> "unused", closed |-> FALSE,
           live |-> FALSE, opening |-> FALSE, tools |-> {}, relist |-> FALSE]

NoRefresh == [pc |-> "idle", wanted |-> {}, todo |-> {}, seen |-> [s \in Servers |-> 0],
              at |-> 0, begun |-> {}]

NoCall == [pc |-> "idle", on |-> 0]

Init ==
  /\ conn = [c \in Conns |-> Unused]
  /\ current = [s \in Servers |-> 0]
  /\ registry = [s \in Servers |-> [t \in Tools |-> 0]]
  /\ approved = {}
  /\ refresher = [p \in Refreshers |-> NoRefresh]
  /\ caller = [k \in Callers |-> NoCall]
  /\ started = FALSE
  /\ stopping = FALSE
  /\ raced = {}

-----------------------------------------------------------------------------
(* Operators whose comment begins with "Wrong:" are slips the properties   *)
(* below would catch. Nothing uses them.                                   *)

(* The thread is not in the middle of a refresh.                           *)
Quiet == \A p \in Refreshers : refresher[p].pc \in {"idle", "closing", "waiting"}

Open(c) == conn[c].live /\ ~conn[c].closed

(* registry.unregister goes by name, whoever published it.                 *)
Unpublish(s, names) ==
  [registry EXCEPT ![s] = [t \in Tools |-> IF t \in names THEN 0 ELSE registry[s][t]]]

(* A name that is published already is skipped.                            *)
Publish(c, names) ==
  [registry EXCEPT ![conn[c].server] =
     [t \in Tools |-> IF t \in names /\ @[t] = 0 THEN c ELSE @[t]]]

Unpublished(c, names) == {t \in names : registry[conn[c].server][t] = 0}

(* Wrong: what is pending is left to its timers.                           *)
CallsLeft(c) == caller

(* failAll: every call pending on connection c is rejected.                *)
CallsRejected(c) ==
  [k \in Callers |-> IF caller[k].pc = "calling" /\ caller[k].on = c THEN NoCall ELSE caller[k]]

(* client.close of c: a handshake or a list under way is rejected with the *)
(* calls; connectOne records the failure and returns, for there is nothing *)
(* left to close.                                                          *)
Shut(x) ==
  [x EXCEPT !.closed = TRUE, !.relist = FALSE,
            !.opening = @ /\ x.state # "connecting",
            !.state = IF @ = "connecting" THEN "failed" ELSE @]

-----------------------------------------------------------------------------
(* refresh and close.                                                      *)

(* The map is copied, and its entries are looked at one after another.     *)
Sweep(p, wanted) ==
  refresher' = [refresher EXCEPT ![p] =
    [pc |-> "sweep", wanted |-> wanted, todo |-> {s \in Servers : current[s] # 0},
     seen |-> current, at |-> 0, begun |-> {}]]

(* Bound: a refresh begins only with connections left for all under way.   *)
Room(wanted) ==
  LET begins(p) == IF refresher[p].pc \in {"idle", "waiting"} THEN {}
                   ELSE {p} \X refresher[p].wanted
  IN Cardinality({c \in Conns : conn[c].state = "unused"})
       >= Cardinality(wanted) + Cardinality(UNION {begins(p) : p \in Refreshers})

Start(p, wanted) ==
  /\ Quiet /\ Room(wanted) /\ ~started /\ ~stopping
  /\ refresher[p].pc = "idle"
  /\ started' = TRUE
  /\ refresher' = [refresher EXCEPT ![p] = [@ EXCEPT !.pc = "boot", !.wanted = wanted,
                                                     !.todo = wanted]]
  /\ UNCHANGED <<conn, current, registry, approved, caller, stopping, raced>>

Refresh(p, wanted) ==
  /\ Quiet /\ Room(wanted) /\ started /\ ~stopping
  /\ refresher[p].pc = "idle"
  /\ Sweep(p, wanted)
  /\ UNCHANGED <<conn, current, registry, approved, caller, started, stopping, raced>>

(* Shutdown closes the HTTP server, which waits for the open requests, and *)
(* then disconnects every server. start is no request: nobody waits for    *)
(* the connections it has begun.                                           *)
Close(p) ==
  /\ Quiet /\ ~stopping
  /\ \A q \in Refreshers : refresher[q].pc = "idle"
  /\ stopping' = TRUE
  /\ Sweep(p, {})
  /\ UNCHANGED <<conn, current, registry, approved, caller, started, raced>>

(* The last part of disconnect: the entry of server s goes, whichever      *)
(* connection it holds by now, and the answer of the operator with it.     *)
Forget(s) ==
  /\ current' = [current EXCEPT ![s] = 0]
  /\ approved' = approved \ {s}

(* The next entry of the copy, which is in the order the connections were  *)
(* made in.                                                                *)
SweepsNext(p, s) ==
  /\ refresher[p].pc = "sweep" /\ s \in refresher[p].todo
  /\ \A r \in refresher[p].todo : refresher[p].seen[s] <= refresher[p].seen[r]

(* Gone from the configuration, or not ready.                              *)
ToDrop(p, s) ==
  s \notin refresher[p].wanted \/ conn[refresher[p].seen[s]].state # "ready"

Keep(p, s) ==
  /\ SweepsNext(p, s)
  /\ ~ToDrop(p, s) \/ current[s] = 0
  /\ refresher' = [refresher EXCEPT ![p].todo = @ \ {s}]
  /\ UNCHANGED <<conn, current, registry, approved, caller, started, stopping, raced>>

(* Another refresh is still closing connection c.                          *)
Raced(c) ==
  raced \cup {conn[c].server : p \in {q \in Refreshers : refresher[q].pc = "closing"
                                                       /\ refresher[q].at = c}}

(* Wrong: the tools of a server that is dropped stay published.            *)
DisconnectKeepsTools(p, s) ==
  LET c == current[s]
  IN /\ SweepsNext(p, s) /\ ToDrop(p, s) /\ c # 0
     /\ conn' = [conn EXCEPT ![c] = Shut(@)]
     /\ caller' = CallsRejected(c)
     /\ IF Open(c)
        THEN /\ refresher' = [refresher EXCEPT ![p].todo = @ \ {s}, ![p].pc = "closing", ![p].at = c]
             /\ UNCHANGED <<current, approved>>
        ELSE /\ Forget(s)
             /\ refresher' = [refresher EXCEPT ![p].todo = @ \ {s}]
     /\ raced' = Raced(c)
     /\ UNCHANGED <<registry, started, stopping>>

(* Wrong: the entry goes and its client is not closed.                     *)
DisconnectLeavesOpen(p, s) ==
  LET c == current[s]
  IN /\ SweepsNext(p, s) /\ ToDrop(p, s) /\ c # 0
     /\ registry' = Unpublish(s, conn[c].tools)
     /\ Forget(s)
     /\ refresher' = [refresher EXCEPT ![p].todo = @ \ {s}]
     /\ raced' = Raced(c)
     /\ UNCHANGED <<conn, caller, started, stopping>>

(* disconnect up to its await: the tools go, and the client is closed. A   *)
(* client that is closed already, or whose process is gone, needs no wait, *)
(* not even while another refresh still waits for the same process.        *)
Disconnect(p, s) ==
  LET c == current[s]
  IN /\ SweepsNext(p, s) /\ ToDrop(p, s) /\ c # 0
     /\ registry' = Unpublish(s, conn[c].tools)
     /\ conn' = [conn EXCEPT ![c] = Shut(@)]
     /\ caller' = CallsRejected(c)
     /\ IF Open(c)
        THEN /\ refresher' = [refresher EXCEPT ![p].todo = @ \ {s}, ![p].pc = "closing", ![p].at = c]
             /\ UNCHANGED <<current, approved>>
        ELSE /\ Forget(s)
             /\ refresher' = [refresher EXCEPT ![p].todo = @ \ {s}]
     /\ raced' = Raced(c)
     /\ UNCHANGED <<started, stopping>>

(* The process has gone, and disconnect ends.                              *)
Disconnected(p) ==
  LET c == refresher[p].at
  IN /\ Quiet /\ refresher[p].pc = "closing"
     /\ ~conn[c].live
     /\ Forget(conn[c].server)
     /\ refresher' = [refresher EXCEPT ![p].pc = "sweep", ![p].at = 0]
     /\ UNCHANGED <<conn, registry, caller, started, stopping, raced>>

(* Everything to drop is dropped: connectAll, for who is wanted.           *)
Swept(p) ==
  /\ refresher[p].pc = "sweep" /\ refresher[p].todo = {}
  /\ refresher' = [refresher EXCEPT ![p] = [NoRefresh EXCEPT
                     !.pc = "connect", !.wanted = refresher[p].wanted,
                     !.todo = refresher[p].wanted]]
  /\ UNCHANGED <<conn, current, registry, approved, caller, started, stopping, raced>>

(* connectOne up to its await, unless there is an entry. A transport that  *)
(* cannot be built leaves a connection that has failed.                    *)
ConnectOne(p, s, built) ==
  /\ refresher[p].pc \in {"boot", "connect"} /\ s \in refresher[p].todo
  /\ IF current[s] # 0
     THEN /\ built /\ UNCHANGED <<conn, current>>
          /\ refresher' = [refresher EXCEPT ![p].todo = @ \ {s}]
     ELSE \E c \in Conns :
            /\ conn[c].state = "unused"
            /\ \A b \in Conns : b < c => conn[b].state # "unused"
            /\ current' = [current EXCEPT ![s] = c]
            /\ conn' = [conn EXCEPT ![c] = [@ EXCEPT
                          !.server = s, !.live = built, !.opening = built,
                          !.state = IF built THEN "connecting" ELSE "failed"]]
            /\ refresher' = [refresher EXCEPT ![p].todo = @ \ {s}, ![p].begun = @ \cup {c}]
  /\ UNCHANGED <<registry, approved, caller, started, stopping, raced>>

(* Every connection has been begun. A refresh waits for those it began; at *)
(* boot nobody does.                                                       *)
AllBegun(p) ==
  /\ refresher[p].pc \in {"boot", "connect"} /\ refresher[p].todo = {}
  /\ refresher' = [refresher EXCEPT ![p] =
                     IF @.pc = "boot" THEN NoRefresh
                     ELSE [NoRefresh EXCEPT !.pc = "waiting", !.begun = refresher[p].begun]]
  /\ UNCHANGED <<conn, current, registry, approved, caller, started, stopping, raced>>

(* Every connectOne of the refresh has returned, and the request is        *)
(* answered.                                                               *)
AllConnected(p) ==
  /\ Quiet /\ refresher[p].pc = "waiting"
  /\ \A c \in refresher[p].begun : ~conn[c].opening
  /\ refresher' = [refresher EXCEPT ![p] = NoRefresh]
  /\ UNCHANGED <<conn, current, registry, approved, caller, started, stopping, raced>>

-----------------------------------------------------------------------------
(* Connections.                                                            *)

(* Handshake and first tool list have come back: the tools are published,  *)
(* whether or not the manager still has this connection.                   *)
Connected(c, list) ==
  /\ Quiet /\ Open(c) /\ conn[c].state = "connecting"
  /\ conn' = [conn EXCEPT ![c].state = "ready", ![c].opening = FALSE,
                          ![c].tools = Unpublished(c, list)]
  /\ registry' = Publish(c, list)
  /\ UNCHANGED <<current, approved, refresher, caller, started, stopping, raced>>

(* The server refused or did not answer in time: the client is closed, and *)
(* connectOne waits for the process to go.                                 *)
ConnectFails(c) ==
  /\ Quiet /\ Open(c) /\ conn[c].state = "connecting"
  /\ conn' = [conn EXCEPT ![c] = [Shut(@) EXCEPT !.opening = TRUE]]
  /\ UNCHANGED <<current, registry, approved, refresher, caller, started, stopping, raced>>

(* The process exits of its own accord: what is pending is rejected, and   *)
(* if the connection is the current one it fails and loses its tools.      *)
Dies(c) ==
  LET x == [conn[c] EXCEPT !.live = FALSE, !.relist = FALSE]
      s == conn[c].server
  IN /\ Quiet /\ Open(c)
     /\ caller' = CallsRejected(c)
     /\ IF conn[c].state = "connecting"
        THEN conn' = [conn EXCEPT ![c] = Shut(x)] /\ UNCHANGED registry
        ELSE IF current[s] = c
        THEN /\ conn' = [conn EXCEPT ![c] = [x EXCEPT !.state = "failed", !.tools = {}]]
             /\ registry' = Unpublish(s, conn[c].tools)
        ELSE conn' = [conn EXCEPT ![c] = x] /\ UNCHANGED registry
     /\ UNCHANGED <<current, approved, refresher, started, stopping, raced>>

(* Wrong: a process still in its handshake is not killed.                  *)
ProcessGoneIfReady(c) ==
  /\ Quiet /\ conn[c].closed /\ conn[c].live /\ conn[c].state = "ready"
  /\ conn' = [conn EXCEPT ![c].live = FALSE, ![c].opening = FALSE]
  /\ UNCHANGED <<current, registry, approved, refresher, caller, started, stopping, raced>>

(* A process that was closed exits, or is killed after two seconds.        *)
ProcessGone(c) ==
  /\ Quiet /\ conn[c].closed /\ conn[c].live
  /\ conn' = [conn EXCEPT ![c].live = FALSE, ![c].opening = FALSE]
  /\ UNCHANGED <<current, registry, approved, refresher, caller, started, stopping, raced>>

(* notifications/tools/list_changed of the current connection: relistTools *)
(* asks for the list. One open request stands for several.                 *)
ToolsChanged(c) ==
  /\ Quiet /\ Open(c)
  /\ current[conn[c].server] = c /\ conn[c].state = "ready"
  /\ ~conn[c].relist
  /\ conn' = [conn EXCEPT ![c].relist = TRUE]
  /\ UNCHANGED <<current, registry, approved, refresher, caller, started, stopping, raced>>

(* The new list: what stays keeps its entry, new tools are published, and  *)
(* those that are gone are withdrawn.                                      *)
Relisted(c, list) ==
  LET s == conn[c].server
      kept == conn[c].tools \cap list
      new == Unpublished(c, list \ conn[c].tools)
  IN /\ Quiet /\ Open(c) /\ conn[c].relist
     /\ conn' = [conn EXCEPT ![c].relist = FALSE, ![c].tools = kept \cup new]
     /\ registry' = [registry EXCEPT ![s] =
          [t \in Tools |-> IF t \in conn[c].tools \ list THEN 0
                           ELSE IF t \in new THEN c ELSE @[t]]]
     /\ UNCHANGED <<current, approved, refresher, caller, started, stopping, raced>>

-----------------------------------------------------------------------------
(* Calls: the run of a published tool.                                     *)

(* A call on a client that is closed or whose process has gone is rejected *)
(* at once.                                                                *)
Sent(c) == IF Open(c) THEN [pc |-> "calling", on |-> c] ELSE NoCall

Call(k, s, t) ==
  LET c == registry[s][t]
  IN /\ Quiet /\ ~stopping /\ caller[k].pc = "idle" /\ c # 0
     /\ caller' = [caller EXCEPT ![k] = IF s \in approved THEN Sent(c)
                                        ELSE [pc |-> "asking", on |-> c]]
     /\ UNCHANGED <<conn, current, registry, approved, refresher, started, stopping, raced>>

(* The operator agrees: the server is approved, and the call is sent.      *)
Granted(k) ==
  LET c == caller[k].on
  IN /\ Quiet /\ caller[k].pc = "asking"
     /\ approved' = approved \cup {conn[c].server}
     /\ caller' = [caller EXCEPT ![k] = Sent(c)]
     /\ UNCHANGED <<conn, current, registry, refresher, started, stopping, raced>>

(* The operator declines, or nobody answers in time.                       *)
Declined(k) ==
  /\ Quiet /\ caller[k].pc = "asking"
  /\ caller' = [caller EXCEPT ![k] = NoCall]
  /\ UNCHANGED <<conn, current, registry, approved, refresher, started, stopping, raced>>

(* The call is answered, times out or is cancelled. Whichever comes first  *)
(* takes the entry of pending, and the others find none.                   *)
CallOver(k) ==
  /\ Quiet /\ caller[k].pc = "calling"
  /\ caller' = [caller EXCEPT ![k] = NoCall]
  /\ UNCHANGED <<conn, current, registry, approved, refresher, started, stopping, raced>>

-----------------------------------------------------------------------------
RefreshStep(p) ==
  \/ \E s \in Servers : Keep(p, s) \/ Disconnect(p, s)
  \/ Disconnected(p) \/ Swept(p) \/ AllBegun(p) \/ AllConnected(p)
  \/ \E s \in Servers, built \in BOOLEAN : ConnectOne(p, s, built)

ConnectionStep(c) ==
  \/ \E list \in SUBSET Tools : Connected(c, list) \/ Relisted(c, list)
  \/ ConnectFails(c) \/ Dies(c) \/ ProcessGone(c) \/ ToolsChanged(c)

CallStep(k) ==
  \/ \E s \in Servers, t \in Tools : Call(k, s, t)
  \/ Granted(k) \/ Declined(k) \/ CallOver(k)

Next ==
  \/ \E p \in Refreshers, wanted \in SUBSET Servers : Start(p, wanted) \/ Refresh(p, wanted)
  \/ \E p \in Refreshers : Close(p) \/ RefreshStep(p)
  \/ \E c \in Conns : ConnectionStep(c)
  \/ \E k \in Callers : CallStep(k)

Spec == Init /\ [][Next]_vars

(* The handshake and the first list of c come to an end: each request of   *)
(* them has a deadline, and the list a limit of pages.                     *)
HandshakeEnds(c) ==
  \/ \E list \in SUBSET Tools : Connected(c, list)
  \/ ConnectFails(c)

(* A refresh goes on when it can, handshakes end, and a process that is    *)
(* closed exits or is killed. What is ready stays in the queue of the      *)
(* event loop while others have their turn: strong fairness.               *)
FairSpec ==
  /\ Spec
  /\ \A p \in Refreshers : SF_vars(RefreshStep(p))
  /\ \A c \in Conns : SF_vars(HandshakeEnds(c)) /\ SF_vars(ProcessGone(c))

-----------------------------------------------------------------------------
(* Types.                                                                  *)
TypeOK ==
  /\ conn \in [Conns -> Connection]
  /\ current \in [Servers -> 0 .. MaxConns]
  /\ registry \in [Servers -> [Tools -> 0 .. MaxConns]]
  /\ approved \subseteq Servers
  /\ refresher \in [Refreshers -> RefreshState]
  /\ caller \in [Callers -> CallState]
  /\ raced \subseteq Servers

(* A published tool belongs to the connection the manager has for its      *)
(* server, that connection is ready and its process alive, and knows of    *)
(* the tool: no name outlives what is behind it, whatever refreshes        *)
(* overlap. Only a server that two refreshes drop at the same time is      *)
(* excepted: the later end of the two takes the entry of the new           *)
(* connection with it.                                                     *)
ToolsHaveTheirServer ==
  \A s \in Servers \ raced, t \in Tools :
    LET c == registry[s][t]
    IN c # 0 => /\ current[s] = c
                /\ Open(c) /\ conn[c].state = "ready"
                /\ t \in conn[c].tools

(* Every process that has not been told to go is the one connection the    *)
(* manager has for its server, whatever refreshes overlap, with the same   *)
(* exception.                                                              *)
NobodyIsOrphaned ==
  \A c \in Conns : Open(c) /\ conn[c].server \notin raced => current[conn[c].server] = c

(* Nobody waits on a connection that is closed or whose process has gone.  *)
NoCallHangs ==
  \A k \in Callers : caller[k].pc = "calling" => Open(caller[k].on)

(* Every refresh comes to its end.                                         *)
RefreshEnds ==
  \A p \in Refreshers : refresher[p].pc # "idle" ~> refresher[p].pc = "idle"

=============================================================================
