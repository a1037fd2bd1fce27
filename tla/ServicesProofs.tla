--------------------------- MODULE ServicesProofs ---------------------------
(* Proofs about what a turn calls on outside the office.                   *)
(*                                                                         *)
(* McpManager: that a call never waits on a connection that is closed or   *)
(* gone; and that every open process and every published tool belongs to   *)
(* the connection the manager has for its server, unless two refreshes     *)
(* have dropped that server at the same time. For any servers, tools,      *)
(* refreshes, callers and connections.                                     *)
(*                                                                         *)
(* Routing and ModelCalls: that a decision of the router is sound, is the  *)
(* old one where nothing is known, and stays in the tier the rules are     *)
(* about; and that a turn calls no model that is off. For any catalogues,  *)
(* requests, prices and up to seven tiers.                                 *)
EXTENDS McpManager, Routing, ModelCalls, FiniteSetTheorems, SequenceTheorems,
        WellFoundedInduction, TLAPS

Known == {"ready", "failed"}

(* Whoever asks or waits does so on a connection that came up once, and    *)
(* waits on an open one.                                                   *)
CallsOpen ==
  \A k \in Callers :
    /\ caller[k].pc = "calling" => Open(caller[k].on)
    /\ caller[k].pc \in {"asking", "calling"} =>
         caller[k].on \in Conns /\ conn[caller[k].on].state \in Known

Published ==
  \A s \in Servers, t \in Tools :
    registry[s][t] # 0 => registry[s][t] \in Conns /\ conn[registry[s][t]].state \in Known

(* A list under way is that of a connection that is up.                    *)
Relisting == \A c \in Conns : conn[c].relist => conn[c].state = "ready"

CInv == TypeOK /\ CallsOpen /\ Published /\ Relisting

(* The map holds connections of its servers.                               *)
Owned ==
  \A s \in Servers :
    current[s] # 0 => conn[current[s]].server = s /\ conn[current[s]].state # "unused"

(* A refresh that waits for a process to go has closed its client, and the *)
(* entry is still that of the client, unless another has dropped it too.   *)
Closing ==
  \A p \in Refreshers :
    refresher[p].pc = "closing" =>
      LET c == refresher[p].at
      IN /\ c \in Conns /\ conn[c].closed /\ conn[c].state # "unused"
         /\ conn[c].server \in raced \/ current[conn[c].server] = c

(* No two wait for the same.                                               *)
ClosingAlone ==
  \A p, q \in Refreshers :
    /\ refresher[p].pc = "closing" /\ refresher[q].pc = "closing"
    /\ refresher[p].at = refresher[q].at
    => p = q

OInv == Owned /\ Closing /\ ClosingAlone /\ NobodyIsOrphaned /\ ToolsHaveTheirServer

-----------------------------------------------------------------------------
LEMMA InitInv == Init => CInv /\ OInv
<1> SUFFICES ASSUME Init PROVE CInv /\ OInv
  OBVIOUS
<1>1. Unused \in Connection
  BY McpAssumption DEF Unused, Connection
<1>2. NoRefresh \in RefreshState /\ NoCall \in CallState
  BY McpAssumption DEF NoRefresh, RefreshState, NoCall, CallState
<1>3. TypeOK
  BY <1>1, <1>2, McpAssumption DEF Init, TypeOK
<1>4. CallsOpen /\ Published /\ Relisting
  BY DEF Init, CallsOpen, Published, Relisting, Unused, NoCall
<1>5. OInv
  BY DEF Init, OInv, Owned, Closing, ClosingAlone, NobodyIsOrphaned, ToolsHaveTheirServer, Open,
         Unused, NoRefresh, Conns
<1> QED
  BY <1>3, <1>4, <1>5 DEF CInv

(* Steps of a refresh that only move it on.                                *)
LEMMA RefresherMoves ==
  ASSUME CInv, refresher' \in [Refreshers -> RefreshState],
         \A p \in Refreshers : refresher'[p].pc = "closing" =>
            refresher[p].pc = "closing" /\ refresher'[p].at = refresher[p].at,
         UNCHANGED <<conn, current, registry, approved, caller, raced>>
  PROVE  CInv' /\ (OInv => OInv')
<1>1. CInv'
  BY DEF CInv, TypeOK, CallsOpen, Published, Relisting, Open
<1>2. ASSUME OInv PROVE Closing' /\ ClosingAlone'
  BY <1>2 DEF OInv, Closing, ClosingAlone
<1>3. ASSUME OInv PROVE OInv'
  BY <1>2, <1>3 DEF OInv, Owned, NobodyIsOrphaned, ToolsHaveTheirServer, Open
<1> QED
  BY <1>1, <1>3

LEMMA SweepMoves ==
  ASSUME CInv, NEW p \in Refreshers, NEW wanted \in SUBSET Servers, Sweep(p, wanted)
  PROVE  /\ refresher' \in [Refreshers -> RefreshState]
         /\ \A q \in Refreshers : refresher'[q].pc = "closing" =>
              refresher[q].pc = "closing" /\ refresher'[q].at = refresher[q].at
BY McpAssumption DEF CInv, TypeOK, Sweep, RefreshState

(* refresh up to its first await, and its steps without one.               *)
LEMMA MovesInv ==
  ASSUME CInv, NEW p \in Refreshers, NEW wanted \in SUBSET Servers, NEW s \in Servers,
         \/ Start(p, wanted) \/ Refresh(p, wanted) \/ Close(p)
         \/ Keep(p, s) \/ Swept(p) \/ AllBegun(p) \/ AllConnected(p)
  PROVE  CInv' /\ (OInv => OInv')
<1>1. CASE Start(p, wanted)
  BY <1>1, RefresherMoves DEF Start, CInv, TypeOK, RefreshState
<1>2. CASE Refresh(p, wanted)
  BY <1>2, SweepMoves, RefresherMoves DEF Refresh
<1>3. CASE Close(p)
  BY <1>3, SweepMoves, RefresherMoves DEF Close
<1>4. CASE Keep(p, s)
  BY <1>4, RefresherMoves DEF Keep, CInv, TypeOK, RefreshState
<1>8. refresher[p] \in RefreshState /\ NoRefresh \in RefreshState
  BY McpAssumption DEF CInv, TypeOK, NoRefresh, RefreshState
<1>9. ASSUME NEW x \in RefreshState, x.pc # "closing",
             refresher' = [refresher EXCEPT ![p] = x],
             UNCHANGED <<conn, current, registry, approved, caller, raced>>
      PROVE  CInv' /\ (OInv => OInv')
  <2>1. /\ refresher' \in [Refreshers -> RefreshState]
        /\ \A q \in Refreshers : refresher'[q] = IF q = p THEN x ELSE refresher[q]
    BY <1>9 DEF CInv, TypeOK
  <2>2. \A q \in Refreshers : refresher'[q].pc = "closing" =>
          refresher[q].pc = "closing" /\ refresher'[q].at = refresher[q].at
    BY <1>9, <2>1
  <2> QED
    BY <1>9, <2>1, <2>2, RefresherMoves
<1>5. CASE Swept(p)
  <2>1. PICK x : x = [NoRefresh EXCEPT !.pc = "connect", !.wanted = refresher[p].wanted,
                                       !.todo = refresher[p].wanted]
    OBVIOUS
  <2>2. x \in RefreshState /\ x.pc # "closing"
    BY <1>8, <2>1 DEF RefreshState
  <2>3. refresher' = [refresher EXCEPT ![p] = x]
    BY <1>5, <2>1 DEF Swept
  <2> QED
    BY <1>5, <1>9, <2>2, <2>3 DEF Swept
<1>6. CASE AllBegun(p)
  <2>1. PICK x : x = IF refresher[p].pc = "boot" THEN NoRefresh
                     ELSE [NoRefresh EXCEPT !.pc = "waiting", !.begun = refresher[p].begun]
    OBVIOUS
  <2>2. x \in RefreshState /\ x.pc # "closing"
    BY <1>8, <2>1 DEF RefreshState, NoRefresh
  <2>3. refresher' = [refresher EXCEPT ![p] = x]
    BY <1>6, <2>1 DEF AllBegun, CInv, TypeOK
  <2> QED
    BY <1>6, <1>9, <2>2, <2>3 DEF AllBegun
<1>7. CASE AllConnected(p)
  BY <1>7, RefresherMoves, McpAssumption DEF AllConnected, NoRefresh, CInv, TypeOK, RefreshState
<1> QED
  BY <1>1, <1>2, <1>3, <1>4, <1>5, <1>6, <1>7

-----------------------------------------------------------------------------
(* Steps that change one connection c.                                     *)

LEMMA ShutType ==
  ASSUME NEW x \in Connection
  PROVE  /\ Shut(x) \in Connection
         /\ Shut(x).server = x.server /\ Shut(x).live = x.live /\ Shut(x).tools = x.tools
         /\ Shut(x).closed /\ ~Shut(x).relist
         /\ Shut(x).state = IF x.state = "connecting" THEN "failed" ELSE x.state
BY DEF Shut, Connection

(* Calls and tools of others do not mind, and those of c are rejected or   *)
(* find it as it was.                                                      *)
LEMMA ConnectionCalls ==
  ASSUME CInv, NEW c \in Conns, conn'[c] \in Connection,
         conn' = [conn EXCEPT ![c] = conn'[c]],
         conn[c].state \in Known => conn'[c].state \in Known,
         conn'[c].relist => conn'[c].state = "ready",
         \/ caller' = CallsRejected(c)
         \/ /\ UNCHANGED caller
            /\ conn[c].state \in Known =>
                 conn'[c].live = conn[c].live /\ conn'[c].closed = conn[c].closed,
         \A s \in Servers, t \in Tools :
           \/ registry'[s][t] \in {0, registry[s][t]}
           \/ registry'[s][t] = c /\ conn'[c].state \in Known,
         registry' \in [Servers -> [Tools -> 0 .. MaxConns]],
         current' \in [Servers -> 0 .. MaxConns], approved' \subseteq Servers,
         refresher' \in [Refreshers -> RefreshState], raced' \subseteq Servers
  PROVE  CInv'
<1>1. conn' \in [Conns -> Connection]
      /\ \A b \in Conns \ {c} : conn'[b] = conn[b]
  BY DEF CInv, TypeOK
<1>2. caller' \in [Callers -> CallState]
      /\ \A k \in Callers : caller'[k] = caller[k] \/ caller'[k] = NoCall
  BY McpAssumption DEF CInv, TypeOK, CallsRejected, NoCall, CallState
<1>3. TypeOK'
  BY <1>1, <1>2 DEF TypeOK
<1>4. CallsOpen'
  <2> SUFFICES ASSUME NEW k \in Callers, caller'[k].pc \in {"asking", "calling"}
               PROVE  /\ caller'[k].pc = "calling" => Open(caller[k].on)'
                      /\ caller'[k].on \in Conns /\ conn'[caller'[k].on].state \in Known
    BY DEF CallsOpen
  <2>1. caller'[k] = caller[k]
    BY <1>2 DEF NoCall
  <2>2. caller[k].on \in Conns /\ conn[caller[k].on].state \in Known
    BY <2>1 DEF CInv, CallsOpen
  <2>3. conn'[caller[k].on].state \in Known
    BY <1>1, <2>2
  <2>4. ASSUME caller[k].pc = "calling" PROVE Open(caller[k].on)'
    <3>1. Open(caller[k].on)
      BY <2>4 DEF CInv, CallsOpen
    <3>2. CASE caller[k].on # c
      BY <1>1, <2>1, <2>2, <3>1, <3>2 DEF Open
    <3>3. CASE caller[k].on = c
      <4>1. caller' # CallsRejected(c)
        BY <2>1, <2>4, <3>3 DEF CallsRejected, NoCall
      <4> QED
        BY <1>1, <2>1, <2>2, <3>1, <3>3, <4>1 DEF Open
    <3> QED
      BY <3>2, <3>3
  <2> QED
    BY <2>1, <2>2, <2>3, <2>4
<1>5. Published'
  BY <1>1 DEF CInv, Published, TypeOK
<1>6. Relisting'
  BY <1>1 DEF CInv, Relisting
<1> QED
  BY <1>3, <1>4, <1>5, <1>6 DEF CInv

LEMMA DisconnectInv ==
  ASSUME CInv, NEW p \in Refreshers, NEW s \in Servers, Disconnect(p, s)
  PROVE  CInv' /\ (OInv => OInv')
<1>0. PICK c \in Conns : c = current[s]
  BY McpAssumption DEF Disconnect, CInv, TypeOK, Conns
<1> USE <1>0
<1>1. c \in Conns /\ c # 0 /\ conn[c] \in Connection
  BY McpAssumption DEF Disconnect, CInv, TypeOK, Conns
<1>2. /\ conn' = [conn EXCEPT ![c] = Shut(conn[c])]
      /\ Shut(conn[c]) \in Connection
      /\ conn'[c] = Shut(conn[c])
      /\ conn' = [conn EXCEPT ![c] = conn'[c]]
      /\ \A b \in Conns \ {c} : conn'[b] = conn[b]
  BY <1>1, ShutType DEF Disconnect, CInv, TypeOK
<1>3. /\ registry' \in [Servers -> [Tools -> 0 .. MaxConns]]
      /\ \A t \in Tools : registry'[s][t] = IF t \in conn[c].tools THEN 0 ELSE registry[s][t]
      /\ \A r \in Servers \ {s} : registry'[r] = registry[r]
  BY McpAssumption DEF Disconnect, CInv, TypeOK, Unpublish
<1>4. /\ current' \in [Servers -> 0 .. MaxConns] /\ approved' \subseteq Servers
      /\ \A r \in Servers \ {s} : current'[r] = current[r]
      /\ IF Open(c) THEN current' = current ELSE current'[s] = 0
  <2>1. CASE Open(c)
    BY <2>1 DEF Disconnect, CInv, TypeOK
  <2>2. CASE ~Open(c)
    <3>1. current' = [current EXCEPT ![s] = 0] /\ approved' = approved \ {s}
      BY <2>2 DEF Disconnect, Forget
    <3>2. 0 \in 0 .. MaxConns
      BY McpAssumption
    <3> QED
      BY <2>2, <3>1, <3>2 DEF CInv, TypeOK
  <2> QED
    BY <2>1, <2>2
<1>5. /\ refresher' \in [Refreshers -> RefreshState]
      /\ IF Open(c) THEN refresher'[p].at = c ELSE refresher'[p].pc = "sweep"
      /\ \A q \in Refreshers \ {p} : refresher'[q] = refresher[q]
  <2>1. refresher[p] \in RefreshState /\ refresher[p].pc = "sweep" /\ c \in 0 .. MaxConns
    <3>1. refresher[p] \in RefreshState
      BY DEF CInv, TypeOK
    <3>2. refresher[p].pc = "sweep"
      BY DEF Disconnect, SweepsNext
    <3>3. c \in 0 .. MaxConns
      BY McpAssumption, <1>1 DEF Conns
    <3> QED
      BY <3>1, <3>2, <3>3
  <2>2. ASSUME NEW x \in RefreshState
        PROVE  /\ [x EXCEPT !.todo = @ \ {s}] \in RefreshState
               /\ [x EXCEPT !.todo = @ \ {s}].pc = x.pc
               /\ [x EXCEPT !.todo = @ \ {s}, !.pc = "closing", !.at = c] \in RefreshState
               /\ [x EXCEPT !.todo = @ \ {s}, !.pc = "closing", !.at = c].at = c
    BY <2>1 DEF RefreshState
  <2>3. CASE Open(c)
    <3>1. refresher' = [refresher EXCEPT ![p] =
                          [refresher[p] EXCEPT !.todo = refresher[p].todo \ {s}, !.pc = "closing",
                                              !.at = c]]
      BY <2>1, <2>3 DEF Disconnect, CInv, TypeOK
    <3> QED
      BY <2>1, <2>2, <2>3, <3>1 DEF CInv, TypeOK
  <2>4. CASE ~Open(c)
    <3>1. refresher' =
             [refresher EXCEPT ![p] = [refresher[p] EXCEPT !.todo = refresher[p].todo \ {s}]]
      BY <2>4 DEF Disconnect
    <3> QED
      BY <2>1, <2>2, <2>4, <3>1 DEF CInv, TypeOK
  <2> QED
    BY <2>3, <2>4
<1>9. /\ raced' = raced \cup {conn[c].server : q \in {q \in Refreshers :
                               refresher[q].pc = "closing" /\ refresher[q].at = c}}
      /\ raced' \subseteq Servers
  BY <1>1 DEF Disconnect, Raced, CInv, TypeOK, Connection
<1>6. CInv'
  <2>1. conn[c].state \in Known => Shut(conn[c]).state \in Known
    BY <1>1, ShutType DEF Known
  <2>2. caller' = CallsRejected(c)
    BY DEF Disconnect
  <2>3. \A r \in Servers, t \in Tools :
          \/ registry'[r][t] \in {0, registry[r][t]}
          \/ registry'[r][t] = c /\ conn'[c].state \in Known
    BY <1>3
  <2>4. /\ conn'[c] \in Connection /\ ~conn'[c].relist
        /\ conn[c].state \in Known => conn'[c].state \in Known
    BY <1>1, <1>2, <2>1, ShutType
  <2> QED
    BY <1>1, <1>2, <1>3, <1>4, <1>5, <1>9, <2>2, <2>3, <2>4, ConnectionCalls
<1>7. ASSUME OInv PROVE OInv'
  <2> USE <1>7
  <2>1. /\ conn'[c].server = conn[c].server /\ conn'[c].closed /\ ~conn'[c].relist
        /\ conn'[c].live = conn[c].live
        /\ conn[c].state # "unused" => conn'[c].state # "unused"
    BY <1>1, <1>2, ShutType
  <2>2. conn[c].server = s /\ conn[c].state # "unused"
    BY <1>1 DEF OInv, Owned
  <2>3. Owned'
    BY <1>1, <1>2, <1>4, <2>1, <2>2 DEF OInv, Owned, CInv, TypeOK, Conns
  <2>4. ASSUME NEW q \in Refreshers, refresher[q].pc = "closing", refresher[q].at = c
        PROVE  s \in raced' /\ conn[c].closed
    BY <1>9, <2>2, <2>4 DEF OInv, Closing
  <2>5. Closing' /\ ClosingAlone'
    <3>1. ASSUME NEW q \in Refreshers, refresher'[q].pc = "closing"
          PROVE  LET b == refresher'[q].at
                 IN /\ b \in Conns /\ conn'[b].closed /\ conn'[b].state # "unused"
                    /\ conn'[b].server \in raced' \/ current'[conn'[b].server] = b
      <4>1. CASE q = p
        <5>1. Open(c) /\ refresher'[p].at = c
          BY <1>5, <3>1, <4>1
        <5> QED
          BY <1>1, <1>4, <2>1, <2>2, <4>1, <5>1
      <4>2. CASE q # p
        <5>1. PICK b \in Conns : b = refresher'[q].at /\ b = refresher[q].at
          BY <1>5, <3>1, <4>2 DEF OInv, Closing
        <5>2. /\ refresher[q].pc = "closing" /\ conn[b].closed /\ conn[b].state # "unused"
              /\ conn[b].server \in raced \/ current[conn[b].server] = b
              /\ conn[b].server \in Servers
          BY <1>5, <3>1, <4>2, <5>1 DEF OInv, Closing, CInv, TypeOK, Connection
        <5>3. CASE b = c
          BY <2>1, <2>2, <2>4, <5>1, <5>2, <5>3
        <5>4. CASE b # c
          <6>1. conn'[b] = conn[b]
            BY <1>2, <5>4
          <6>2. conn[b].server \in raced' \/ conn[b].server # s
            BY <1>9, <5>2, <5>4
          <6> QED
            BY <1>4, <1>9, <5>1, <5>2, <6>1, <6>2
        <5> QED
          BY <5>3, <5>4
      <4> QED
        BY <4>1, <4>2
    <3>2. ASSUME NEW q \in Refreshers, NEW r \in Refreshers, q # r,
                 refresher'[q].pc = "closing", refresher'[r].pc = "closing",
                 refresher'[q].at = refresher'[r].at
          PROVE  FALSE
      <4>1. CASE q # p /\ r # p
        BY <1>5, <3>2, <4>1 DEF OInv, ClosingAlone
      <4>2. ASSUME NEW u \in Refreshers, u # p, refresher'[u].pc = "closing",
                   refresher'[p].pc = "closing", refresher'[u].at = refresher'[p].at
            PROVE  FALSE
        <5>1. Open(c) /\ refresher[u].pc = "closing" /\ refresher[u].at = c
          BY <1>5, <4>2
        <5> QED
          BY <2>4, <4>2, <5>1 DEF Open
      <4>3. CASE q = p
        BY <3>2, <4>2, <4>3
      <4>4. CASE r = p
        BY <3>2, <4>2, <4>4
      <4> QED
        BY <4>1, <4>3, <4>4
    <3>3. Closing'
      BY <3>1 DEF Closing
    <3>4. ClosingAlone'
      BY <3>2 DEF ClosingAlone
    <3> QED
      BY <3>3, <3>4
  <2>6. NobodyIsOrphaned'
    <3> SUFFICES ASSUME NEW b \in Conns, Open(b)', conn'[b].server \notin raced'
                 PROVE  current'[conn'[b].server] = b
      BY DEF NobodyIsOrphaned
    <3>1. b # c
      BY <2>1 DEF Open
    <3>2. current[conn[b].server] = b
      BY <1>2, <1>9, <3>1 DEF OInv, NobodyIsOrphaned, Open
    <3>3. conn[b].server \in Servers \ {s}
      BY <3>1, <3>2 DEF CInv, TypeOK, Connection
    <3> QED
      BY <1>2, <1>4, <3>1, <3>2, <3>3
  <2>7. ToolsHaveTheirServer'
    <3> SUFFICES ASSUME NEW r \in Servers \ raced', NEW t \in Tools, registry'[r][t] # 0
                 PROVE  /\ current'[r] = registry'[r][t]
                        /\ conn'[registry'[r][t]].live /\ ~conn'[registry'[r][t]].closed
                        /\ conn'[registry'[r][t]].state = "ready"
                        /\ t \in conn'[registry'[r][t]].tools
      BY DEF ToolsHaveTheirServer, Open
    <3>1. registry'[r][t] = registry[r][t] /\ registry[r][t] \in Conns
      BY <1>3 DEF CInv, Published
    <3>2. LET b == registry[r][t]
          IN current[r] = b /\ Open(b) /\ conn[b].state = "ready" /\ t \in conn[b].tools
      BY <1>9, <3>1 DEF OInv, ToolsHaveTheirServer
    <3>3. r # s
      BY <1>3, <3>1, <3>2
    <3>4. registry[r][t] # c
      BY <2>2, <3>1, <3>2, <3>3 DEF OInv, Owned
    <3> QED
      BY <1>2, <1>4, <3>1, <3>2, <3>3, <3>4 DEF Open
  <2> QED
    BY <2>3, <2>5, <2>6, <2>7 DEF OInv
<1> QED
  BY <1>6, <1>7

LEMMA DisconnectedInv ==
  ASSUME CInv, NEW p \in Refreshers, Disconnected(p)
  PROVE  CInv' /\ (OInv => OInv')
<1> DEFINE c == refresher[p].at
           s == conn[c].server
<1> USE DEF Disconnected
<1>1. CInv'
  <2>1. 0 \in 0 .. MaxConns
    BY McpAssumption
  <2>2. current' \in [Servers -> 0 .. MaxConns] /\ approved' \subseteq Servers
    BY <2>1 DEF CInv, TypeOK, Forget
  <2>3. refresher' \in [Refreshers -> RefreshState]
    <3>1. refresher[p] \in RefreshState
      BY DEF CInv, TypeOK
    <3>2. [refresher[p] EXCEPT !.pc = "sweep", !.at = 0] \in RefreshState
      BY <2>1, <3>1 DEF RefreshState
    <3>3. refresher' = [refresher EXCEPT ![p] = [refresher[p] EXCEPT !.pc = "sweep", !.at = 0]]
      OBVIOUS
    <3> QED
      BY <3>2, <3>3 DEF CInv, TypeOK
  <2> QED
    BY <2>2, <2>3 DEF CInv, TypeOK, CallsOpen, Published, Relisting, Open
<1>2. ASSUME OInv PROVE OInv'
  <2> USE <1>2
  <2>1. /\ c \in Conns /\ conn[c].closed /\ s \in Servers
        /\ s \in raced \/ current[s] = c
    BY DEF OInv, Closing, CInv, TypeOK, Connection
  <2>2. /\ current' = [current EXCEPT ![s] = 0]
        /\ raced' = raced /\ conn' = conn /\ registry' = registry
    BY DEF Forget
  <2>3. Owned'
    BY <2>1, <2>2 DEF OInv, Owned, CInv, TypeOK
  <2>4. \A q \in Refreshers : refresher'[q].pc = "closing" =>
          q # p /\ refresher'[q] = refresher[q]
    BY DEF CInv, TypeOK, RefreshState
  <2>7. Closing'
    <3> SUFFICES ASSUME NEW q \in Refreshers, refresher'[q].pc = "closing"
                 PROVE  LET b == refresher[q].at
                        IN /\ b \in Conns /\ conn[b].closed /\ conn[b].state # "unused"
                           /\ conn[b].server \in raced \/ current'[conn[b].server] = b
      BY <2>2, <2>4 DEF Closing
    <3>1. PICK b \in Conns : b = refresher[q].at
      BY <2>4 DEF OInv, Closing
    <3>2. /\ conn[b].closed /\ conn[b].server \in Servers /\ conn[b].state # "unused"
          /\ conn[b].server \in raced \/ current[conn[b].server] = b
      BY <2>4, <3>1 DEF OInv, Closing, CInv, TypeOK, Connection
    <3>3. b # c
      BY <2>4, <3>1 DEF OInv, ClosingAlone
    <3> QED
      BY <2>1, <2>2, <3>1, <3>2, <3>3 DEF CInv, TypeOK
  <2>8. ClosingAlone'
    BY <2>4 DEF OInv, ClosingAlone
  <2>5. NobodyIsOrphaned'
    BY <2>1, <2>2 DEF OInv, NobodyIsOrphaned, Open, CInv, TypeOK, Connection
  <2>6. ToolsHaveTheirServer'
    BY <2>1, <2>2 DEF OInv, ToolsHaveTheirServer, Open, CInv, TypeOK
  <2> QED
    BY <2>3, <2>5, <2>6, <2>7, <2>8 DEF OInv
<1> QED
  BY <1>1, <1>2

(* A server nobody is connected to gets a connection never used before.    *)
LEMMA ConnectOneInv ==
  ASSUME CInv, NEW p \in Refreshers, NEW s \in Servers, NEW built \in BOOLEAN,
         ConnectOne(p, s, built)
  PROVE  CInv' /\ (OInv => OInv')
<1>1. /\ refresher' \in [Refreshers -> RefreshState]
      /\ \A q \in Refreshers : refresher'[q].pc = "closing" =>
           refresher[q].pc = "closing" /\ refresher'[q].at = refresher[q].at
  <2>1. refresher[p] \in RefreshState /\ refresher \in [Refreshers -> RefreshState]
    BY DEF CInv, TypeOK
  <2>2. PICK more \in SUBSET Conns :
          refresher' = [refresher EXCEPT ![p] = [refresher[p] EXCEPT
                          !.todo = refresher[p].todo \ {s}, !.begun = more]]
    <3>1. CASE current[s] # 0
      <4>1. [refresher[p] EXCEPT !.todo = refresher[p].todo \ {s}]
              = [refresher[p] EXCEPT !.todo = refresher[p].todo \ {s},
                                     !.begun = refresher[p].begun]
        BY <2>1 DEF RefreshState
      <4>2. refresher[p].begun \in SUBSET Conns
        BY <2>1 DEF RefreshState
      <4> QED
        BY <3>1, <4>1, <4>2 DEF ConnectOne
    <3>2. CASE current[s] = 0
      <4>1. PICK c \in Conns :
              refresher' = [refresher EXCEPT ![p] = [refresher[p] EXCEPT
                              !.todo = refresher[p].todo \ {s},
                              !.begun = refresher[p].begun \cup {c}]]
        BY <2>1, <3>2 DEF ConnectOne
      <4>2. refresher[p].begun \cup {c} \in SUBSET Conns
        BY <2>1 DEF RefreshState
      <4> QED
        BY <4>1, <4>2
    <3> QED
      BY <3>1, <3>2
  <2>3. ASSUME NEW x, x = [refresher[p] EXCEPT !.todo = refresher[p].todo \ {s}, !.begun = more]
        PROVE  x \in RefreshState /\ x.pc = refresher[p].pc /\ x.at = refresher[p].at
    BY <2>1, <2>3 DEF RefreshState
  <2> QED
    BY <2>1, <2>2, <2>3
<1>2. CASE current[s] # 0
  BY <1>1, <1>2, RefresherMoves DEF ConnectOne
<1>3. CASE current[s] = 0
  <2>1. PICK c \in Conns :
          /\ conn[c].state = "unused"
          /\ current' = [current EXCEPT ![s] = c]
          /\ conn' = [conn EXCEPT ![c] = [conn[c] EXCEPT
                        !.server = s, !.live = built, !.opening = built,
                        !.state = IF built THEN "connecting" ELSE "failed"]]
    BY <1>3 DEF ConnectOne
  <2>2. /\ conn'[c] \in Connection
        /\ conn' = [conn EXCEPT ![c] = conn'[c]]
        /\ \A b \in Conns \ {c} : conn'[b] = conn[b]
        /\ conn'[c].server = s /\ conn'[c].state \in {"connecting", "failed"}
        /\ ~conn'[c].relist
    BY <2>1 DEF CInv, TypeOK, Connection, Relisting
  <2>3. UNCHANGED <<registry, approved, caller, raced>>
    BY DEF ConnectOne
  <2>4. /\ current' \in [Servers -> 0 .. MaxConns] /\ current'[s] = c /\ c # 0
        /\ \A r \in Servers \ {s} : current'[r] = current[r]
    BY <2>1, McpAssumption DEF CInv, TypeOK, Conns
  <2>5. CInv'
    <3>1. conn[c].state \notin Known
      BY <2>1 DEF Known
    <3>2. /\ registry' \in [Servers -> [Tools -> 0 .. MaxConns]]
          /\ approved' \subseteq Servers /\ raced' \subseteq Servers
      BY <2>3 DEF CInv, TypeOK
    <3> QED
      BY <1>1, <2>2, <2>3, <2>4, <3>1, <3>2, ConnectionCalls
  <2>6. ASSUME OInv PROVE OInv'
    <3> USE <2>6
    <3>1. \A r \in Servers : current[r] # c
      BY <2>1, <2>4 DEF OInv, Owned
    <3>2. Owned'
      <4> SUFFICES ASSUME NEW r \in Servers, current'[r] # 0
                   PROVE  conn'[current'[r]].server = r /\ conn'[current'[r]].state # "unused"
        BY DEF Owned
      <4>1. CASE r = s
        BY <2>2, <2>4, <4>1
      <4>2. CASE r # s
        <5>1. current'[r] = current[r] /\ current[r] # c /\ current[r] \in Conns
          BY <2>4, <3>1, <4>2, McpAssumption DEF CInv, TypeOK, Conns
        <5> QED
          BY <2>2, <5>1 DEF OInv, Owned
      <4> QED
        BY <4>1, <4>2
    <3>4. Closing'
      <4> SUFFICES ASSUME NEW q \in Refreshers, refresher'[q].pc = "closing"
                   PROVE  LET b == refresher[q].at
                          IN /\ b \in Conns /\ conn'[b].closed /\ conn'[b].state # "unused"
                             /\ conn'[b].server \in raced \/ current'[conn'[b].server] = b
        BY <1>1, <2>3 DEF Closing
      <4>1. PICK b \in Conns : b = refresher[q].at /\ refresher[q].pc = "closing"
        BY <1>1 DEF OInv, Closing
      <4>2. /\ conn[b].closed /\ conn[b].server \in Servers /\ conn[b].state # "unused"
            /\ conn[b].server \in raced \/ current[conn[b].server] = b
        BY <4>1 DEF OInv, Closing, CInv, TypeOK, Connection
      <4>3. b # c
        BY <2>1, <4>2
      <4>4. current[conn[b].server] = b => conn[b].server # s
        BY <1>3, <4>1 DEF Conns
      <4> QED
        BY <2>2, <2>4, <4>1, <4>2, <4>3, <4>4
    <3>7. ClosingAlone'
      BY <1>1 DEF OInv, ClosingAlone
    <3>5. NobodyIsOrphaned'
      <4> SUFFICES ASSUME NEW b \in Conns, conn'[b].live, ~conn'[b].closed,
                          conn'[b].server \notin raced
                   PROVE  current'[conn'[b].server] = b
        BY <2>3 DEF NobodyIsOrphaned, Open
      <4>1. CASE b = c
        BY <2>2, <2>4, <4>1
      <4>2. CASE b # c
        <5>1. conn'[b] = conn[b]
          BY <2>2, <4>2
        <5>2. current[conn[b].server] = b
          BY <5>1 DEF OInv, NobodyIsOrphaned, Open
        <5>3. conn[b].server \in Servers /\ b # 0
          BY DEF CInv, TypeOK, Connection, Conns
        <5> QED
          BY <1>3, <2>4, <5>1, <5>2, <5>3
      <4> QED
        BY <4>1, <4>2
    <3>6. ToolsHaveTheirServer'
      <4> SUFFICES ASSUME NEW r \in Servers \ raced, NEW t \in Tools, registry[r][t] # 0
                   PROVE  /\ current'[r] = registry[r][t]
                          /\ conn'[registry[r][t]].live /\ ~conn'[registry[r][t]].closed
                          /\ conn'[registry[r][t]].state = "ready"
                          /\ t \in conn'[registry[r][t]].tools
        BY <2>3 DEF ToolsHaveTheirServer, Open
      <4>1. /\ current[r] = registry[r][t]
            /\ conn[registry[r][t]].live /\ ~conn[registry[r][t]].closed
            /\ conn[registry[r][t]].state = "ready"
            /\ t \in conn[registry[r][t]].tools
        BY DEF OInv, ToolsHaveTheirServer, Open
      <4>2. registry[r][t] \in Conns /\ registry[r][t] # c /\ r # s
        BY <1>3, <3>1, <4>1 DEF CInv, Published
      <4> QED
        BY <2>2, <2>4, <4>1, <4>2
    <3> QED
      BY <3>2, <3>4, <3>5, <3>6, <3>7 DEF OInv
  <2> QED
    BY <2>5, <2>6
<1> QED
  BY <1>2, <1>3

-----------------------------------------------------------------------------
(* Steps of connection c while no refresh runs: the map of connections     *)
(* stays, and what was true of the others.                                 *)
LEMMA ConnectionOthers ==
  ASSUME CInv, OInv, NEW c \in Conns, conn'[c] \in Connection,
         conn' = [conn EXCEPT ![c] = conn'[c]],
         conn'[c].server = conn[c].server,
         conn[c].state # "unused" => conn'[c].state # "unused",
         conn[c].closed => conn'[c].closed,
         conn'[c].live /\ ~conn'[c].closed => conn[c].live /\ ~conn[c].closed,
         UNCHANGED <<current, refresher, raced>>
  PROVE  Owned' /\ Closing' /\ ClosingAlone' /\ NobodyIsOrphaned'
<1>1. \A b \in Conns \ {c} : conn'[b] = conn[b]
  BY DEF CInv, TypeOK
<1>2. Owned'
  BY <1>1 DEF OInv, Owned, CInv, TypeOK, Conns
<1>4. Closing'
  <2> SUFFICES ASSUME NEW q \in Refreshers, refresher[q].pc = "closing"
               PROVE  LET b == refresher[q].at
                      IN /\ b \in Conns /\ conn'[b].closed /\ conn'[b].state # "unused"
                         /\ conn'[b].server \in raced \/ current[conn'[b].server] = b
    BY DEF Closing
  <2>1. LET b == refresher[q].at
        IN /\ b \in Conns /\ conn[b].closed /\ conn[b].state # "unused"
           /\ conn[b].server \in raced \/ current[conn[b].server] = b
    BY DEF OInv, Closing
  <2> QED
    BY <1>1, <2>1
<1>5. ClosingAlone'
  BY DEF OInv, ClosingAlone
<1>6. NobodyIsOrphaned'
  BY <1>1 DEF OInv, NobodyIsOrphaned, Open
<1> QED
  BY <1>2, <1>4, <1>5, <1>6

LEMMA OtherTools ==
  ASSUME CInv, OInv, NEW c \in Conns,
         conn' = [conn EXCEPT ![c] = conn'[c]],
         \A s \in Servers \ {conn[c].server} : registry'[s] = registry[s],
         UNCHANGED <<current, raced>>,
         conn[c].server \notin raced =>
           \A t \in Tools : registry'[conn[c].server][t] # 0 =>
             /\ registry'[conn[c].server][t] = c /\ current[conn[c].server] = c
             /\ conn'[c].live /\ ~conn'[c].closed /\ conn'[c].state = "ready"
             /\ t \in conn'[c].tools
  PROVE  ToolsHaveTheirServer'
<1>1. \A b \in Conns \ {c} : conn'[b] = conn[b]
  BY DEF CInv, TypeOK
<1> SUFFICES ASSUME NEW s \in Servers \ raced, NEW t \in Tools, registry'[s][t] # 0
             PROVE  /\ current[s] = registry'[s][t]
                    /\ conn'[registry'[s][t]].live /\ ~conn'[registry'[s][t]].closed
                    /\ conn'[registry'[s][t]].state = "ready"
                    /\ t \in conn'[registry'[s][t]].tools
  BY DEF ToolsHaveTheirServer, Open
<1>2. CASE s = conn[c].server
  BY <1>2
<1>3. CASE s # conn[c].server
  <2>1. registry'[s][t] = registry[s][t] /\ registry[s][t] \in Conns
    BY <1>3 DEF CInv, Published
  <2>2. /\ current[s] = registry[s][t]
        /\ conn[registry[s][t]].live /\ ~conn[registry[s][t]].closed
        /\ conn[registry[s][t]].state = "ready" /\ t \in conn[registry[s][t]].tools
    BY <2>1 DEF OInv, ToolsHaveTheirServer, Open
  <2>3. registry[s][t] # c
    BY <1>3, <2>1, <2>2 DEF OInv, Owned, Conns
  <2> QED
    BY <1>1, <2>1, <2>2, <2>3
<1> QED
  BY <1>2, <1>3

(* Handshake and first list have come back.                                *)
LEMMA ConnectedInv ==
  ASSUME CInv, NEW c \in Conns, NEW list \in SUBSET Tools, Connected(c, list)
  PROVE  CInv' /\ (OInv => OInv')
<1>1. /\ conn[c] \in Connection /\ conn[c].live /\ ~conn[c].closed
      /\ conn[c].state = "connecting" /\ ~conn[c].relist /\ c \in 0 .. MaxConns
  BY DEF Connected, Open, CInv, TypeOK, Relisting, Conns
<1>2. UNCHANGED <<current, approved, refresher, caller, raced>>
  BY DEF Connected
<1>3. PICK new \in SUBSET Tools : new = Unpublished(c, list)
  BY DEF Unpublished
<1>4. /\ conn'[c] = [conn[c] EXCEPT !.state = "ready", !.opening = FALSE, !.tools = new]
      /\ conn' = [conn EXCEPT ![c] = conn'[c]]
  BY <1>3 DEF Connected, CInv, TypeOK
<1>5. /\ conn'[c] \in Connection /\ conn'[c].state = "ready" /\ conn'[c].tools = new
      /\ conn'[c].server = conn[c].server /\ conn'[c].live /\ ~conn'[c].closed
      /\ ~conn'[c].relist
  BY <1>1, <1>4 DEF Connection
<1>6. /\ registry' \in [Servers -> [Tools -> 0 .. MaxConns]]
      /\ \A r \in Servers \ {conn[c].server} : registry'[r] = registry[r]
      /\ \A t \in Tools : registry'[conn[c].server][t] =
           IF t \in list /\ registry[conn[c].server][t] = 0 THEN c
           ELSE registry[conn[c].server][t]
  BY <1>1 DEF Connected, Publish, CInv, TypeOK, Connection
<1>7. CInv'
  <2>1. \A r \in Servers, t \in Tools :
          \/ registry'[r][t] \in {0, registry[r][t]}
          \/ registry'[r][t] = c /\ conn'[c].state \in Known
    BY <1>5, <1>6 DEF Known
  <2>2. conn[c].state \notin Known
    BY <1>1 DEF Known
  <2>3. current' \in [Servers -> 0 .. MaxConns] /\ approved' \subseteq Servers
        /\ refresher' \in [Refreshers -> RefreshState] /\ raced' \subseteq Servers
    BY <1>2 DEF CInv, TypeOK
  <2> QED
    BY <1>2, <1>4, <1>5, <1>6, <2>1, <2>2, <2>3, ConnectionCalls
<1>8. ASSUME OInv PROVE OInv'
  <2>1. Owned' /\ Closing' /\ ClosingAlone' /\ NobodyIsOrphaned'
    BY <1>1, <1>2, <1>4, <1>5, <1>8, ConnectionOthers
  <2>2. /\ conn[c].server \in Servers
        /\ conn[c].server \notin raced => current[conn[c].server] = c
    BY <1>1, <1>8 DEF OInv, NobodyIsOrphaned, Open, Connection
  <2>3. ASSUME NEW t \in Tools, registry'[conn[c].server][t] # 0, conn[c].server \notin raced
        PROVE  registry'[conn[c].server][t] = c /\ t \in conn'[c].tools
    <3>1. registry[conn[c].server][t] = 0
      BY <1>1, <1>8, <2>2, <2>3 DEF OInv, ToolsHaveTheirServer
    <3> QED
      BY <1>3, <1>5, <1>6, <2>3, <3>1 DEF Unpublished
  <2>4. ToolsHaveTheirServer'
    BY <1>2, <1>4, <1>5, <1>6, <1>8, <2>2, <2>3, OtherTools
  <2> QED
    BY <2>1, <2>4 DEF OInv
<1> QED
  BY <1>7, <1>8

(* The handshake fails.                                                    *)
LEMMA ConnectFailsInv ==
  ASSUME CInv, NEW c \in Conns, ConnectFails(c)
  PROVE  CInv' /\ (OInv => OInv')
<1>1. conn[c] \in Connection /\ conn[c].state = "connecting"
  BY DEF ConnectFails, CInv, TypeOK
<1>2. UNCHANGED <<current, approved, refresher, caller, registry, raced>>
  BY DEF ConnectFails
<1>3. /\ conn'[c] = [Shut(conn[c]) EXCEPT !.opening = TRUE]
      /\ conn' = [conn EXCEPT ![c] = conn'[c]]
  BY DEF ConnectFails, CInv, TypeOK
<1>4. /\ conn'[c] \in Connection /\ conn'[c].server = conn[c].server
      /\ conn'[c].closed /\ ~conn'[c].relist /\ conn'[c].state = "failed"
  <2>1. /\ Shut(conn[c]) \in Connection /\ Shut(conn[c]).server = conn[c].server
        /\ Shut(conn[c]).closed /\ ~Shut(conn[c]).relist /\ Shut(conn[c]).state = "failed"
    BY <1>1, ShutType
  <2> QED
    BY <1>3, <2>1 DEF Connection
<1>5. conn[c].state \notin Known
  BY <1>1 DEF Known
<1>6. CInv'
  <2>1. /\ current' \in [Servers -> 0 .. MaxConns] /\ approved' \subseteq Servers
        /\ refresher' \in [Refreshers -> RefreshState] /\ raced' \subseteq Servers
        /\ registry' \in [Servers -> [Tools -> 0 .. MaxConns]]
    BY <1>2 DEF CInv, TypeOK
  <2>2. \A r \in Servers, t \in Tools : registry'[r][t] \in {0, registry[r][t]}
    BY <1>2
  <2> QED
    BY <1>2, <1>3, <1>4, <1>5, <2>1, <2>2, ConnectionCalls
<1>7. ASSUME OInv PROVE OInv'
  <2>1. Owned' /\ Closing' /\ ClosingAlone' /\ NobodyIsOrphaned'
    BY <1>1, <1>2, <1>3, <1>4, <1>7, ConnectionOthers
  <2>2. ToolsHaveTheirServer'
    BY <1>1, <1>2, <1>3, <1>7 DEF OInv, ToolsHaveTheirServer, Open, CInv, TypeOK, Published
  <2> QED
    BY <2>1, <2>2 DEF OInv
<1> QED
  BY <1>6, <1>7

(* A process that was told to go has gone.                                 *)
LEMMA ProcessGoneInv ==
  ASSUME CInv, NEW c \in Conns, ProcessGone(c)
  PROVE  CInv' /\ (OInv => OInv')
<1>1. conn[c] \in Connection /\ conn[c].closed
  BY DEF ProcessGone, CInv, TypeOK
<1>2. UNCHANGED <<current, approved, refresher, caller, registry, raced>>
  BY DEF ProcessGone
<1>3. /\ conn'[c] = [conn[c] EXCEPT !.live = FALSE, !.opening = FALSE]
      /\ conn' = [conn EXCEPT ![c] = conn'[c]]
  BY DEF ProcessGone, CInv, TypeOK
<1>4. /\ conn'[c] \in Connection /\ conn'[c].server = conn[c].server
      /\ conn'[c].closed /\ conn'[c].relist = conn[c].relist /\ conn'[c].state = conn[c].state
      /\ ~conn'[c].live
  BY <1>1, <1>3 DEF Connection
<1>5. \A b \in Conns \ {c} : conn'[b] = conn[b]
  BY <1>3 DEF CInv, TypeOK
<1>6. CInv'
  <2>1. TypeOK'
    BY <1>2, <1>3, <1>4 DEF CInv, TypeOK
  <2>2. CallsOpen' /\ Published' /\ Relisting'
    BY <1>1, <1>2, <1>4, <1>5 DEF CInv, TypeOK, CallsOpen, Published, Relisting, Open
  <2> QED
    BY <2>1, <2>2 DEF CInv
<1>7. ASSUME OInv PROVE OInv'
  <2>1. Owned' /\ Closing' /\ ClosingAlone' /\ NobodyIsOrphaned'
    BY <1>1, <1>2, <1>3, <1>4, <1>7, ConnectionOthers
  <2>2. ToolsHaveTheirServer'
    BY <1>1, <1>2, <1>5, <1>7 DEF OInv, ToolsHaveTheirServer, Open, CInv, TypeOK, Published
  <2> QED
    BY <2>1, <2>2 DEF OInv
<1> QED
  BY <1>6, <1>7

(* The process exits of its own accord.                                    *)
LEMMA DiesInv ==
  ASSUME CInv, NEW c \in Conns, Dies(c)
  PROVE  CInv' /\ (OInv => OInv')
<1>1. /\ conn[c] \in Connection /\ conn[c].live /\ ~conn[c].closed
      /\ conn[c].server \in Servers
  BY DEF Dies, Open, CInv, TypeOK, Connection
<1>2. UNCHANGED <<current, approved, refresher, raced>> /\ caller' = CallsRejected(c)
  BY DEF Dies
<1>3. PICK x : x = [conn[c] EXCEPT !.live = FALSE, !.relist = FALSE]
  OBVIOUS
<1>4. /\ x \in Connection /\ x.server = conn[c].server /\ ~x.live /\ ~x.relist
      /\ x.state = conn[c].state /\ x.closed = conn[c].closed
  BY <1>1, <1>3 DEF Connection
<1>5. PICK y : y = [x EXCEPT !.state = "failed", !.tools = {}]
  OBVIOUS
<1>6. /\ y \in Connection /\ y.server = conn[c].server /\ ~y.live /\ ~y.relist
      /\ y.state = "failed"
  BY <1>4, <1>5 DEF Connection
<1>7. conn' = [conn EXCEPT ![c] = conn'[c]] /\ conn'[c] \in {Shut(x), x, y}
  <2>1. \/ conn' = [conn EXCEPT ![c] = Shut(x)]
        \/ conn' = [conn EXCEPT ![c] = x]
        \/ conn' = [conn EXCEPT ![c] = y]
    BY <1>3, <1>5 DEF Dies
  <2>2. PICK z \in {Shut(x), x, y} : conn' = [conn EXCEPT ![c] = z]
    BY <2>1
  <2>3. conn'[c] = z
    BY <2>2 DEF CInv, TypeOK
  <2> QED
    BY <2>2, <2>3
<1>8. /\ conn'[c] \in Connection /\ conn'[c].server = conn[c].server
      /\ ~conn'[c].live /\ ~conn'[c].relist
      /\ conn[c].state # "unused" => conn'[c].state # "unused"
      /\ conn[c].state \in Known => conn'[c].state \in Known
      /\ conn[c].closed => conn'[c].closed
  <2>1. CASE conn'[c] = Shut(x)
    <3>1. /\ Shut(x) \in Connection /\ Shut(x).server = x.server /\ Shut(x).live = x.live
          /\ ~Shut(x).relist /\ Shut(x).closed
          /\ Shut(x).state = IF x.state = "connecting" THEN "failed" ELSE x.state
      BY <1>4, ShutType
    <3> QED
      BY <1>4, <2>1, <3>1 DEF Known
  <2>2. CASE conn'[c] = x
    BY <1>4, <2>2
  <2>3. CASE conn'[c] = y
    BY <1>1, <1>6, <2>3 DEF Known
  <2> QED
    BY <1>7, <2>1, <2>2, <2>3
<1>9. /\ registry' \in [Servers -> [Tools -> 0 .. MaxConns]]
      /\ \A r \in Servers, t \in Tools : registry'[r][t] \in {0, registry[r][t]}
  <2>1. registry \in [Servers -> [Tools -> 0 .. MaxConns]] /\ 0 \in 0 .. MaxConns
    BY McpAssumption DEF CInv, TypeOK
  <2>2. CASE UNCHANGED registry
    BY <2>1, <2>2
  <2>3. CASE registry' = Unpublish(conn[c].server, conn[c].tools)
    BY <1>1, <2>1, <2>3 DEF Unpublish
  <2> QED
    BY <2>2, <2>3 DEF Dies
<1>10. CInv'
  <2>1. current' \in [Servers -> 0 .. MaxConns] /\ approved' \subseteq Servers
        /\ refresher' \in [Refreshers -> RefreshState] /\ raced' \subseteq Servers
    BY <1>2 DEF CInv, TypeOK
  <2> QED
    BY <1>2, <1>7, <1>8, <1>9, <2>1, ConnectionCalls
<1>11. ASSUME OInv PROVE OInv'
  <2>1. Owned' /\ Closing' /\ ClosingAlone' /\ NobodyIsOrphaned'
    BY <1>1, <1>2, <1>7, <1>8, <1>11, ConnectionOthers
  <2>2. conn[c].server \notin raced => current[conn[c].server] = c
    BY <1>1, <1>11 DEF OInv, NobodyIsOrphaned, Open
  <2>3. \A b \in Conns \ {c} : conn'[b] = conn[b]
    BY <1>7 DEF CInv, TypeOK
  <2>4. ASSUME NEW r \in Servers \ raced, NEW t \in Tools, registry'[r][t] # 0
        PROVE  registry'[r][t] = registry[r][t] /\ registry[r][t] # c
    <3>1. registry'[r][t] = registry[r][t]
      BY <1>9, <2>4
    <3>2. ASSUME registry[r][t] = c PROVE FALSE
      <4>1. /\ current[r] = c /\ conn[c].state = "ready" /\ t \in conn[c].tools
        BY <2>4, <3>1, <3>2, <1>11 DEF OInv, ToolsHaveTheirServer
      <4>2. r = conn[c].server
        BY <1>11, <4>1 DEF OInv, Owned, Conns
      <4>3. registry' = Unpublish(r, conn[c].tools)
        BY <2>2, <4>1, <4>2 DEF Dies
      <4> QED
        BY <2>4, <4>1, <4>3 DEF Unpublish, CInv, TypeOK
    <3> QED
      BY <3>1, <3>2
  <2>5. ToolsHaveTheirServer'
    BY <1>2, <1>11, <2>3, <2>4 DEF OInv, ToolsHaveTheirServer, Open, CInv, Published
  <2> QED
    BY <2>1, <2>5 DEF OInv
<1> QED
  BY <1>10, <1>11

(* A new list is asked for.                                                *)
LEMMA ToolsChangedInv ==
  ASSUME CInv, NEW c \in Conns, ToolsChanged(c)
  PROVE  CInv' /\ (OInv => OInv')
<1>1. conn[c] \in Connection /\ conn[c].state = "ready"
  BY DEF ToolsChanged, CInv, TypeOK
<1>2. UNCHANGED <<current, approved, refresher, caller, registry, raced>>
  BY DEF ToolsChanged
<1>3. conn'[c] = [conn[c] EXCEPT !.relist = TRUE] /\ conn' = [conn EXCEPT ![c] = conn'[c]]
  BY DEF ToolsChanged, CInv, TypeOK
<1>4. /\ conn'[c] \in Connection /\ conn'[c].server = conn[c].server
      /\ conn'[c].closed = conn[c].closed /\ conn'[c].state = conn[c].state
      /\ conn'[c].live = conn[c].live /\ conn'[c].tools = conn[c].tools
  BY <1>1, <1>3 DEF Connection
<1>5. \A b \in Conns \ {c} : conn'[b] = conn[b]
  BY <1>3 DEF CInv, TypeOK
<1>6. CInv'
  <2>1. /\ current' \in [Servers -> 0 .. MaxConns] /\ approved' \subseteq Servers
        /\ refresher' \in [Refreshers -> RefreshState] /\ raced' \subseteq Servers
        /\ registry' \in [Servers -> [Tools -> 0 .. MaxConns]]
    BY <1>2 DEF CInv, TypeOK
  <2>2. \A r \in Servers, t \in Tools : registry'[r][t] \in {0, registry[r][t]}
    BY <1>2
  <2> QED
    BY <1>1, <1>2, <1>3, <1>4, <2>1, <2>2, ConnectionCalls
<1>7. ASSUME OInv PROVE OInv'
  <2>1. Owned' /\ Closing' /\ ClosingAlone' /\ NobodyIsOrphaned'
    BY <1>1, <1>2, <1>3, <1>4, <1>7, ConnectionOthers
  <2>2. \A b \in Conns : /\ conn'[b].live = conn[b].live /\ conn'[b].closed = conn[b].closed
                         /\ conn'[b].state = conn[b].state /\ conn'[b].tools = conn[b].tools
    BY <1>4, <1>5
  <2>3. ToolsHaveTheirServer'
    BY <1>2, <1>7, <2>2 DEF OInv, ToolsHaveTheirServer, Open, CInv, Published
  <2> QED
    BY <2>1, <2>3 DEF OInv
<1> QED
  BY <1>6, <1>7

(* The new list has come.                                                  *)
LEMMA RelistedInv ==
  ASSUME CInv, NEW c \in Conns, NEW list \in SUBSET Tools, Relisted(c, list)
  PROVE  CInv' /\ (OInv => OInv')
<1>1. /\ conn[c] \in Connection /\ conn[c].live /\ ~conn[c].closed
      /\ conn[c].relist /\ conn[c].state = "ready" /\ c \in 0 .. MaxConns
      /\ conn[c].server \in Servers /\ conn[c].tools \subseteq Tools
  BY DEF Relisted, Open, CInv, TypeOK, Relisting, Connection, Conns
<1>2. UNCHANGED <<current, approved, refresher, caller, raced>>
  BY DEF Relisted
<1>3. PICK new \in SUBSET Tools : new = Unpublished(c, list \ conn[c].tools)
  BY DEF Unpublished
<1>4. /\ conn'[c] = [conn[c] EXCEPT !.relist = FALSE, !.tools = (conn[c].tools \cap list) \cup new]
      /\ conn' = [conn EXCEPT ![c] = conn'[c]]
  BY <1>3 DEF Relisted, CInv, TypeOK
<1>5. /\ conn'[c] \in Connection /\ conn'[c].state = "ready"
      /\ conn'[c].tools = (conn[c].tools \cap list) \cup new
      /\ conn'[c].server = conn[c].server /\ conn'[c].live /\ ~conn'[c].closed
      /\ conn'[c].live = conn[c].live /\ conn'[c].closed = conn[c].closed
      /\ ~conn'[c].relist
  BY <1>1, <1>4 DEF Connection
<1>6. /\ registry' \in [Servers -> [Tools -> 0 .. MaxConns]]
      /\ \A r \in Servers \ {conn[c].server} : registry'[r] = registry[r]
      /\ \A t \in Tools : registry'[conn[c].server][t] =
           IF t \in conn[c].tools \ list THEN 0
           ELSE IF t \in new THEN c ELSE registry[conn[c].server][t]
  BY <1>1, <1>3, McpAssumption DEF Relisted, CInv, TypeOK
<1>7. CInv'
  <2>1. \A r \in Servers, t \in Tools :
          \/ registry'[r][t] \in {0, registry[r][t]}
          \/ registry'[r][t] = c /\ conn'[c].state \in Known
    BY <1>5, <1>6 DEF Known
  <2>2. current' \in [Servers -> 0 .. MaxConns] /\ approved' \subseteq Servers
        /\ refresher' \in [Refreshers -> RefreshState] /\ raced' \subseteq Servers
    BY <1>2 DEF CInv, TypeOK
  <2>3. conn'[c].state \in Known
    BY <1>5 DEF Known
  <2> QED
    BY <1>1, <1>2, <1>4, <1>5, <1>6, <2>1, <2>2, <2>3, ConnectionCalls
<1>8. ASSUME OInv PROVE OInv'
  <2>1. Owned' /\ Closing' /\ ClosingAlone' /\ NobodyIsOrphaned'
    BY <1>1, <1>2, <1>4, <1>5, <1>8, ConnectionOthers
  <2>2. conn[c].server \notin raced => current[conn[c].server] = c
    BY <1>1, <1>8 DEF OInv, NobodyIsOrphaned, Open
  <2>3. ASSUME NEW t \in Tools, registry'[conn[c].server][t] # 0, conn[c].server \notin raced
        PROVE  registry'[conn[c].server][t] = c /\ t \in conn'[c].tools
    <3>1. t \notin conn[c].tools \ list
      BY <1>6, <2>3
    <3>2. CASE t \in new
      BY <1>5, <1>6, <3>1, <3>2
    <3>3. CASE t \notin new
      <4>1. registry'[conn[c].server][t] = registry[conn[c].server][t]
        BY <1>6, <3>1, <3>3
      <4>2. registry[conn[c].server][t] = c /\ t \in conn[c].tools
        BY <1>1, <1>8, <2>2, <2>3, <4>1 DEF OInv, ToolsHaveTheirServer
      <4> QED
        BY <1>5, <3>1, <4>1, <4>2
    <3> QED
      BY <3>2, <3>3
  <2>4. ToolsHaveTheirServer'
    BY <1>2, <1>4, <1>5, <1>6, <1>8, <2>2, <2>3, OtherTools
  <2> QED
    BY <2>1, <2>4 DEF OInv
<1> QED
  BY <1>7, <1>8

-----------------------------------------------------------------------------
(* Calls touch no connection, and are sent to open ones.                   *)
LEMMA CallStepInv ==
  ASSUME CInv, NEW k \in Callers, CallStep(k)
  PROVE  CInv' /\ (OInv => OInv')
<1>1. UNCHANGED <<conn, current, registry, refresher, raced>>
  BY DEF CallStep, Call, Granted, Declined, CallOver
<1>2. ASSUME OInv PROVE OInv'
  BY <1>1, <1>2 DEF OInv, Owned, Closing, ClosingAlone, NobodyIsOrphaned, ToolsHaveTheirServer, Open
<1>3. PICK x : /\ caller' = [caller EXCEPT ![k] = x]
               /\ \/ x = NoCall
                  \/ \E c \in Conns : /\ conn[c].state \in Known
                                      /\ x = Sent(c) \/ x = [pc |-> "asking", on |-> c]
  <2>1. ASSUME NEW s \in Servers, NEW t \in Tools, Call(k, s, t)
        PROVE  \E c \in Conns : /\ conn[c].state \in Known
                                /\ \/ caller' = [caller EXCEPT ![k] = Sent(c)]
                                   \/ caller' = [caller EXCEPT ![k] = [pc |-> "asking", on |-> c]]
    BY <2>1 DEF Call, CInv, Published
  <2>2. ASSUME Granted(k)
        PROVE  \E c \in Conns : /\ conn[c].state \in Known
                                /\ caller' = [caller EXCEPT ![k] = Sent(c)]
    BY <2>2 DEF Granted, CInv, CallsOpen
  <2>3. ASSUME Declined(k) \/ CallOver(k) PROVE caller' = [caller EXCEPT ![k] = NoCall]
    BY <2>3 DEF Declined, CallOver
  <2> QED
    BY <2>1, <2>2, <2>3 DEF CallStep
<1>4. /\ x \in CallState
      /\ x.pc = "calling" => Open(x.on)
      /\ x.pc \in {"asking", "calling"} => x.on \in Conns /\ conn[x.on].state \in Known
  BY <1>3, McpAssumption DEF Sent, NoCall, CallState, Conns
<1>5. approved' \subseteq Servers
  BY DEF CallStep, Call, Granted, Declined, CallOver, CInv, TypeOK, Connection, CallsOpen
<1>6. TypeOK'
  BY <1>1, <1>3, <1>4, <1>5 DEF CInv, TypeOK
<1>7. CallsOpen' /\ Published' /\ Relisting'
  BY <1>1, <1>3, <1>4 DEF CInv, TypeOK, CallsOpen, Published, Relisting, Open
<1> QED
  BY <1>2, <1>6, <1>7 DEF CInv

-----------------------------------------------------------------------------
LEMMA NextInv ==
  ASSUME CInv, [Next]_vars
  PROVE  CInv' /\ (OInv => OInv')
<1>1. ASSUME NEW p \in Refreshers, NEW wanted \in SUBSET Servers,
             Start(p, wanted) \/ Refresh(p, wanted)
      PROVE  CInv' /\ (OInv => OInv')
  <2>1. PICK s \in Servers : TRUE
    BY McpAssumption
  <2> QED
    BY <1>1, <2>1, MovesInv
<1>2. ASSUME NEW p \in Refreshers, Close(p) \/ RefreshStep(p)
      PROVE  CInv' /\ (OInv => OInv')
  <2>1. PICK s0 \in Servers : TRUE
    BY McpAssumption
  <2>2. {} \in SUBSET Servers
    OBVIOUS
  <2>3. CASE Close(p)
    BY <2>1, <2>2, <2>3, MovesInv
  <2>4. ASSUME NEW s \in Servers, Keep(p, s) PROVE CInv' /\ (OInv => OInv')
    BY <2>2, <2>4, MovesInv
  <2>5. ASSUME NEW s \in Servers, Disconnect(p, s)
        PROVE  CInv' /\ (OInv => OInv')
    BY <2>5, DisconnectInv
  <2>6. CASE Disconnected(p)
    BY <2>6, DisconnectedInv
  <2>7. CASE Swept(p) \/ AllBegun(p) \/ AllConnected(p)
    BY <2>1, <2>2, <2>7, MovesInv
  <2>8. ASSUME NEW s \in Servers, NEW built \in BOOLEAN, ConnectOne(p, s, built)
        PROVE  CInv' /\ (OInv => OInv')
    BY <2>8, ConnectOneInv
  <2> QED
    BY <1>2, <2>3, <2>4, <2>5, <2>6, <2>7, <2>8 DEF RefreshStep
<1>3. ASSUME NEW c \in Conns, ConnectionStep(c)
      PROVE  CInv' /\ (OInv => OInv')
  BY <1>3, ConnectedInv, RelistedInv, ConnectFailsInv, DiesInv, ProcessGoneInv, ToolsChangedInv
     DEF ConnectionStep
<1>4. ASSUME NEW k \in Callers, CallStep(k) PROVE CInv' /\ (OInv => OInv')
  BY <1>4, CallStepInv
<1>5. CASE UNCHANGED vars
  <2> USE <1>5
  <2>1. CInv'
    BY DEF vars, CInv, TypeOK, CallsOpen, Published, Relisting, Open
  <2>2. OInv => OInv'
    BY DEF vars, OInv, Owned, Closing, ClosingAlone, NobodyIsOrphaned, ToolsHaveTheirServer, Open
  <2> QED
    BY <2>1, <2>2
<1> QED
  BY <1>1, <1>2, <1>3, <1>4, <1>5 DEF Next

(* Nobody waits on a connection that is closed or whose process has gone,  *)
(* however many refreshes overlap (client.ts failAll, manager.ts           *)
(* disconnect and onClose).                                                *)
THEOREM NobodyWaitsForNothing == Spec => []NoCallHangs
<1>1. Init => CInv
  BY InitInv
<1>2. CInv /\ [Next]_vars => CInv'
  BY NextInv
<1>3. CInv => NoCallHangs
  BY DEF CInv, CallsOpen, NoCallHangs
<1> QED
  BY <1>1, <1>2, <1>3, PTL DEF Spec

(* Every process that was not told to go is the connection the manager has *)
(* for its server, whatever refreshes, deaths and shutdowns overlap, unless*)
(* two refreshes have dropped that server at the same time (manager.ts     *)
(* refresh, disconnect, connectOne).                                       *)
THEOREM EveryProcessIsOwned == Spec => []NobodyIsOrphaned
<1>1. Init => CInv /\ OInv
  BY InitInv
<1>2. CInv /\ OInv /\ [Next]_vars => CInv' /\ OInv'
  BY NextInv
<1>3. CInv /\ OInv => NobodyIsOrphaned
  BY DEF OInv
<1> QED
  BY <1>1, <1>2, <1>3, PTL DEF Spec

(* Nor does a published tool outlive the connection behind it, with the    *)
(* same exception.                                                         *)
THEOREM EveryToolIsBacked == Spec => []ToolsHaveTheirServer
<1>1. Init => CInv /\ OInv
  BY InitInv
<1>2. CInv /\ OInv /\ [Next]_vars => CInv' /\ OInv'
  BY NextInv
<1>3. CInv /\ OInv => ToolsHaveTheirServer
  BY DEF OInv
<1> QED
  BY <1>1, <1>2, <1>3, PTL DEF Spec

-----------------------------------------------------------------------------
(* Least and greatest numbers, and the first in an order.                  *)
LEMMA LeastNumber ==
  ASSUME NEW T, T \subseteq Nat, T # {}
  PROVE  \E n \in T : \A m \in T : n <= m
<1>1. PICK n \in T : \A m \in T : ~(<<m, n>> \in OpToRel(<, Nat))
  BY NatLessThanWellFounded, WFMin
<1>2. \A m \in T : ~(m < n)
  BY <1>1 DEF OpToRel
<1> QED
  BY <1>2

LEMMA MinIsLeast ==
  ASSUME NEW S, S \subseteq Nat, S # {}
  PROVE  Min(S) \in S /\ \A n \in S : Min(S) <= n
BY LeastNumber DEF Min

StrictOrder(R, S) ==
  /\ \A x \in S : <<x, x>> \notin R
  /\ \A x, y, z \in S : <<x, y>> \in R /\ <<y, z>> \in R => <<x, z>> \in R
  /\ \A x, y \in S : x # y => <<x, y>> \in R \/ <<y, x>> \in R

(* Of finitely many things in an order one comes first: the one with the   *)
(* fewest before it has none.                                              *)
LEMMA OneIsFirst ==
  ASSUME NEW S, IsFiniteSet(S), S # {}, NEW R, StrictOrder(R, S)
  PROVE  /\ First(S, R) \in S
         /\ \A n \in S \ {First(S, R)} : <<First(S, R), n>> \in R
<1> DEFINE before(m) == {n \in S : <<n, m>> \in R}
           sizes == {Cardinality(before(m)) : m \in S}
<1>1. \A m \in S : IsFiniteSet(before(m)) /\ Cardinality(before(m)) \in Nat
  BY FS_Subset, FS_CardinalityType
<1>2. PICK k \in sizes : \A l \in sizes : k <= l
  <2>1. sizes \subseteq Nat /\ sizes # {}
    BY <1>1
  <2> HIDE DEF sizes
  <2> QED BY <2>1, LeastNumber
<1>3. PICK m \in S : k = Cardinality(before(m))
  OBVIOUS
<1>4. ASSUME NEW n \in S, <<n, m>> \in R PROVE FALSE
  <2>1. before(n) \subseteq before(m) /\ n \in before(m) /\ n \notin before(n)
    BY <1>4 DEF StrictOrder
  <2>2. Cardinality(before(n)) < Cardinality(before(m))
    <3>1. before(n) # before(m)
      BY <2>1
    <3> HIDE DEF before
    <3> QED BY <1>1, <2>1, <3>1, FS_Subset
  <2>3. k <= Cardinality(before(n))
    BY <1>2
  <2> QED
    BY <1>1, <1>3, <2>2, <2>3
<1>5. \A n \in S \ {m} : <<m, n>> \in R
  BY <1>4 DEF StrictOrder
<1> QED
  BY <1>5 DEF First

LEMMA MaxIsGreatest ==
  ASSUME NEW S, IsFiniteSet(S), S \subseteq Nat, S # {}
  PROVE  Max(S) \in S /\ \A n \in S : n <= Max(S)
<1> DEFINE R == {p \in S \X S : p[1] > p[2]}
<1>1. StrictOrder(R, S)
  BY DEF StrictOrder
<1>2. PICK m \in S : \A n \in S \ {m} : <<m, n>> \in R
  <2> HIDE DEF R
  <2> QED BY <1>1, OneIsFirst
<1>3. \A n \in S : n # m => m > n
  BY <1>2
<1>4. \E x \in S : \A y \in S : x >= y
  <2> HIDE DEF R
  <2> QED BY <1>3
<1>5. Max(S) \in S /\ \A y \in S : Max(S) >= y
  BY <1>4 DEF Max
<1> QED
  BY <1>5

LEMMA MinOfTwo ==
  ASSUME NEW a \in Nat, NEW b \in Nat
  PROVE  Min({a, b}) = IF a <= b THEN a ELSE b
BY MinIsLeast

LEMMA MaxOfTwo ==
  ASSUME NEW a \in Nat, NEW b \in Nat
  PROVE  Max({a, b}) = IF a <= b THEN b ELSE a
<1>1. IsFiniteSet({a, b})
  <2>1. IsFiniteSet({a}) /\ {a, b} = {a} \cup {b}
    BY FS_Singleton
  <2> QED BY <2>1, FS_AddElement
<1> QED
  BY <1>1, MaxIsGreatest

LEMMA TargetIsATier ==
  ASSUME NEW r \in Request PROVE Target(r) \in Tiers
<1>1. \A x \in Tiers : Clamp(r.policy, x) \in Tiers
  BY RouterAssumption, MinOfTwo, MaxOfTwo DEF Clamp, Tiers, Request, Policy
<1>2. Postured(r) \in Tiers
  <2>1. /\ TopTier \in Nat /\ r.policy.default \in Nat /\ r.policy.default <= TopTier
        /\ r.policy.min \in Tiers
    BY RouterAssumption DEF Tiers, Request, Policy
  <2>2. Min({TopTier, r.policy.default + 1}) \in Tiers
    BY <2>1, MinOfTwo DEF Tiers
  <2>3. r.policy.default \in Tiers
    BY <2>1 DEF Tiers
  <2> QED
    BY <2>1, <2>2, <2>3 DEF Postured
<1> QED
  BY <1>1, <1>2 DEF Target, Request, Policy

(* The walk has every tier in it, and besides at most Unknown.             *)
IsWalk(walk) ==
  \E n \in Nat : /\ DOMAIN walk = 1 .. n
                 /\ \A i \in 1 .. n : walk[i] \in Tiers \cup {Unknown}
                 /\ \A tier \in Tiers : \E i \in 1 .. n : walk[i] = tier

LEMMA TheWalk ==
  ASSUME NEW target \in Tiers, NEW rules \in Seq(Rule)
  PROVE  IsWalk(Walk(target, rules))
<1> DEFINE w == Walk(target, rules)
           n == Len(rules) + 1 + TopTier
<1>1. n \in Nat /\ DOMAIN w = 1 .. n /\ TopTier \in Nat /\ Len(rules) \in Nat
  BY RouterAssumption DEF Walk
<1>2. ASSUME NEW i \in 1 .. n PROVE w[i] \in Tiers \cup {Unknown}
  <2>1. CASE i <= Len(rules)
    <3>1. rules[i] \in Rule
      BY <1>1, <2>1
    <3> QED
      BY <2>1, <3>1 DEF Walk, Rule
  <2>2. CASE i > Len(rules)
    BY <1>1, <2>2 DEF Walk, Tiers
  <2> QED
    BY <1>1, <2>1, <2>2
<1>3. ASSUME NEW t \in Tiers PROVE \E i \in 1 .. n : w[i] = t
  <2>1. CASE t >= target
    <3> DEFINE i == Len(rules) + 1 + (t - target)
    <3>1. i \in 1 .. n /\ ~(i <= Len(rules)) /\ target + (i - Len(rules) - 1) = t /\ t <= TopTier
      BY <1>1, <2>1 DEF Tiers
    <3>2. w[i] = t
      BY <3>1 DEF Walk
    <3> QED
      BY <3>1, <3>2
  <2>2. CASE t < target
    <3> DEFINE i == Len(rules) + 1 + (TopTier - t)
    <3>1. /\ i \in 1 .. n /\ ~(i <= Len(rules))
          /\ ~(target + (i - Len(rules) - 1) <= TopTier)
          /\ target + TopTier - (target + (i - Len(rules) - 1)) = t
      BY <1>1, <2>2 DEF Tiers
    <3>2. w[i] = t
      BY <3>1 DEF Walk
    <3> QED
      BY <3>1, <3>2
  <2> QED
    BY <1>1, <2>1, <2>2 DEF Tiers
<1> QED
  BY <1>1, <1>2, <1>3 DEF IsWalk

Place(tier, walk) == Min({i \in DOMAIN walk : walk[i] = tier})
Ahead(tier, walk) == {walk[i] : i \in 1 .. Place(tier, walk) - 1} \ {Unknown}

LEMMA ThePlace ==
  ASSUME NEW walk, IsWalk(walk), NEW tier \in Tiers
  PROVE  /\ Place(tier, walk) \in DOMAIN walk
         /\ Place(tier, walk) \in Nat \ {0}
         /\ walk[Place(tier, walk)] = tier
         /\ \A i \in DOMAIN walk : walk[i] = tier => Place(tier, walk) <= i
         /\ \A i \in 1 .. Place(tier, walk) - 1 : i \in DOMAIN walk
         /\ Ahead(tier, walk) \subseteq Tiers \ {tier}
<1>1. PICK n \in Nat : /\ DOMAIN walk = 1 .. n
                       /\ \A i \in 1 .. n : walk[i] \in Tiers \cup {Unknown}
                       /\ \E i \in 1 .. n : walk[i] = tier
  BY DEF IsWalk
<1> DEFINE S == {i \in DOMAIN walk : walk[i] = tier}
<1>2. S \subseteq Nat /\ S # {}
  BY <1>1
<1>3. Min(S) \in S /\ \A i \in S : Min(S) <= i
  <2> HIDE DEF S
  <2> QED BY <1>2, MinIsLeast
<1>4. Place(tier, walk) = Min(S)
  BY DEF Place
<1>5. \A i \in 1 .. Place(tier, walk) - 1 : i \in DOMAIN walk /\ walk[i] # tier
  <2>1. Place(tier, walk) \in 1 .. n
    BY <1>1, <1>3, <1>4
  <2>2. ASSUME NEW i \in 1 .. Place(tier, walk) - 1
        PROVE  i \in 1 .. n /\ ~(Place(tier, walk) <= i)
    BY <2>1
  <2> QED
    BY <1>1, <1>3, <1>4, <2>2
<1>6. Ahead(tier, walk) \subseteq Tiers \ {tier}
  BY <1>1, <1>5 DEF Ahead
<1> QED
  BY <1>1, <1>3, <1>4, <1>5, <1>6

(* A tier that comes earlier has a smaller position.                       *)
LEMMA ThePosition ==
  ASSUME NEW walk, IsWalk(walk)
  PROVE  /\ \A t \in Tiers : Position(t, walk) \in 0 .. TopTier
         /\ \A t, u \in Tiers :
              Place(t, walk) < Place(u, walk) => Position(t, walk) < Position(u, walk)
<1>1. \A t : Position(t, walk) = Cardinality(Ahead(t, walk))
  BY DEF Position, Ahead, Place
<1>2. IsFiniteSet(Tiers) /\ Cardinality(Tiers) = TopTier + 1 /\ TopTier \in Nat
  BY FS_Interval, RouterAssumption DEF Tiers
<1>3. ASSUME NEW t \in Tiers
      PROVE  IsFiniteSet(Ahead(t, walk)) /\ Position(t, walk) \in 0 .. TopTier
  <2>1. IsFiniteSet(Ahead(t, walk)) /\ Cardinality(Ahead(t, walk)) \in Nat
    BY <1>2, ThePlace, FS_Subset, FS_CardinalityType
  <2>2. Cardinality(Ahead(t, walk)) < Cardinality(Tiers)
    <3>1. Ahead(t, walk) \subseteq Tiers /\ Ahead(t, walk) # Tiers
      BY ThePlace
    <3>2. /\ Cardinality(Ahead(t, walk)) <= Cardinality(Tiers)
          /\ Cardinality(Ahead(t, walk)) # Cardinality(Tiers)
      BY <1>2, <3>1, FS_Subset
    <3> QED BY <1>2, <2>1, <3>2
  <2> QED
    BY <1>1, <1>2, <2>1, <2>2
<1>4. ASSUME NEW t \in Tiers, NEW u \in Tiers, Place(t, walk) < Place(u, walk)
      PROVE  Position(t, walk) < Position(u, walk)
  <2>1. Ahead(t, walk) \subseteq Ahead(u, walk)
    BY <1>4, ThePlace DEF Ahead
  <2>2. t \in Ahead(u, walk)
    <3>1. Place(t, walk) \in 1 .. Place(u, walk) - 1 /\ walk[Place(t, walk)] = t
      BY <1>4, ThePlace
    <3>2. t # Unknown
      BY DEF Tiers, Unknown
    <3> QED BY <3>1, <3>2 DEF Ahead
  <2>3. t \notin Ahead(t, walk)
    BY ThePlace
  <2> QED
    BY <1>1, <1>3, <2>1, <2>2, <2>3, FS_Subset
<1> QED
  BY <1>3, <1>4
-----------------------------------------------------------------------------
(* The pool has something in it whenever the catalogue has.                *)
LEMMA ThePool ==
  ASSUME NEW ms, IsCatalogue(ms), NEW r
  PROVE  /\ Pool(ms, r) \subseteq ms
         /\ IsCatalogue(Pool(ms, r))
         /\ ms # {} => Pool(ms, r) # {}
<1>1. \A needs : Able(ms, needs) \subseteq ms
  BY DEF Able
<1>2. Pool(ms, r) \subseteq ms /\ (ms # {} => Pool(ms, r) # {})
  BY <1>1 DEF Pool
<1>3. IsFiniteSet(Pool(ms, r))
  BY <1>2, FS_Subset DEF IsCatalogue
<1> QED
  BY <1>2, <1>3 DEF IsCatalogue

LEMMA ABonus ==
  ASSUME NEW rules \in Seq(Rule), NEW scope \in SUBSET DOMAIN rules, NEW m
  PROVE  /\ Bonus(m, rules, scope) \in Int
         /\ scope = {} => Bonus(m, rules, scope) = 0
         /\ (\A i \in scope : m.id \notin rules[i].avoid) => Bonus(m, rules, scope) >= 0
<1> DEFINE A == {i \in scope : m.id \in rules[i].models}
           B == {i \in scope : m.provider \in Range(rules[i].providers)}
           C == {i \in scope : m.id \in rules[i].avoid}
<1>1. IsFiniteSet(scope)
  BY FS_Interval, FS_Subset
<1>2. Cardinality(A) \in Nat /\ Cardinality(B) \in Nat /\ Cardinality(C) \in Nat
  BY <1>1, FS_Subset, FS_CardinalityType
<1>3. Cardinality({}) = 0
  BY FS_EmptySet
<1>4. scope = {} => A = {} /\ B = {} /\ C = {}
  OBVIOUS
<1>5. (\A i \in scope : m.id \notin rules[i].avoid) => C = {}
  OBVIOUS
<1>6. Bonus(m, rules, scope)
        = 800 * Cardinality(A) + 400 * Cardinality(B) - 1200 * Cardinality(C)
  BY DEF Bonus
<1> HIDE DEF A, B, C
<1> DEFINE a == Cardinality(A)
           b == Cardinality(B)
           c == Cardinality(C)
<1>7. /\ a \in Nat /\ b \in Nat /\ c \in Nat
      /\ scope = {} => a = 0 /\ b = 0 /\ c = 0
      /\ (\A i \in scope : m.id \notin rules[i].avoid) => c = 0
      /\ Bonus(m, rules, scope) = 800 * a + 400 * b - 1200 * c
  BY <1>2, <1>3, <1>4, <1>5, <1>6
<1> HIDE DEF a, b, c
<1>8. /\ 800 * a + 400 * b - 1200 * c \in Int
      /\ a = 0 /\ b = 0 /\ c = 0 => 800 * a + 400 * b - 1200 * c = 0
      /\ c = 0 => 800 * a + 400 * b - 1200 * c >= 0
  BY <1>7
<1> QED
  BY <1>7, <1>8

LEMMA AHint ==
  ASSUME NEW rules \in Seq(Rule), NEW m, NEW target
  PROVE  /\ HintBonus(m, rules, target) \in Int
         /\ (\A i \in DOMAIN rules : Scope(rules[i], target) # m.tier)
              => HintBonus(m, rules, target) = 0
         /\ (\A i \in DOMAIN rules : m.id \notin rules[i].avoid)
              => HintBonus(m, rules, target) >= 0
<1> DEFINE scope == {i \in DOMAIN rules : Scope(rules[i], target) = m.tier}
<1>1. HintBonus(m, rules, target) = Bonus(m, rules, scope)
  BY DEF HintBonus
<1>2. scope \in SUBSET DOMAIN rules
  OBVIOUS
<1>3. (\A i \in DOMAIN rules : Scope(rules[i], target) # m.tier) => scope = {}
  OBVIOUS
<1>4. (\A i \in DOMAIN rules : m.id \notin rules[i].avoid)
        => (\A i \in scope : m.id \notin rules[i].avoid)
  OBVIOUS
<1> HIDE DEF scope
<1> QED
  BY <1>1, <1>2, <1>3, <1>4, ABonus

LEMMA ImageIsFinite ==
  ASSUME NEW S, IsFiniteSet(S), NEW f, DOMAIN f = S, f = [x \in S |-> f[x]]
  PROVE  IsFiniteSet({f[x] : x \in S})
<1> DEFINE T == {f[x] : x \in S}
<1>1. f \in Surjection(S, T)
  BY DEF Surjection
<1> HIDE DEF T
<1>2. IsFiniteSet(T)
  BY <1>1, FS_Surjection
<1> QED
  BY <1>2 DEF T

LEMMA ARating ==
  ASSUME NEW pool, IsCatalogue(pool), NEW m \in pool
  PROVE  RatingOf(m, pool) \in Int
<1>1. CASE m.rated # Unknown
  BY <1>1 DEF RatingOf, IsCatalogue, Model, Tenths
<1>2. CASE m.rated = Unknown /\ Rated(pool) = {}
  BY <1>2 DEF RatingOf
<1>3. CASE m.rated = Unknown /\ Rated(pool) # {}
  <2>1. IsFiniteSet(Rated(pool))
    <3>1. Rated(pool) \subseteq pool /\ IsFiniteSet(pool)
      BY DEF Rated, IsCatalogue
    <3> QED BY <3>1, FS_Subset
  <2>2. Cardinality(Rated(pool)) \in Nat \ {0}
    BY <1>3, <2>1, FS_CardinalityType, FS_EmptySet
  <2>3. IsFiniteSet(Opinions(pool))
    <3> DEFINE f == [r \in Rated(pool) |-> {r} \X (1 .. r.rated)]
    <3>1. \A r \in Rated(pool) : IsFiniteSet(f[r])
      <4> SUFFICES ASSUME NEW r \in Rated(pool) PROVE IsFiniteSet({r} \X (1 .. r.rated))
        OBVIOUS
      <4>1. r.rated \in Int
        BY DEF Rated, IsCatalogue, Model, Tenths, Unknown
      <4>2. IsFiniteSet({r})
        BY FS_Singleton
      <4>3. IsFiniteSet(1 .. r.rated)
        BY <4>1, FS_Interval
      <4> QED BY <4>2, <4>3, FS_Product
    <3>2. IsFiniteSet({f[r] : r \in Rated(pool)})
      <4>1. DOMAIN f = Rated(pool) /\ f = [r \in Rated(pool) |-> f[r]]
        OBVIOUS
      <4> HIDE DEF f
      <4> QED BY <2>1, <4>1, ImageIsFinite
    <3>3. Opinions(pool) = UNION {f[r] : r \in Rated(pool)}
      BY DEF Opinions
    <3> DEFINE F == {f[r] : r \in Rated(pool)}
    <3>4. \A T \in F : IsFiniteSet(T)
      BY <3>1
    <3> HIDE DEF f, F
    <3>5. IsFiniteSet(UNION F)
      BY <3>2, <3>4, FS_UNION DEF F
    <3> QED BY <3>3, <3>5 DEF F
  <2>4. Cardinality(Opinions(pool)) \in Nat
    BY <2>3, FS_CardinalityType
  <2>5. RatingOf(m, pool) = (6 * Cardinality(Opinions(pool))) \div Cardinality(Rated(pool))
    BY <1>3 DEF RatingOf
  <2> QED
    BY <2>2, <2>4, <2>5
<1> QED
  BY <1>1, <1>2, <1>3

LEMMA ACost ==
  ASSUME NEW pool, IsCatalogue(pool), NEW m \in pool
  PROVE  NormalizedCost(m, pool) \in Int
<1> DEFINE f == [n \in pool |-> Logged[n.cost]]
           logs == {Logged[n.cost] : n \in pool}
<1>1. \A n \in pool : Logged[n.cost] \in Nat
  BY RouterAssumption DEF IsCatalogue, Model
<1>2. logs \subseteq Nat /\ logs # {}
  BY <1>1
<1>3. IsFiniteSet(logs)
  <2>1. DOMAIN f = pool /\ f = [n \in pool |-> f[n]] /\ logs = {f[n] : n \in pool}
    OBVIOUS
  <2> HIDE DEF f, logs
  <2> QED BY <2>1, ImageIsFinite DEF IsCatalogue
<1>4. /\ NormalizedCost(m, pool) = IF Max(logs) - Min(logs) = 0 THEN 0
           ELSE (10000 * (Logged[m.cost] - Min(logs))) \div (Max(logs) - Min(logs))
      /\ Logged[m.cost] \in Nat
  BY <1>1 DEF NormalizedCost
<1> HIDE DEF logs
<1>5. Max(logs) \in Nat /\ Min(logs) \in Nat /\ Min(logs) <= Max(logs)
  BY <1>2, <1>3, MinIsLeast, MaxIsGreatest
<1> QED
  BY <1>4, <1>5

(* Every model has a score; where nothing is known it is that of its place *)
(* in the walk, and what the rules make of it.                             *)
Placed(m, r) ==
  6 * (3500 - 525 * Position(m.tier, Walk(Target(r), r.rules))
         + HintBonus(m, r.rules, Target(r)))

LEMMA AScore ==
  ASSUME NEW pool, IsCatalogue(pool), NEW m \in pool, NEW r \in Request
  PROVE  /\ Score(m, pool, r) \in Int
         /\ Position(m.tier, Walk(Target(r), r.rules)) \in 0 .. TopTier
         /\ Rated(pool) = {} /\ m.uptime = Unknown => Score(m, pool, r) = Placed(m, r)
<1> DEFINE place == Position(m.tier, Walk(Target(r), r.rules))
           cost == NormalizedCost(m, pool)
           bonus == HintBonus(m, r.rules, Target(r))
<1>1. place \in 0 .. TopTier
  <2>1. r.rules \in Seq(Rule) /\ m.tier \in Tiers
    BY DEF Request, IsCatalogue, Model
  <2> QED
    BY <2>1, TargetIsATier, TheWalk, ThePosition
<1>2. place \in Nat /\ 3500 - 525 * place \in Nat
      /\ Max({0, 3500 - 525 * place}) = 3500 - 525 * place
  <2>1. place \in Nat /\ 3500 - 525 * place \in Nat
    BY <1>1, RouterAssumption
  <2> HIDE DEF place
  <2> QED BY <2>1, MaxOfTwo
<1>3. bonus \in Int
  BY AHint DEF Request
<1>4. CostPressure(r, pool) \in Nat /\ (Rated(pool) = {} => CostPressure(r, pool) = 0)
  BY DEF CostPressure, PostureCost
<1>5. cost \in Int
  BY ACost
<1>6. Unreliable(m) \in Int /\ (m.uptime = Unknown => Unreliable(m) = 0)
  BY DEF Unreliable, IsCatalogue, Model, Tenths
<1>7. RatingOf(m, pool) \in Int /\ (Rated(pool) = {} => RatingOf(m, pool) = 0)
  <2>1. Rated(pool) = {} => m.rated = Unknown
    BY DEF Rated
  <2> QED
    BY <2>1, ARating DEF RatingOf
<1>8. Score(m, pool, r) =
        650 * RatingOf(m, pool)
          + 6 * (Max({0, 3500 - 525 * place}) - (CostPressure(r, pool) * cost) \div 10000
                   - Unreliable(m) + bonus)
  BY DEF Score
<1>9. Placed(m, r) = 6 * (3500 - 525 * place + bonus)
  BY DEF Placed
<1> DEFINE pressed == (CostPressure(r, pool) * cost) \div 10000
<1> HIDE DEF place, cost, bonus
<1>10. pressed \in Int /\ (Rated(pool) = {} => pressed = 0)
  BY <1>4, <1>5
<1> HIDE DEF pressed
<1>11. Score(m, pool, r) =
        650 * RatingOf(m, pool) + 6 * (3500 - 525 * place - pressed - Unreliable(m) + bonus)
  BY <1>2, <1>8 DEF pressed
<1>12. Score(m, pool, r) \in Int
  BY <1>2, <1>3, <1>6, <1>7, <1>10, <1>11
<1>13. Rated(pool) = {} /\ m.uptime = Unknown => Score(m, pool, r) = Placed(m, r)
  BY <1>2, <1>3, <1>6, <1>7, <1>9, <1>10, <1>11
<1> QED
  BY <1>1, <1>12, <1>13 DEF place
-----------------------------------------------------------------------------
(* The order of the scores, prices and ids.                                *)
Beats(m, n, pool, r) ==
  \/ Score(m, pool, r) > Score(n, pool, r)
  \/ Score(m, pool, r) = Score(n, pool, r) /\ m.cost < n.cost
  \/ Score(m, pool, r) = Score(n, pool, r) /\ m.cost = n.cost /\ m.id < n.id

LEMMA BetterBeats ==
  ASSUME NEW pool, NEW r, NEW m \in pool, NEW n \in pool
  PROVE  <<m, n>> \in Better(pool, r) <=> Beats(m, n, pool, r)
BY DEF Better, Beats

LEMMA BetterIsAnOrder ==
  ASSUME NEW pool, IsCatalogue(pool), NEW r \in Request
  PROVE  StrictOrder(Better(pool, r), pool)
<1>1. \A m \in pool : Score(m, pool, r) \in Int /\ m.cost \in Nat /\ m.id \in Nat
  BY AScore, RouterAssumption DEF IsCatalogue, Model
<1>2. \A m, n \in pool : m.id = n.id => m = n
  BY DEF IsCatalogue
<1>3. \A m \in pool : ~Beats(m, m, pool, r)
  BY <1>1 DEF Beats
<1>4. \A x, y, z \in pool :
        Beats(x, y, pool, r) /\ Beats(y, z, pool, r) => Beats(x, z, pool, r)
  BY <1>1 DEF Beats
<1>5. \A x, y \in pool : x # y => Beats(x, y, pool, r) \/ Beats(y, x, pool, r)
  BY <1>1, <1>2 DEF Beats
<1> QED
  BY <1>3, <1>4, <1>5, BetterBeats DEF StrictOrder

LEMMA TheBest ==
  ASSUME NEW pool, IsCatalogue(pool), pool # {}, NEW r \in Request
  PROVE  /\ First(pool, Better(pool, r)) \in pool
         /\ \A n \in pool \ {First(pool, Better(pool, r))} :
              Beats(First(pool, Better(pool, r)), n, pool, r)
<1>1. IsFiniteSet(pool)
  BY DEF IsCatalogue
<1> QED
  BY <1>1, BetterIsAnOrder, OneIsFirst, BetterBeats

-----------------------------------------------------------------------------
(* A ranking by an order is the whole set, each once: as many come before  *)
(* one thing as before no other, so every number of them occurs.           *)
LEMMA TheRanking ==
  ASSUME NEW S, IsFiniteSet(S), NEW R, StrictOrder(R, S)
  PROVE  /\ Ranking(S, R) \in Seq(S)
         /\ Len(Ranking(S, R)) = Cardinality(S)
         /\ Cardinality(S) \in Nat
         /\ \A i, j \in 1 .. Cardinality(S) : i # j => Ranking(S, R)[i] # Ranking(S, R)[j]
<1> DEFINE n == Cardinality(S)
           before(m) == {x \in S : <<x, m>> \in R}
           c == [m \in S |-> Cardinality(before(m))]
           s == Ranking(S, R)
           T == 0 .. n - 1
<1>1. n \in Nat
  BY FS_CardinalityType
<1>2. ASSUME NEW m \in S
      PROVE  IsFiniteSet(before(m)) /\ Cardinality(before(m)) \in Nat /\ Cardinality(before(m)) < n
  <2>1. before(m) \subseteq S /\ before(m) # S
    BY DEF StrictOrder
  <2> HIDE DEF before
  <2>2. IsFiniteSet(before(m)) /\ Cardinality(before(m)) <= n /\ Cardinality(before(m)) # n
    BY <2>1, FS_Subset
  <2>3. Cardinality(before(m)) \in Nat
    BY <2>2, FS_CardinalityType
  <2> QED BY <1>1, <2>2, <2>3
<1>3. ASSUME NEW x \in S, NEW y \in S, <<x, y>> \in R PROVE c[x] < c[y]
  <2>1. before(x) \subseteq before(y) /\ x \in before(y) /\ x \notin before(x)
    BY <1>3 DEF StrictOrder
  <2>2. before(x) # before(y)
    BY <2>1
  <2>3. c[x] = Cardinality(before(x)) /\ c[y] = Cardinality(before(y))
    OBVIOUS
  <2> HIDE DEF before, c
  <2>4. Cardinality(before(x)) <= Cardinality(before(y))
        /\ Cardinality(before(x)) # Cardinality(before(y))
    BY <1>2, <2>1, <2>2, FS_Subset
  <2> QED BY <1>2, <2>3, <2>4
<1>4. c \in [S -> T]
  <2>1. \A m \in S : Cardinality(before(m)) \in T
    <3> HIDE DEF before
    <3> QED BY <1>1, <1>2
  <2> HIDE DEF before, T
  <2> QED BY <2>1
<1>5. \A x, y \in S : x # y => c[x] # c[y]
  <2>1. \A x \in S : c[x] \in Nat
    BY <1>4
  <2> SUFFICES ASSUME NEW x \in S, NEW y \in S, x # y PROVE c[x] # c[y]
    OBVIOUS
  <2>2. <<x, y>> \in R \/ <<y, x>> \in R
    BY DEF StrictOrder
  <2>3. c[x] < c[y] \/ c[y] < c[x]
    BY <1>3, <2>2
  <2>4. c[x] \in Nat /\ c[y] \in Nat
    BY <2>1
  <2> HIDE DEF c
  <2> QED BY <2>3, <2>4
<1>6. IsFiniteSet(T) /\ Cardinality(T) = n
  BY <1>1, FS_Interval
<1>7. c \in Injection(S, T)
  <2> HIDE DEF c, T
  <2> QED BY <1>4, <1>5 DEF Injection, IsInjective
<1>8. c \in Surjection(S, T)
  <2> HIDE DEF c, T
  <2> QED BY <1>6, <1>7, FS_Injection
<1>9. \A k \in 1 .. n : k - 1 \in T /\ \E m \in S : c[m] = k - 1
  <2>1. \A k \in 1 .. n : k - 1 \in T
    BY <1>1
  <2> HIDE DEF c, T
  <2> QED BY <1>8, <2>1 DEF Surjection
<1>10. \A k \in 1 .. n : s[k] = CHOOSE m \in S : Cardinality(before(m)) = k - 1
  BY DEF Ranking
<1>11. \A k \in 1 .. n : s[k] \in S /\ c[s[k]] = k - 1
  <2> SUFFICES ASSUME NEW k \in 1 .. n PROVE s[k] \in S /\ c[s[k]] = k - 1
    OBVIOUS
  <2>1. PICK m \in S : Cardinality(before(m)) = k - 1
    BY <1>9
  <2> HIDE DEF s
  <2> QED BY <1>10, <2>1
<1>12. DOMAIN s = 1 .. n /\ s = [k \in 1 .. n |-> s[k]]
  <2>1. s = [k \in 1 .. n |-> CHOOSE m \in S : Cardinality(before(m)) = k - 1]
    BY DEF Ranking
  <2> HIDE DEF before
  <2> QED BY <2>1
<1> HIDE DEF s, c, n
<1>13. s \in Seq(S) /\ Len(s) = n
  BY <1>1, <1>11, <1>12
<1>14. \A i, j \in 1 .. n : i # j => s[i] # s[j]
  BY <1>1, <1>11
<1> QED
  BY <1>1, <1>13, <1>14 DEF s, n

(* How the rules sort is an order of the fallbacks too.                    *)
LEMMA AProviderPlace ==
  ASSUME NEW rules \in Seq(Rule), NEW m
  PROVE  ProviderPlace(m, rules) \in Nat
<1> DEFINE lists == [i \in DOMAIN rules |-> rules[i].providers]
           naming == {i \in DOMAIN lists : m.provider \in Range(lists[i])}
           place(list) == Min({k \in DOMAIN list : list[k] = m.provider})
           lens == {Len(lists[i]) : i \in DOMAIN lists}
<1>1. /\ DOMAIN lists = 1 .. Len(rules) /\ Len(rules) \in Nat
      /\ \A i \in DOMAIN lists : lists[i] \in Seq(STRING) /\ Len(lists[i]) \in Nat
  <2>1. DOMAIN rules = 1 .. Len(rules) /\ Len(rules) \in Nat
        /\ \A i \in DOMAIN rules : rules[i] \in Rule
    OBVIOUS
  <2>2. \A i \in DOMAIN rules : rules[i].providers \in Seq(STRING)
    BY <2>1 DEF Rule
  <2> QED BY <2>1, <2>2
<1>2. Max(lens \cup {0}) \in Nat
  <2> DEFINE f == [i \in DOMAIN lists |-> Len(lists[i])]
  <2>1. IsFiniteSet(DOMAIN lists)
    BY <1>1, FS_Interval
  <2>2. lens = {f[i] : i \in DOMAIN lists} /\ DOMAIN f = DOMAIN lists
      /\ f = [i \in DOMAIN lists |-> f[i]]
    OBVIOUS
  <2>3. lens \subseteq Nat
    BY <1>1
  <2> HIDE DEF lens, f, lists
  <2>4. IsFiniteSet(lens)
    BY <2>1, <2>2, ImageIsFinite
  <2>5. IsFiniteSet(lens \cup {0}) /\ lens \cup {0} \subseteq Nat /\ lens \cup {0} # {}
    BY <2>3, <2>4, FS_AddElement
  <2> QED BY <2>5, MaxIsGreatest
<1>3. CASE naming = {}
  BY <1>2, <1>3 DEF ProviderPlace
<1>4. CASE naming # {}
  <2>1. Min(naming) \in naming
    <3>1. naming \subseteq Nat
      BY <1>1
    <3> HIDE DEF naming
    <3> QED BY <1>4, <3>1, MinIsLeast
  <2> DEFINE list == lists[Min(naming)]
             K == {k \in DOMAIN list : list[k] = m.provider}
  <2>2. list \in Seq(STRING) /\ m.provider \in Range(list)
    BY <1>1, <2>1
  <2> HIDE DEF list
  <2>3. K \subseteq Nat /\ K # {}
    BY <2>2 DEF Range
  <2>4. Min(K) \in Nat
    <3> HIDE DEF K
    <3> QED BY <2>3, MinIsLeast
  <2>5. ProviderPlace(m, rules) = Min(K)
    BY <1>4 DEF ProviderPlace, list
  <2> QED BY <2>4, <2>5
<1> QED
  BY <1>3, <1>4

LEMMA HintsAreAnOrder ==
  ASSUME NEW pool, IsCatalogue(pool), NEW r \in Request, NEW S \in SUBSET pool
  PROVE  StrictOrder(ByHints(S, Better(pool, r), r.rules), S)
<1> DEFINE better == Better(pool, r)
           rules == r.rules
           a(m) == Liking(m, rules)
           b(m) == ProviderPlace(m, rules)
           less(m, n) == \/ a(m) < a(n)
                         \/ a(m) = a(n) /\ b(m) < b(n)
                         \/ a(m) = a(n) /\ b(m) = b(n) /\ m.cost < n.cost
           same(m, n) == a(m) = a(n) /\ b(m) = b(n) /\ m.cost = n.cost
           hinted(m, n) == less(m, n) \/ (same(m, n) /\ <<m, n>> \in better)
<1>1. StrictOrder(better, S)
  BY BetterIsAnOrder DEF StrictOrder
<1>2. CASE rules = <<>>
  BY <1>1, <1>2 DEF ByHints
<1>3. CASE rules # <<>>
  <2>1. ASSUME NEW m \in S PROVE a(m) \in Nat /\ b(m) \in Nat /\ m.cost \in Nat
    <3>1. a(m) \in Nat
      BY DEF Liking
    <3>2. b(m) \in Nat
      BY AProviderPlace DEF Request
    <3>3. m.cost \in Nat
      BY RouterAssumption DEF IsCatalogue, Model
    <3> QED BY <3>1, <3>2, <3>3
  <2>2. ASSUME NEW m \in S, NEW n \in S
        PROVE  <<m, n>> \in ByHints(S, better, rules) <=> hinted(m, n)
    <3> DEFINE k == <<a(m), b(m), m.cost>>
               l == <<a(n), b(n), n.cost>>
               before == \E i \in 1 .. 3 : k[i] < l[i] /\ \A j \in 1 .. i - 1 : k[j] = l[j]
    <3>1. <<m, n>> \in ByHints(S, better, rules) <=> (before \/ (k = l /\ <<m, n>> \in better))
      BY <1>3 DEF ByHints
    <3>2. k = l <=> same(m, n)
      OBVIOUS
    <3>3. before <=> less(m, n)
      <4> HIDE DEF a, b
      <4>1. 1 .. 3 = {1, 2, 3} /\ 1 .. 1 - 1 = {} /\ 1 .. 2 - 1 = {1} /\ 1 .. 3 - 1 = {1, 2}
        OBVIOUS
      <4>2. before <=> \/ k[1] < l[1]
                       \/ k[2] < l[2] /\ k[1] = l[1]
                       \/ k[3] < l[3] /\ k[1] = l[1] /\ k[2] = l[2]
        <5> HIDE DEF k, l
        <5> QED BY <4>1
      <4> QED BY <4>2
    <3> HIDE DEF less, same, before, k, l
    <3> QED BY <3>1, <3>2, <3>3
  <2>3. \A m \in S : ~hinted(m, m)
    <3>1. \A m \in S : ~less(m, m)
      <4> HIDE DEF a, b
      <4> QED BY <2>1
    <3> HIDE DEF less
    <3> QED BY <1>1, <3>1 DEF StrictOrder
  <2>4. \A x, y, z \in S : hinted(x, y) /\ hinted(y, z) => hinted(x, z)
    <3>1. \A x, y, z \in S : /\ less(x, y) /\ less(y, z) => less(x, z)
                             /\ less(x, y) /\ same(y, z) => less(x, z)
                             /\ same(x, y) /\ less(y, z) => less(x, z)
                             /\ same(x, y) /\ same(y, z) => same(x, z)
      <4> HIDE DEF a, b
      <4> QED BY <2>1
    <3> HIDE DEF less, same
    <3> QED BY <1>1, <3>1 DEF StrictOrder
  <2>5. \A x, y \in S : x # y => hinted(x, y) \/ hinted(y, x)
    <3>1. \A x, y \in S : less(x, y) \/ less(y, x) \/ (same(x, y) /\ same(y, x))
      <4> HIDE DEF a, b
      <4> QED BY <2>1
    <3> HIDE DEF less, same
    <3> QED BY <1>1, <3>1 DEF StrictOrder
  <2> HIDE DEF hinted, better, rules
  <2>6. StrictOrder(ByHints(S, better, rules), S)
    BY <2>2, <2>3, <2>4, <2>5 DEF StrictOrder
  <2> QED BY <2>6 DEF better, rules
<1> QED
  BY <1>2, <1>3
-----------------------------------------------------------------------------
(* What a decision over a catalogue consists of.                           *)
Chose(pool, r) == \/ Chosen(pool, r) = First(pool, Better(pool, r))
                  \/ Chosen(pool, r).id = r.policy.preferred

LEMMA TheChosen ==
  ASSUME NEW pool, IsCatalogue(pool), pool # {}, NEW r \in Request
  PROVE  Chosen(pool, r) \in pool /\ Chose(pool, r)
<1>1. Chosen(pool, r) \in Pinned(pool, r.policy) \/ Chosen(pool, r) = First(pool, Better(pool, r))
  BY DEF Chosen
<1> QED
  BY <1>1, TheBest DEF Pinned, Chose

(* Whom the turn may fall back on: the same tier elsewhere, each once, and *)
(* last of all the tier above.                                             *)
LEMMA TheFallbacks ==
  ASSUME NEW pool, IsCatalogue(pool), NEW r \in Request, NEW c \in pool
  PROVE  LET s == Fallbacks(pool, c, r)
         IN /\ s \in Seq(pool) /\ Len(s) \in 0 .. 3
            /\ \A i, j \in 1 .. Len(s) : i # j => s[i] # s[j]
            /\ \A i \in 1 .. Len(s) : Elsewhere(s[i], c) \/ (i = Len(s) /\ Above(s[i], c))
<1> DEFINE better == Better(pool, r)
           elsewhere == {m \in pool : m.tier = c.tier /\ m.provider # c.provider}
           above == {m \in pool : m.tier = c.tier + 1}
           near == Ranking(elsewhere, ByHints(elsewhere, better, r.rules))
           top == First(above, better)
           n == Min({3, Len(near)})
           s == Fallbacks(pool, c, r)
<1>1. IsFiniteSet(pool) /\ elsewhere \in SUBSET pool /\ above \in SUBSET pool
  BY DEF IsCatalogue
<1>2. /\ near \in Seq(elsewhere)
      /\ \A i, j \in 1 .. Len(near) : i # j => near[i] # near[j]
  <2>1. IsFiniteSet(elsewhere) /\ StrictOrder(ByHints(elsewhere, better, r.rules), elsewhere)
    <3> HIDE DEF elsewhere
    <3> QED BY <1>1, FS_Subset, HintsAreAnOrder
  <2> HIDE DEF elsewhere
  <2> QED BY <2>1, TheRanking
<1>3. above # {} => top \in above
  <2>1. IsFiniteSet(above) /\ StrictOrder(better, above)
    <3>1. StrictOrder(better, pool)
      BY BetterIsAnOrder
    <3> HIDE DEF above, better
    <3> QED BY <1>1, <3>1, FS_Subset DEF StrictOrder
  <2> HIDE DEF above, better
  <2> QED BY <2>1, OneIsFirst
<1>4. s = IF Len(near) >= 3 \/ above = {} THEN SubSeq(near, 1, n) ELSE Append(near, top)
  BY DEF Fallbacks
<1>5. /\ \A m \in elsewhere : Elsewhere(m, c) /\ m \in pool
      /\ \A m \in above : Above(m, c) /\ m \in pool
      /\ \A m \in above : m \notin elsewhere
  BY DEF IsCatalogue, Model, Tiers, Elsewhere, Above
<1> HIDE DEF near, above, elsewhere, top, s
<1>6. Len(near) \in Nat /\ n \in Nat /\ n <= 3 /\ n <= Len(near)
  BY <1>2, MinOfTwo
<1>7. CASE Len(near) >= 3 \/ above = {}
  <2>1. s = SubSeq(near, 1, n)
    BY <1>4, <1>7
  <2> HIDE DEF n
  <2>2. \A i \in 1 .. n : near[i] \in elsewhere /\ i \in 1 .. Len(near)
    BY <1>2, <1>6
  <2>3. s \in Seq(elsewhere) /\ Len(s) = n /\ \A i \in 1 .. n : s[i] = near[i]
    <3>1. 1 \in Int /\ n \in Int /\ \A i \in 1 .. n : near[i] \in elsewhere
      BY <1>6, <2>2
    <3>2. /\ SubSeq(near, 1, n) \in Seq(elsewhere)
          /\ Len(SubSeq(near, 1, n)) = IF 1 <= n THEN n - 1 + 1 ELSE 0
          /\ \A i \in 1 .. n - 1 + 1 : SubSeq(near, 1, n)[i] = near[1 + i - 1]
      BY ONLY <3>1, SubSeqProperties
    <3>3. (IF 1 <= n THEN n - 1 + 1 ELSE 0) = n /\ n - 1 + 1 = n /\ \A i \in 1 .. n : 1 + i - 1 = i
      BY <1>6
    <3> QED BY <2>1, <3>2, <3>3
  <2>4. s \in Seq(pool)
    BY <1>5, <2>3
  <2>5. \A i \in 1 .. Len(s) : s[i] \in elsewhere
    BY <2>3
  <2>6. \A i, j \in 1 .. Len(s) : i # j => s[i] # s[j]
    BY <1>2, <2>2, <2>3
  <2>7. Len(s) \in 0 .. 3
    BY <1>6, <2>3
  <2> QED
    BY <1>5, <2>4, <2>5, <2>6, <2>7 DEF s
<1>8. CASE ~(Len(near) >= 3 \/ above = {})
  <2>1. s = Append(near, top) /\ top \in above /\ Len(near) < 3
    BY <1>3, <1>4, <1>6, <1>8
  <2> DEFINE k == Len(near)
  <2>2. near \in Seq(pool)
    BY <1>2, <1>5
  <2>3. /\ s \in Seq(pool) /\ Len(s) = k + 1 /\ s[k + 1] = top
        /\ \A i \in 1 .. k : s[i] = near[i] /\ near[i] \in elsewhere
    BY <1>2, <1>5, <2>1, <2>2
  <2>4. \A i \in 1 .. k + 1 : i \in 1 .. k \/ i = k + 1
    BY <1>6
  <2>5. \A i \in 1 .. k : s[i] # top
    BY <1>5, <2>1, <2>3
  <2>6. \A i, j \in 1 .. k : i # j => s[i] # s[j]
    BY <1>2, <2>3
  <2>7. \A i, j \in 1 .. Len(s) : i # j => s[i] # s[j]
    BY <2>3, <2>4, <2>5, <2>6
  <2>8. Len(s) \in 0 .. 3
    BY <1>6, <2>1, <2>3
  <2>9. \A i \in 1 .. Len(s) : Elsewhere(s[i], c) \/ (i = Len(s) /\ Above(s[i], c))
    BY <1>5, <2>1, <2>3, <2>4
  <2> QED
    BY <2>3, <2>7, <2>8, <2>9 DEF s
<1> QED
  BY <1>7, <1>8

(* A decision that names anyone is sound and begins with the choice.       *)
LEMMA ADecision ==
  ASSUME NEW ms, IsCatalogue(ms), ms # {}, NEW r \in Request
  PROVE  /\ IsSound(RouteModel(ms, r), Pool(ms, r))
         /\ RouteModel(ms, r)[1] = Chosen(Pool(ms, r), r)
<1> DEFINE pool == Pool(ms, r)
           c == Chosen(pool, r)
           s == Fallbacks(pool, c, r)
           d == <<c>> \o s
<1>1. IsCatalogue(pool) /\ c \in pool
  BY ThePool, TheChosen
<1>2. RouteModel(ms, r) = d
  BY DEF RouteModel
<1>3. /\ s \in Seq(pool) /\ Len(s) \in 0 .. 3
      /\ \A i, j \in 1 .. Len(s) : i # j => s[i] # s[j]
      /\ \A i \in 1 .. Len(s) : Elsewhere(s[i], c) \/ (i = Len(s) /\ Above(s[i], c))
  <2> HIDE DEF pool, c
  <2> QED BY <1>1, TheFallbacks
<1>4. c.tier # c.tier + 1
  BY <1>1 DEF IsCatalogue, Model, Tiers
<1>5. \A i \in 1 .. Len(s) : s[i] # c
  BY <1>3, <1>4 DEF Elsewhere, Above
<1> HIDE DEF s, c, pool
<1>6. /\ d \in Seq(pool) /\ Len(d) = 1 + Len(s) /\ d[1] = c
      /\ \A i \in 2 .. Len(d) : d[i] = s[i - 1] /\ i - 1 \in 1 .. Len(s)
      /\ \A i \in 1 .. Len(d) : i = 1 \/ i \in 2 .. Len(d)
  BY <1>1, <1>3
<1> HIDE DEF d
<1>7. Len(d) \in 1 .. 4
  BY <1>3, <1>6
<1>8. \A i, j \in 2 .. Len(d) : i # j => d[i] # d[j]
  <2>1. \A i, j \in 2 .. Len(d) : i # j => i - 1 # j - 1
    BY <1>7
  <2> QED BY <1>3, <1>6, <2>1
<1>9. \A i, j \in 1 .. Len(d) : i # j => d[i] # d[j]
  BY <1>5, <1>6, <1>8
<1>10. \A i \in 2 .. Len(d) : Elsewhere(d[i], d[1]) \/ (i = Len(d) /\ Above(d[i], d[1]))
  <2> SUFFICES ASSUME NEW i \in 2 .. Len(d)
               PROVE  Elsewhere(d[i], d[1]) \/ (i = Len(d) /\ Above(d[i], d[1]))
    OBVIOUS
  <2>1. d[i] = s[i - 1] /\ i - 1 \in 1 .. Len(s) /\ (i - 1 = Len(s) => i = Len(d))
    BY <1>3, <1>6
  <2> QED BY <1>3, <1>6, <2>1
<1> QED
  BY <1>2, <1>6, <1>7, <1>9, <1>10 DEF IsSound, c, pool

(* A decision is empty, or begins with the model chosen from the pool.     *)
DInv ==
  /\ IsCatalogue(models)
  /\ req \in Request
  /\ Decided => models # {} /\ decision[1] = Chosen(InPool, req)
  /\ DecisionIsSound

(* The router answers, if at all, with a sound decision that begins with   *)
(* its choice.                                                             *)
THEOREM TheDecision == RoutingSpec => []DInv
<1>1. RoutingInit => DInv
  BY RoutingAssumption DEF RoutingInit, DInv, Decided, DecisionIsSound
<1>2. DInv /\ [Route]_routingVars => DInv'
  <2> SUFFICES ASSUME DInv, [Route]_routingVars PROVE DInv'
    OBVIOUS
  <2>1. CASE Route
    <3>1. models' = models /\ req' = req /\ decision' = RouteModel(models, req)
      BY <2>1 DEF Route
    <3>2. CASE models = {}
      <4>1. decision' = <<>>
        BY <3>1, <3>2 DEF RouteModel
      <4> QED BY <3>1, <4>1 DEF DInv, Decided, DecisionIsSound
    <3>3. CASE models # {}
      <4>1. /\ RouteModel(models, req)[1] = Chosen(Pool(models, req), req)
            /\ IsSound(RouteModel(models, req), Pool(models, req))
        BY <3>3, ADecision DEF DInv
      <4> QED BY <3>1, <3>3, <4>1 DEF DInv, Decided, DecisionIsSound, InPool
    <3> QED BY <3>2, <3>3
  <2>2. CASE UNCHANGED routingVars
    BY <2>2 DEF DInv, Decided, DecisionIsSound, InPool, routingVars
  <2> QED BY <2>1, <2>2
<1> QED
  BY <1>1, <1>2, PTL DEF RoutingSpec

(* Every decision is sound, whatever is known of the models.               *)
THEOREM DecisionsAreSound == RoutingSpec => []DecisionIsSound
<1>1. DInv => DecisionIsSound
  BY DEF DInv
<1> QED
  BY <1>1, TheDecision, PTL
-----------------------------------------------------------------------------
(* The first tier along the walk that has a model, and the tier of the     *)
(* model that comes first in the order of the scores.                      *)
LEMMA TheFirstTier ==
  ASSUME DInv, models # {}
  PROVE  LET walk == Walk(Target(req), req.rules)
             tier == FirstTier(req.rules)
         IN /\ IsWalk(walk)
            /\ tier \in Tiers
            /\ \E m \in InPool : m.tier = tier
            /\ \A m \in InPool :
                 m.tier \in Tiers /\ (m.tier # tier => Place(tier, walk) < Place(m.tier, walk))
<1> DEFINE walk == Walk(Target(req), req.rules)
           tier == FirstTier(req.rules)
           S == {i \in DOMAIN walk : \E m \in InPool : m.tier = walk[i]}
<1>1. IsWalk(walk)
  BY TargetIsATier, TheWalk DEF DInv, Request
<1>2. /\ InPool # {}
      /\ \A m \in InPool : m.tier \in Tiers
  BY ThePool DEF DInv, InPool, IsCatalogue, Model
<1>3. tier = walk[Min(S)]
  BY DEF FirstTier
<1> HIDE DEF walk
<1>4. \A m \in InPool : Place(m.tier, walk) \in S /\ walk[Place(m.tier, walk)] = m.tier
  BY <1>1, <1>2, ThePlace
<1>5. Min(S) \in S /\ \A i \in S : Min(S) <= i
  <2>1. S \subseteq Nat /\ S # {}
    BY <1>1, <1>2, <1>4 DEF IsWalk
  <2> HIDE DEF S
  <2> QED BY <2>1, MinIsLeast
<1>6. PICK b \in InPool : b.tier = tier
  BY <1>3, <1>5
<1>7. Place(tier, walk) = Min(S)
  <2>1. Place(tier, walk) \in S /\ Min(S) \in DOMAIN walk
    BY <1>4, <1>5, <1>6
  <2>2. Place(tier, walk) <= Min(S)
    BY <1>1, <1>2, <1>3, <1>6, <2>1, ThePlace
  <2>3. Min(S) <= Place(tier, walk) /\ Place(tier, walk) \in Nat /\ Min(S) \in Nat
    BY <1>1, <1>5, <2>1 DEF IsWalk
  <2> HIDE DEF S, tier
  <2> QED BY <2>2, <2>3
<1>8. ASSUME NEW m \in InPool, m.tier # tier PROVE Place(tier, walk) < Place(m.tier, walk)
  <2>1. Place(m.tier, walk) # Place(tier, walk)
    BY <1>4, <1>6, <1>8
  <2>2. Place(tier, walk) <= Place(m.tier, walk)
    BY <1>4, <1>5, <1>7
  <2>3. Place(tier, walk) \in Nat /\ Place(m.tier, walk) \in Nat
    BY <1>1, <1>2, <1>6, ThePlace
  <2> QED BY <2>1, <2>2, <2>3
<1> QED
  BY <1>1, <1>2, <1>6, <1>8 DEF walk

(* Where nothing is known, what is better than another has no lower place  *)
(* and bonus taken together.                                               *)
Best == First(InPool, Better(InPool, req))

LEMMA TheChoice ==
  ASSUME DInv, models # {}
  PROVE  /\ InPool # {} /\ InPool \subseteq models /\ IsCatalogue(InPool)
         /\ Best \in InPool
         /\ \A n \in InPool \ {Best} : Beats(Best, n, InPool, req)
         /\ Chosen(InPool, req) = Best \/ Chosen(InPool, req).id = req.policy.preferred
<1>1. InPool # {} /\ InPool \subseteq models /\ IsCatalogue(InPool)
  BY ThePool DEF DInv, InPool
<1>2. Best \in InPool /\ \A n \in InPool \ {Best} : Beats(Best, n, InPool, req)
  BY <1>1, TheBest DEF DInv, Best
<1>3. Chosen(InPool, req) = Best \/ Chosen(InPool, req).id = req.policy.preferred
  BY DEF Chosen, Pinned, Best
<1> QED
  BY <1>1, <1>2, <1>3

LEMMA UnratedScores ==
  ASSUME DInv, models # {}, NothingKnown
  PROVE  \A m \in InPool : /\ Score(m, InPool, req) = Placed(m, req)
                           /\ Placed(Best, req) \in Int /\ Placed(m, req) \in Int
                           /\ Placed(Best, req) >= Placed(m, req)
<1>1. /\ InPool \subseteq models /\ IsCatalogue(InPool) /\ Best \in InPool
      /\ \A n \in InPool \ {Best} : Beats(Best, n, InPool, req)
  BY TheChoice
<1>2. Rated(InPool) = {} /\ \A m \in InPool : m.uptime = Unknown
  BY <1>1 DEF Rated, NothingKnown
<1>3. \A m \in InPool : Score(m, InPool, req) = Placed(m, req) /\ Placed(m, req) \in Int
  BY <1>1, <1>2, AScore DEF DInv
<1>4. \A m \in InPool : Placed(Best, req) >= Placed(m, req)
  BY <1>1, <1>3 DEF Beats
<1> QED
  BY <1>1, <1>3, <1>4

(* Without a bonus anywhere the best model is of the first tier there is.  *)
LEMMA WithoutABonus ==
  ASSUME DInv, models # {}, NothingKnown,
         \A m \in InPool : HintBonus(m, req.rules, Target(req)) = 0
  PROVE  Best.tier = FirstTier(req.rules)
<1> DEFINE walk == Walk(Target(req), req.rules)
           tier == FirstTier(req.rules)
<1>1. SUFFICES ASSUME Best.tier # tier PROVE FALSE
  OBVIOUS
<1>2. PICK b \in InPool : b.tier = tier
  BY TheFirstTier
<1>3. Best \in InPool
  BY TheChoice
<1>4. Position(tier, walk) < Position(Best.tier, walk)
  <2>1. /\ IsWalk(walk) /\ tier \in Tiers /\ Best.tier \in Tiers
        /\ Place(tier, walk) < Place(Best.tier, walk)
    BY <1>1, <1>3, TheFirstTier
  <2> HIDE DEF walk, tier
  <2> QED BY <2>1, ThePosition
<1>5. /\ Position(tier, walk) \in Nat /\ Position(Best.tier, walk) \in Nat
  <2>1. IsWalk(walk) /\ tier \in Tiers /\ Best.tier \in Tiers
    BY <1>3, TheFirstTier
  <2> HIDE DEF walk, tier
  <2> QED BY <2>1, ThePosition, RouterAssumption
<1>6. /\ Placed(b, req) = 6 * (3500 - 525 * Position(tier, walk) + 0)
      /\ Placed(Best, req) = 6 * (3500 - 525 * Position(Best.tier, walk) + 0)
  BY <1>2, <1>3 DEF Placed
<1>7. Placed(Best, req) >= Placed(b, req)
  BY <1>2, UnratedScores
<1> QED
  BY <1>4, <1>5, <1>6, <1>7

(* With nothing known and no rules the choice is the old one.              *)
LEMMA AsItWas ==
  ASSUME DInv, models # {}, NothingKnown, req.rules = <<>>
  PROVE  Best = AsBefore(<<>>)
<1> DEFINE there == {m \in InPool : m.tier = FirstTier(<<>>)}
           least(m) == \A n \in there : m.cost < n.cost \/ (m.cost = n.cost /\ m.id <= n.id)
<1>1. \A m \in InPool : HintBonus(m, req.rules, Target(req)) = 0
  <2>1. req.rules \in Seq(Rule) /\ DOMAIN req.rules = {}
    BY DEF DInv, Request
  <2> QED BY <2>1, AHint
<1>2. Best \in there
  BY <1>1, WithoutABonus, TheChoice
<1>3. \A m \in InPool : m.cost \in Nat /\ m.id \in Nat
  BY TheChoice, RouterAssumption DEF IsCatalogue, Model
<1>4. \A m \in there : Placed(m, req) = Placed(Best, req)
  BY <1>1, <1>2 DEF Placed
<1>5. ASSUME NEW n \in there, n # Best
      PROVE  Best.cost < n.cost \/ (Best.cost = n.cost /\ Best.id < n.id)
  <2>1. Beats(Best, n, InPool, req)
    BY <1>5, TheChoice
  <2>2. Score(Best, InPool, req) = Score(n, InPool, req) /\ Score(n, InPool, req) \in Int
    BY <1>2, <1>4, UnratedScores
  <2> QED BY <2>1, <2>2 DEF Beats
<1>6. least(Best)
  BY <1>2, <1>3, <1>5
<1>7. \A m \in there : least(m) => m = Best
  BY <1>2, <1>3, <1>5
<1>8. AsBefore(<<>>) = CHOOSE m \in there : least(m)
  BY DEF AsBefore
<1> HIDE DEF there, least
<1> QED
  BY <1>2, <1>6, <1>7, <1>8

(* With nothing known and no rules every choice is the old one, or pinned. *)
THEOREM NothingChangesUnrated == RoutingSpec => []UnratedAsBefore
<1>1. DInv => UnratedAsBefore
  BY TheChoice, AsItWas DEF DInv, UnratedAsBefore
<1> QED
  BY <1>1, TheDecision, PTL

(* The tier the rules are about is the first of the walk.                  *)
LEMMA TheirTier ==
  ASSUME NEW target \in Tiers, NEW rules \in Seq(Rule), OneTier(rules), rules # <<>>
  PROVE  /\ Scope(rules[1], target) \in Tiers
         /\ \A i \in DOMAIN rules : Scope(rules[i], target) = Scope(rules[1], target)
         /\ \A i \in DOMAIN Walk(target, rules) :
              i < Place(Scope(rules[1], target), Walk(target, rules))
                => Walk(target, rules)[i] = Unknown
<1> DEFINE s == Scope(rules[1], target)
           w == Walk(target, rules)
<1>1. /\ Len(rules) \in Nat \ {0} /\ DOMAIN rules = 1 .. Len(rules) /\ TopTier \in Nat
      /\ \A i \in DOMAIN rules : rules[i] \in Rule
  BY RouterAssumption
<1>2. \A i \in DOMAIN rules : rules[i].tier = rules[1].tier
  BY <1>1 DEF OneTier
<1>3. s \in Tiers /\ \A i \in DOMAIN rules : Scope(rules[i], target) = s
  BY <1>1, <1>2 DEF Scope, Rule
<1>4. IsWalk(w)
  BY TheWalk
<1>5. \A i \in DOMAIN w : w[i] = s => Place(s, w) <= i
  <2> HIDE DEF w, s
  <2> QED BY <1>3, <1>4, ThePlace
<1>6. DOMAIN w = 1 .. Len(rules) + 1 + TopTier
  BY DEF Walk
<1>7. \A i \in 1 .. Len(rules) : i \in DOMAIN w /\ w[i] = rules[1].tier
  BY <1>1, <1>2 DEF Walk
<1>8. Len(rules) + 1 \in DOMAIN w /\ w[Len(rules) + 1] = target
  <2>1. /\ Len(rules) + 1 \in 1 .. Len(rules) + 1 + TopTier /\ ~(Len(rules) + 1 <= Len(rules))
        /\ target + (Len(rules) + 1 - Len(rules) - 1) = target /\ target <= TopTier
    BY <1>1 DEF Tiers
  <2> QED BY <2>1 DEF Walk
<1>9. Place(s, w) \in Nat
  <2> HIDE DEF w, s
  <2> QED BY <1>3, <1>4, ThePlace
<1>10. CASE rules[1].tier = Unknown
  <2>1. Place(s, w) <= Len(rules) + 1
    BY <1>5, <1>8, <1>10 DEF Scope
  <2>2. \A i \in DOMAIN w : i < Place(s, w) => i \in 1 .. Len(rules)
    BY <1>1, <1>6, <1>9, <2>1
  <2>3. \A i \in DOMAIN w : i < Place(s, w) => w[i] = Unknown
    BY <1>7, <1>10, <2>2
  <2> QED BY <1>3, <2>3
<1>11. CASE rules[1].tier # Unknown
  <2>1. 1 \in DOMAIN w /\ w[1] = s
    BY <1>1, <1>7, <1>11 DEF Scope
  <2>2. Place(s, w) <= 1
    BY <1>5, <2>1
  <2>3. \A i \in DOMAIN w : ~(i < Place(s, w))
    BY <1>1, <1>6, <1>9, <2>2
  <2> QED BY <1>3, <2>3
<1> QED
  BY <1>10, <1>11

LEMMA TheirPosition ==
  ASSUME NEW target \in Tiers, NEW rules \in Seq(Rule), OneTier(rules), rules # <<>>
  PROVE  Position(Scope(rules[1], target), Walk(target, rules)) = 0
<1> DEFINE s == Scope(rules[1], target)
           w == Walk(target, rules)
<1>1. \A i \in 1 .. Place(s, w) - 1 : w[i] = Unknown
  <2>1. IsWalk(w) /\ s \in Tiers
    BY TheWalk, TheirTier
  <2>2. \A i \in 1 .. Place(s, w) - 1 : i \in DOMAIN w /\ i < Place(s, w)
    <3> HIDE DEF w, s
    <3>1. Place(s, w) \in Nat /\ \A i \in 1 .. Place(s, w) - 1 : i \in DOMAIN w
      BY <2>1, ThePlace
    <3> QED BY <3>1
  <2> QED BY <2>2, TheirTier
<1>2. Ahead(s, w) = {}
  BY <1>1 DEF Ahead
<1>3. Position(s, w) = Cardinality(Ahead(s, w))
  BY DEF Position, Ahead, Place
<1> QED
  BY <1>2, <1>3, FS_EmptySet

(* Rules about one tier leave a turn in the first tier there is, unless    *)
(* they avoid every model of it.                                           *)
LEMMA RulesStay ==
  ASSUME DInv, models # {}, NothingKnown, OneTier(req.rules),
         NEW b \in InPool, b.tier = FirstTier(req.rules),
         \A i \in DOMAIN req.rules : b.id \notin req.rules[i].avoid
  PROVE  Best.tier = FirstTier(req.rules)
<1> DEFINE rules == req.rules
           target == Target(req)
           s == Scope(rules[1], target)
           walk == Walk(target, rules)
           tier == FirstTier(rules)
<1>1. rules \in Seq(Rule) /\ target \in Tiers
  BY TargetIsATier DEF DInv, Request
<1>2. CASE \A m \in InPool : HintBonus(m, rules, target) = 0
  BY <1>2, WithoutABonus
<1>3. CASE ~ \A m \in InPool : HintBonus(m, rules, target) = 0
  <2>1. PICK h \in InPool : HintBonus(h, rules, target) # 0
    BY <1>3
  <2>2. PICK k \in DOMAIN rules : Scope(rules[k], target) = h.tier
    BY <1>1, <2>1, AHint
  <2>3. rules # <<>>
    BY <2>2
  <2>4. /\ s \in Tiers /\ h.tier = s
        /\ \A i \in DOMAIN rules : Scope(rules[i], target) = s
        /\ \A i \in DOMAIN walk : i < Place(s, walk) => walk[i] = Unknown
    BY <1>1, <2>2, <2>3, TheirTier
  <2>5. Position(s, walk) = 0
    BY <1>1, <2>3, TheirPosition
  <2>6. IsWalk(walk) /\ tier \in Tiers
    BY TheFirstTier
  <2>7. s = tier
    <3>1. h.tier # tier => Place(tier, walk) < Place(h.tier, walk)
      BY TheFirstTier
    <3>2. Place(tier, walk) \in DOMAIN walk /\ walk[Place(tier, walk)] = tier /\ tier # Unknown
      <4>1. tier # Unknown
        BY <2>6 DEF Tiers, Unknown
      <4> HIDE DEF walk, tier
      <4> QED BY <2>6, <4>1, ThePlace
    <3> HIDE DEF walk, tier, s
    <3> QED BY <2>4, <3>1, <3>2
  <2>8. SUFFICES ASSUME Best.tier # tier PROVE FALSE
    OBVIOUS
  <2>9. Best \in InPool /\ Best.tier \in Tiers
    BY TheChoice, TheFirstTier
  <2>10. HintBonus(Best, rules, target) = 0
    BY <1>1, <2>4, <2>7, <2>8, AHint
  <2>11. HintBonus(b, rules, target) >= 0 /\ HintBonus(b, rules, target) \in Int
    BY <1>1, AHint
  <2>12. Position(Best.tier, walk) \in Nat \ {0}
    <3>1. Place(tier, walk) < Place(Best.tier, walk)
      BY <2>8, <2>9, TheFirstTier
    <3>2. Position(tier, walk) < Position(Best.tier, walk) /\ Position(Best.tier, walk) \in Nat
      <4> HIDE DEF walk, tier
      <4> QED BY <2>6, <2>9, <3>1, ThePosition, RouterAssumption
    <3> HIDE DEF walk, tier, s
    <3> QED BY <2>5, <2>7, <3>2
  <2>13. /\ Placed(b, req) = 6 * (3500 - 525 * 0 + HintBonus(b, rules, target))
         /\ Placed(Best, req) = 6 * (3500 - 525 * Position(Best.tier, walk) + 0)
    BY <2>5, <2>7, <2>10 DEF Placed
  <2>14. Placed(Best, req) >= Placed(b, req)
    BY UnratedScores
  <2> HIDE DEF walk, tier, s, rules, target
  <2> QED
    BY <2>11, <2>12, <2>13, <2>14
<1> QED
  BY <1>2, <1>3

(* Rules about one tier move no turn to another, unless they avoid every   *)
(* model of it.                                                            *)
THEOREM RulesDoNotMoveATurn == RoutingSpec => []RulesKeepTheTier
<1>1. DInv => RulesKeepTheTier
  BY TheChoice, RulesStay DEF DInv, RulesKeepTheTier
<1> QED
  BY <1>1, TheDecision, PTL
-----------------------------------------------------------------------------
(* One turn's calls.                                                       *)
CallsInv ==
  /\ route \in Seq(Models) /\ Len(route) \in 0 .. 4
  /\ at \in {"routing", "asking", "backoff", "tools", "ended"}
  /\ cand \in Nat /\ attempt \in Nat /\ trip \in 0 .. LastTrip
  /\ at \in {"asking", "backoff"} =>
       cand \in 1 .. Len(route) /\ attempt \in 1 .. MaxRetries + 1
  /\ at = "backoff" => attempt <= MaxRetries

(* What a turn does next: it ends, or calls a candidate from the k-th on   *)
(* that may be called, for the first time.                                 *)
Tried(k, n) ==
  \/ at' = "ended" /\ UNCHANGED <<cand, attempt, trip>>
  \/ /\ at' = "asking" /\ attempt' = 1 /\ trip' = n
     /\ cand' \in Nat /\ k <= cand' /\ cand' <= Len(route')
     /\ route'[cand'].id \in served \ off

LEMMA Trying ==
  ASSUME NEW k \in Nat, NEW n, Len(route') \in Nat
  PROVE  /\ TryFrom(k, n) => Tried(k, n)
         /\ Iterate(n) /\ k = 1 => Tried(1, n)
         /\ \A why : Throw(why) => Tried(k, n)
         /\ \A why : LoopOver(why) => Tried(k, n)
<1>1. \A why : Throw(why) => Tried(k, n)
  BY DEF Throw, End, Tried
<1>2. \A why : LoopOver(why) => Tried(k, n)
  BY DEF LoopOver, End, Tried
<1>3. ASSUME TryFrom(k, n) PROVE Tried(k, n)
  <2>1. CASE Callable(k) = {}
    BY <1>1, <1>3, <2>1 DEF TryFrom
  <2>2. CASE Callable(k) # {}
    <3>1. Callable(k) \subseteq Nat
      BY DEF Callable
    <3>2. Min(Callable(k)) \in Callable(k)
      BY <2>2, <3>1, MinIsLeast
    <3>3. at' = "asking" /\ cand' = Min(Callable(k)) /\ attempt' = 1 /\ trip' = n
      BY <1>3, <2>2 DEF TryFrom
    <3> QED BY <3>2, <3>3 DEF Callable, Tried
  <2> QED BY <2>1, <2>2
<1>4. ASSUME Iterate(n), k = 1 PROVE Tried(1, n)
  <2>1. CASE aborted
    BY <1>4, <2>1 DEF Iterate, End, Tried
  <2>2. CASE ~aborted
    BY <1>3, <1>4, <2>2 DEF Iterate
  <2> QED BY <2>1, <2>2
<1> QED
  BY <1>1, <1>2, <1>3, <1>4

(* What trying leaves behind.                                              *)
LEMMA TriedInv ==
  ASSUME CallsInv, NEW k \in Nat \ {0}, NEW n \in 0 .. LastTrip,
         route' \in Seq(Models), Len(route') \in 0 .. 4, Tried(k, n)
  PROVE  CallsInv'
<1>1. CASE at' = "ended" /\ UNCHANGED <<cand, attempt, trip>>
  BY <1>1 DEF CallsInv
<1>2. CASE ~(at' = "ended" /\ UNCHANGED <<cand, attempt, trip>>)
  <2>1. /\ at' = "asking" /\ attempt' = 1 /\ trip' = n
        /\ cand' \in Nat /\ k <= cand' /\ cand' <= Len(route')
    BY <1>2 DEF Tried
  <2>2. cand' \in 1 .. Len(route') /\ attempt' \in 1 .. MaxRetries + 1
    BY <2>1, ModelCallsAssumption
  <2> QED BY <2>1, <2>2 DEF CallsInv, LastTrip
<1> QED
  BY <1>1, <1>2

(* The steps that may begin a call, and what the others leave alone.       *)
LEMMA BeginTries ==
  ASSUME CallsInv, Begin
  PROVE  route' \in Seq(Models) /\ Len(route') \in 0 .. 4 /\ Tried(1, 0)
<1>1. PICK r \in TurnRequests : route' = RouteModel(Routable, r)
  BY DEF Begin
<1>2. IsCatalogue(Routable) /\ Routable \subseteq Models
  <2>1. IsFiniteSet(Routable) /\ Routable \subseteq Models
    BY ModelCallsAssumption, FS_Subset DEF Routable, IsCatalogue
  <2> QED BY <2>1, ModelCallsAssumption DEF IsCatalogue
<1>3. route' \in Seq(Models) /\ Len(route') \in 0 .. 4
  <2>1. CASE Routable = {}
    <3>1. route' = <<>>
      BY <1>1, <2>1 DEF RouteModel
    <3> QED BY <3>1
  <2>2. CASE Routable # {}
    <3>1. route' \in Seq(Pool(Routable, r)) /\ Len(route') \in 1 .. 4
      BY <1>1, <1>2, <2>2, ADecision, ModelCallsAssumption DEF IsSound
    <3>2. Pool(Routable, r) \subseteq Models
      BY <1>2, ThePool
    <3> QED BY <3>1, <3>2
  <2> QED BY <2>1, <2>2
<1>4. Throw("no route") \/ Iterate(0)
  BY DEF Begin
<1>5. Tried(1, 0)
  <2>1. Len(route') \in Nat /\ 1 \in Nat
    BY <1>3
  <2>2. (Iterate(0) => Tried(1, 0)) /\ (Throw("no route") => Tried(1, 0))
    BY <2>1, Trying
  <2> QED BY <1>4, <2>2
<1> QED
  BY <1>3, <1>5

LEMMA AnswerTurns ==
  ASSUME NEW text, NEW tools, NEW cut, Answer(text, tools, cut)
  PROVE  /\ route' = route /\ UNCHANGED <<cand, attempt, trip>>
         /\ at' \in {"tools", "ended"}
BY DEF Answer, LoopOver, End

LEMMA FailTries ==
  ASSUME CallsInv, NEW retryable, Fail(retryable)
  PROVE  /\ route' = route
         /\ \/ Tried(cand + 1, trip)
            \/ at' = "backoff" /\ attempt <= MaxRetries /\ UNCHANGED <<cand, attempt, trip>>
<1>1. route' = route /\ Failed(retryable)
  BY DEF Fail
<1>2. cand + 1 \in Nat /\ Len(route') \in Nat
  BY <1>1 DEF CallsInv
<1>3. CASE aborted
  BY <1>1, <1>2, <1>3, Trying DEF Failed
<1>4. CASE ~aborted /\ retryable /\ attempt <= MaxRetries
  BY <1>1, <1>4 DEF Failed
<1>5. CASE ~aborted /\ ~(retryable /\ attempt <= MaxRetries)
  <2>1. TryFrom(cand + 1, trip)
    BY <1>1, <1>5 DEF Failed
  <2> QED BY <1>1, <1>2, <2>1, Trying
<1> QED
  BY <1>3, <1>4, <1>5

LEMMA RetryCalls ==
  ASSUME CallsInv, Retry
  PROVE  /\ route' = route /\ UNCHANGED <<cand, trip>> /\ at = "backoff"
         /\ \/ at' = "ended" /\ attempt' = attempt
            \/ at' = "asking" /\ attempt' = attempt + 1
BY DEF Retry, Throw, End

LEMMA ToolsTry ==
  ASSUME CallsInv, ToolsRan
  PROVE  route' = route /\ \E n \in 0 .. LastTrip : Tried(1, n)
<1>1. route' = route /\ Len(route') \in Nat
  BY DEF ToolsRan, CallsInv
<1>2. trip \in 0 .. LastTrip /\ LastTrip \in Nat
  BY ModelCallsAssumption DEF CallsInv, LastTrip
<1>3. CASE trip = LastTrip
  <2>1. LoopOver("none")
    BY <1>3 DEF ToolsRan
  <2> QED BY <1>1, <1>2, <2>1, Trying
<1>4. CASE trip # LastTrip
  <2>1. Iterate(NextTrip)
    BY <1>4 DEF ToolsRan
  <2>2. NextTrip \in 0 .. LastTrip
    BY <1>2, <1>4 DEF NextTrip
  <2> QED BY <1>1, <2>1, <2>2, Trying
<1> QED
  BY <1>3, <1>4

LEMMA OthersDoNot ==
  ASSUME Abort \/ (\E id \in Ids : Switch(id) \/ Discover(id)) \/ UNCHANGED callVars
  PROVE  UNCHANGED <<at, route, cand, attempt, trip>>
BY DEF Abort, Switch, Discover, Turn, callVars

LEMMA CallsInvStep == ASSUME CallsInv, [CallsNext]_callVars PROVE CallsInv'
<1>1. CASE Begin
  <2>1. route' \in Seq(Models) /\ Len(route') \in 0 .. 4 /\ Tried(1, 0)
    BY <1>1, BeginTries
  <2>2. 0 \in 0 .. LastTrip
    BY ModelCallsAssumption DEF LastTrip
  <2> QED BY <2>1, <2>2, TriedInv
<1>2. ASSUME NEW text \in BOOLEAN, NEW tools \in BOOLEAN, NEW cut \in BOOLEAN,
             Answer(text, tools, cut)
      PROVE  CallsInv'
  BY <1>2, AnswerTurns DEF CallsInv
<1>3. ASSUME NEW retryable \in BOOLEAN, Fail(retryable) PROVE CallsInv'
  <2>1. route' = route /\ at = "asking"
    BY <1>3 DEF Fail
  <2>2. CASE Tried(cand + 1, trip)
    BY <2>1, <2>2, TriedInv DEF CallsInv
  <2>3. CASE at' = "backoff" /\ attempt <= MaxRetries /\ UNCHANGED <<cand, attempt, trip>>
    BY <2>1, <2>3 DEF CallsInv, LastTrip
  <2> QED BY <1>3, <2>2, <2>3, FailTries
<1>4. CASE Retry
  <2>1. attempt + 1 \in 1 .. MaxRetries + 1 /\ attempt + 1 \in Nat
    BY <1>4, RetryCalls, ModelCallsAssumption DEF CallsInv
  <2> QED BY <1>4, <2>1, RetryCalls DEF CallsInv
<1>5. CASE ToolsRan
  BY <1>5, ToolsTry, TriedInv DEF CallsInv
<1>6. CASE Abort \/ (\E id \in Ids : Switch(id) \/ Discover(id)) \/ UNCHANGED callVars
  BY <1>6, OthersDoNot DEF CallsInv
<1> QED
  BY <1>1, <1>2, <1>3, <1>4, <1>5, <1>6 DEF CallsNext, CallSettles

(* A turn makes at most so many trips, over at most four candidates, with  *)
(* at most so many attempts at each, and calls only what was routed.       *)
THEOREM CallsAreBounded == CallsSpec => []CallsInv
<1>1. CallsInit => CallsInv
  <2>1. 0 \in 0 .. LastTrip
    BY ModelCallsAssumption DEF LastTrip
  <2> QED BY <2>1 DEF CallsInit, CallsInv
<1> QED
  BY <1>1, CallsInvStep, PTL DEF CallsSpec

(* A call that is no retry goes to a model that is served and switched on. *)
THEOREM WhatIsOffIsNotCalled == CallsSpec => OffIsOff
<1> DEFINE Called == /\ at' = "asking" /\ attempt' = 1 /\ (at # "asking" \/ cand # cand')
           Allowed == Called => route'[cand'].id \in served \ off
<1>1. \A k, n : Tried(k, n) => Allowed
  BY DEF Tried
<1>2. ASSUME CallsInv, [CallsNext]_callVars PROVE Allowed
  <2>1. CASE Begin
    BY <1>1, <1>2, <2>1, BeginTries
  <2>2. ASSUME NEW text \in BOOLEAN, NEW tools \in BOOLEAN, NEW cut \in BOOLEAN,
               Answer(text, tools, cut)
        PROVE  Allowed
    BY <2>2, AnswerTurns
  <2>3. ASSUME NEW retryable \in BOOLEAN, Fail(retryable) PROVE Allowed
    <3>1. Tried(cand + 1, trip) \/ at' = "backoff"
      BY <1>2, <2>3, FailTries
    <3> QED BY <1>1, <3>1
  <2>4. CASE Retry
    <3>1. attempt \in Nat \ {0} /\ (at' = "ended" \/ attempt' = attempt + 1)
      BY <1>2, <2>4, RetryCalls DEF CallsInv
    <3> QED BY <3>1
  <2>5. CASE ToolsRan
    BY <1>1, <1>2, <2>5, ToolsTry
  <2>6. CASE Abort \/ (\E id \in Ids : Switch(id) \/ Discover(id)) \/ UNCHANGED callVars
    BY <2>6, OthersDoNot
  <2> QED
    BY <1>2, <2>1, <2>2, <2>3, <2>4, <2>5, <2>6 DEF CallsNext, CallSettles
<1> QED
  BY <1>2, CallsAreBounded, PTL DEF CallsSpec, OffIsOff
=============================================================================
