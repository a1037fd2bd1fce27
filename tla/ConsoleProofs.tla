----------------------------- MODULE ConsoleProofs -----------------------------
(* Proofs about Console, for any number of commands, drops and restarts   *)
(* and any length of the queue.                                            *)
EXTENDS Console, TLAPS, SequenceTheorems

-----------------------------------------------------------------------------
(* Sequences of commands. LoadRun is no command of the operator and may    *)
(* stand anywhere.                                                         *)
Increasing(s) ==
  \A i, j \in 1 .. Len(s) : i < j /\ s[i] # LoadRun /\ s[j] # LoadRun => s[i] < s[j]

Precedes(s, t) ==
  \A i \in 1 .. Len(s), j \in 1 .. Len(t) : s[i] # LoadRun /\ t[j] # LoadRun => s[i] < t[j]

UpTo(s, n) == \A i \in 1 .. Len(s) : s[i] <= n

(* What the server has heard comes before what is under way, and that      *)
(* before what the console keeps, of the first n commands.                 *)
InOrder(h, u, q, n) ==
  /\ h \in Seq(Nat) /\ u \in Seq(Nat) /\ q \in Seq(Nat) /\ n \in Nat
  /\ \A i \in 1 .. Len(h) : h[i] # LoadRun
  /\ Increasing(h) /\ Increasing(u) /\ Increasing(q)
  /\ Precedes(h, u) /\ Precedes(h, q) /\ Precedes(u, q)
  /\ UpTo(h, n) /\ UpTo(u, n) /\ UpTo(q, n)

(* An open socket keeps no command, so what it sends cannot overtake one.  *)
OutboundInOrder ==
  /\ InOrder(heard, up, queue, typed)
  /\ conn = "open" => queue = <<>>

(* The elements of a sequence without its first, or with one more.         *)
LEMMA TailElements ==
  ASSUME NEW s \in Seq(Nat), s # <<>>
  PROVE  /\ Tail(s) \in Seq(Nat) /\ Len(Tail(s)) = Len(s) - 1 /\ Len(s) > 0
         /\ Head(s) = s[1] /\ Head(s) \in Nat
         /\ \A i \in 1 .. Len(Tail(s)) : Tail(s)[i] = s[i + 1]
OBVIOUS

LEMMA AppendElements ==
  ASSUME NEW s \in Seq(Nat), NEW c \in Nat
  PROVE  /\ Append(s, c) \in Seq(Nat) /\ Len(Append(s, c)) = Len(s) + 1
         /\ \A i \in 1 .. Len(s) : Append(s, c)[i] = s[i]
         /\ Append(s, c)[Len(s) + 1] = c
OBVIOUS

LEMMA ConcatElements ==
  ASSUME NEW s \in Seq(Nat), NEW t \in Seq(Nat)
  PROVE  /\ s \o t \in Seq(Nat) /\ Len(s \o t) = Len(s) + Len(t)
         /\ Len(s) \in Nat /\ Len(t) \in Nat
         /\ \A i \in 1 .. Len(s) : (s \o t)[i] = s[i]
         /\ \A i \in (Len(s) + 1) .. (Len(s) + Len(t)) : (s \o t)[i] = t[i - Len(s)]
OBVIOUS

(* Dropping the oldest command kept leaves the order as it is.             *)
LEMMA TailInOrder ==
  ASSUME NEW h, NEW u, NEW q, NEW n, InOrder(h, u, q, n), q # <<>>
  PROVE  InOrder(h, u, Tail(q), n)
<1> DEFINE t == Tail(q)
<1>1. /\ t \in Seq(Nat) /\ Len(t) = Len(q) - 1 /\ Len(q) \in Nat
      /\ \A i \in 1 .. Len(t) : t[i] = q[i + 1]
  BY TailElements DEF InOrder
<1> HIDE DEF t
<1>2. \A i \in 1 .. Len(t) : i + 1 \in 1 .. Len(q) /\ t[i] = q[i + 1]
  BY <1>1
<1>3. Increasing(t)
  <2> SUFFICES ASSUME NEW i \in 1 .. Len(t), NEW j \in 1 .. Len(t), i < j,
                      t[i] # LoadRun, t[j] # LoadRun
               PROVE  t[i] < t[j]
    BY DEF Increasing
  <2>1. i + 1 \in 1 .. Len(q) /\ j + 1 \in 1 .. Len(q) /\ i + 1 < j + 1
    BY <1>1, <1>2
  <2> QED
    BY <1>2, <2>1 DEF InOrder, Increasing
<1>4. Precedes(h, t) /\ Precedes(u, t)
  BY <1>2 DEF InOrder, Precedes
<1>5. UpTo(t, n)
  BY <1>2 DEF InOrder, UpTo
<1> QED
  BY <1>1, <1>3, <1>4, <1>5 DEF InOrder, t

(* A later command, or a LoadRun, may be added to what is kept.            *)
LEMMA AppendInOrder ==
  ASSUME NEW h, NEW u, NEW q, NEW n, InOrder(h, u, q, n),
         NEW c \in Nat, c = LoadRun \/ c > n, NEW m \in Nat, m >= n, m >= c
  PROVE  InOrder(h, u, Append(q, c), m)
<1> DEFINE t == Append(q, c)
<1>1. /\ t \in Seq(Nat) /\ Len(t) = Len(q) + 1 /\ Len(q) \in Nat
      /\ \A i \in 1 .. Len(q) : t[i] = q[i]
      /\ t[Len(q) + 1] = c
  BY AppendElements DEF InOrder
<1> HIDE DEF t
<1>2. \A i \in 1 .. Len(t) : \/ i \in 1 .. Len(q) /\ t[i] = q[i]
                             \/ i = Len(q) + 1 /\ t[i] = c
  BY <1>1
<1>3. /\ \A i \in 1 .. Len(h) : h[i] \in Nat
      /\ \A i \in 1 .. Len(u) : u[i] \in Nat
      /\ \A i \in 1 .. Len(q) : q[i] \in Nat
      /\ n \in Nat
  BY DEF InOrder
<1>4. Increasing(t)
  <2> SUFFICES ASSUME NEW i \in 1 .. Len(t), NEW j \in 1 .. Len(t), i < j,
                      t[i] # LoadRun, t[j] # LoadRun
               PROVE  t[i] < t[j]
    BY DEF Increasing
  <2>1. i \in 1 .. Len(q) /\ t[i] = q[i]
    BY <1>1, <1>2
  <2>2. CASE j \in 1 .. Len(q) /\ t[j] = q[j]
    BY <2>1, <2>2 DEF InOrder, Increasing
  <2>3. CASE t[j] = c
    <3>1. q[i] <= n /\ c > n /\ q[i] \in Nat
      BY <1>3, <2>1, <2>3 DEF InOrder, UpTo
    <3> QED
      BY <1>3, <2>1, <2>3, <3>1
  <2> QED
    BY <1>2, <2>2, <2>3
<1>5. Precedes(h, t) /\ Precedes(u, t)
  <2>1. ASSUME NEW s \in {h, u}, NEW i \in 1 .. Len(s), NEW j \in 1 .. Len(t),
               s[i] # LoadRun, t[j] # LoadRun
        PROVE  s[i] < t[j]
    <3>1. s[i] \in Nat /\ s[i] <= n
      BY <1>3, <2>1 DEF InOrder, UpTo
    <3>2. CASE j \in 1 .. Len(q) /\ t[j] = q[j]
      BY <2>1, <3>2 DEF InOrder, Precedes
    <3>3. CASE t[j] = c
      BY <1>3, <2>1, <3>1, <3>3
    <3> QED
      BY <1>2, <3>2, <3>3
  <2> QED
    BY <2>1 DEF Precedes
<1>6. UpTo(h, m) /\ UpTo(u, m) /\ UpTo(t, m)
  <2>1. ASSUME NEW s \in {h, u, q}, NEW i \in 1 .. Len(s)
        PROVE  s[i] <= m
    <3>1. s[i] \in Nat /\ s[i] <= n
      BY <1>3, <2>1 DEF InOrder, UpTo
    <3> QED
      BY <1>3, <3>1
  <2> QED
    BY <1>2, <2>1 DEF UpTo
<1> QED
  BY <1>1, <1>4, <1>5, <1>6 DEF InOrder, t

(* What is kept may be sent.                                               *)
LEMMA FlushInOrder ==
  ASSUME NEW h, NEW u, NEW q, NEW n, InOrder(h, u, q, n)
  PROVE  InOrder(h, u \o q, <<>>, n)
<1> DEFINE t == u \o q
<1>1. /\ t \in Seq(Nat) /\ Len(t) = Len(u) + Len(q) /\ Len(u) \in Nat /\ Len(q) \in Nat
      /\ \A i \in 1 .. Len(u) : t[i] = u[i]
      /\ \A i \in (Len(u) + 1) .. (Len(u) + Len(q)) : t[i] = q[i - Len(u)]
  BY ConcatElements DEF InOrder
<1> HIDE DEF t
<1>2. \A i \in 1 .. Len(t) :
        \/ i \in 1 .. Len(u) /\ t[i] = u[i]
        \/ /\ i \notin 1 .. Len(u) /\ i - Len(u) \in 1 .. Len(q)
           /\ t[i] = q[i - Len(u)]
  BY <1>1
<1>3. Increasing(t)
  <2> SUFFICES ASSUME NEW i \in 1 .. Len(t), NEW j \in 1 .. Len(t), i < j,
                      t[i] # LoadRun, t[j] # LoadRun
               PROVE  t[i] < t[j]
    BY DEF Increasing
  <2>1. CASE i \in 1 .. Len(u) /\ j \in 1 .. Len(u)
    BY <1>1, <2>1 DEF InOrder, Increasing
  <2>2. CASE i \in 1 .. Len(u) /\ j \notin 1 .. Len(u)
    BY <1>2, <2>2 DEF InOrder, Precedes
  <2>3. CASE i \notin 1 .. Len(u)
    <3>1. j \notin 1 .. Len(u)
      BY <1>1, <2>3
    <3>2. i - Len(u) < j - Len(u)
      BY <1>1
    <3> QED
      BY <1>2, <2>3, <3>1, <3>2 DEF InOrder, Increasing
  <2> QED
    BY <2>1, <2>2, <2>3
<1>4. Precedes(h, t) /\ UpTo(t, n)
  BY <1>2 DEF InOrder, Precedes, UpTo
<1>5. /\ <<>> \in Seq(Nat) /\ Increasing(<<>>) /\ Precedes(h, <<>>) /\ Precedes(t, <<>>)
      /\ UpTo(<<>>, n)
  BY DEF Increasing, Precedes, UpTo
<1> QED
  BY <1>1, <1>3, <1>4, <1>5 DEF InOrder, t

(* A socket that closes loses what was under way.                          *)
LEMMA LossInOrder ==
  ASSUME NEW h, NEW u, NEW q, NEW n, InOrder(h, u, q, n)
  PROVE  InOrder(h, <<>>, q, n)
<1>1. /\ <<>> \in Seq(Nat) /\ Increasing(<<>>) /\ Precedes(h, <<>>) /\ Precedes(<<>>, q)
      /\ UpTo(<<>>, n)
  BY DEF Increasing, Precedes, UpTo
<1> QED
  BY <1>1 DEF InOrder

(* The server takes the first of what is under way; a LoadRun it only      *)
(* answers.                                                                *)
LEMMA HandledInOrder ==
  ASSUME NEW h, NEW u, NEW q, NEW n, InOrder(h, u, q, n), u # <<>>
  PROVE  /\ InOrder(h, Tail(u), q, n)
         /\ Head(u) # LoadRun => InOrder(Append(h, Head(u)), Tail(u), q, n)
<1> DEFINE t == Tail(u)
           g == Append(h, Head(u))
<1>1. /\ t \in Seq(Nat) /\ Len(t) = Len(u) - 1 /\ Len(u) \in Nat /\ 1 \in 1 .. Len(u)
      /\ Head(u) = u[1] /\ u[1] \in Nat
      /\ \A i \in 1 .. Len(t) : t[i] = u[i + 1]
  BY TailElements DEF InOrder
<1>2. /\ g \in Seq(Nat) /\ Len(g) = Len(h) + 1 /\ Len(h) \in Nat
      /\ \A i \in 1 .. Len(h) : g[i] = h[i]
      /\ g[Len(h) + 1] = u[1]
  BY <1>1, AppendElements DEF InOrder
<1> HIDE DEF t, g
<1>3. \A i \in 1 .. Len(t) : i + 1 \in 1 .. Len(u) /\ 1 < i + 1 /\ t[i] = u[i + 1]
  BY <1>1
<1>4. Increasing(t) /\ Precedes(h, t) /\ Precedes(t, q) /\ UpTo(t, n)
  <2>1. Increasing(t)
    <3> SUFFICES ASSUME NEW i \in 1 .. Len(t), NEW j \in 1 .. Len(t), i < j,
                        t[i] # LoadRun, t[j] # LoadRun
                 PROVE  t[i] < t[j]
      BY DEF Increasing
    <3>1. i + 1 \in 1 .. Len(u) /\ j + 1 \in 1 .. Len(u) /\ i + 1 < j + 1
      BY <1>1, <1>3
    <3> QED
      BY <1>3, <3>1 DEF InOrder, Increasing
  <2>2. Precedes(h, t) /\ Precedes(t, q) /\ UpTo(t, n)
    BY <1>3 DEF InOrder, Precedes, UpTo
  <2> QED
    BY <2>1, <2>2
<1>5. InOrder(h, t, q, n)
  BY <1>1, <1>4 DEF InOrder
<1>6. ASSUME u[1] # LoadRun
      PROVE  InOrder(g, t, q, n)
  <2>1. \A i \in 1 .. Len(g) : \/ i \in 1 .. Len(h) /\ g[i] = h[i]
                               \/ i = Len(h) + 1 /\ g[i] = u[1]
    BY <1>2
  <2>2. \A i \in 1 .. Len(g) : g[i] # LoadRun
    BY <1>6, <2>1 DEF InOrder
  <2>3. Increasing(g)
    <3> SUFFICES ASSUME NEW i \in 1 .. Len(g), NEW j \in 1 .. Len(g), i < j
                 PROVE  g[i] < g[j]
      BY DEF Increasing
    <3>0. i # Len(h) + 1
      BY <1>2
    <3>1. i \in 1 .. Len(h) /\ g[i] = h[i] /\ h[i] # LoadRun
      BY <2>1, <3>0 DEF InOrder
    <3>2. CASE j \in 1 .. Len(h) /\ g[j] = h[j]
      BY <3>1, <3>2 DEF InOrder, Increasing
    <3>3. CASE g[j] = u[1]
      BY <1>1, <1>6, <3>1, <3>3 DEF InOrder, Precedes
    <3> QED
      BY <2>1, <3>2, <3>3
  <2>4. Precedes(g, t)
    BY <1>1, <1>3, <1>4, <1>6, <2>1 DEF InOrder, Increasing, Precedes
  <2>5. Precedes(g, q)
    BY <1>1, <1>6, <2>1 DEF InOrder, Precedes
  <2>6. UpTo(g, n)
    BY <1>1, <2>1 DEF InOrder, UpTo
  <2> QED
    BY <1>2, <1>5, <2>2, <2>3, <2>4, <2>5, <2>6 DEF InOrder
<1> QED
  BY <1>1, <1>5, <1>6 DEF t, g

-----------------------------------------------------------------------------
(* A command is sent, or kept in place of the oldest.                      *)
LEMMA SendInOrder ==
  ASSUME OutboundInOrder, NEW c \in Nat, c = LoadRun \/ c > typed,
         NEW m \in Nat, m >= typed, m >= c, Send(c)
  PROVE  InOrder(heard, up', queue', m) /\ (conn = "open" => queue' = <<>>)
<1>1. InOrder(heard, up, queue, typed) /\ typed \in Nat
  BY DEF OutboundInOrder, InOrder
<1>2. CASE conn = "open"
  <2>1. up' = Append(up, c) /\ queue = <<>> /\ queue' = <<>>
    BY <1>2 DEF Send, OutboundInOrder
  <2>2. up \o queue = up
    BY <1>1, <2>1 DEF InOrder
  <2>3. Append(up, c) = up \o Append(<<>>, c)
    BY <1>1 DEF InOrder
  <2>4. InOrder(heard, up, Append(<<>>, c), m)
    BY <1>1, <2>1, AppendInOrder
  <2>5. InOrder(heard, up \o Append(<<>>, c), <<>>, m)
    BY <2>4, FlushInOrder
  <2> QED
    BY <2>1, <2>3, <2>5
<1>3. CASE conn # "open"
  <2>1. up' = up
    BY <1>3 DEF Send
  <2>2. CASE Len(queue) >= MaxQueue
    <3>1. queue # <<>>
      BY <2>2, BoundsAssumption
    <3>2. InOrder(heard, up, Tail(queue), typed)
      BY <1>1, <3>1, TailInOrder
    <3>3. InOrder(heard, up, Append(Tail(queue), c), m)
      BY <3>2, AppendInOrder
    <3> QED
      BY <1>3, <2>1, <2>2, <3>3 DEF Send
  <2>3. CASE ~(Len(queue) >= MaxQueue)
    <3>1. InOrder(heard, up, Append(queue, c), m)
      BY <1>1, AppendInOrder
    <3> QED
      BY <1>3, <2>1, <2>3, <3>1 DEF Send
  <2> QED
    BY <2>2, <2>3
<1> QED
  BY <1>2, <1>3

(* The console opens a run while it applies a frame, or sends nothing.     *)
LEMMA LoadRunInOrder ==
  ASSUME OutboundInOrder, UNCHANGED <<heard, typed, conn>>,
         Send(LoadRun) \/ UNCHANGED <<up, queue>>
  PROVE  OutboundInOrder'
<1>1. LoadRun \in Nat /\ typed \in Nat
  BY DEF LoadRun, OutboundInOrder, InOrder
<1>2. CASE Send(LoadRun)
  <2>1. typed >= LoadRun
    BY <1>1 DEF LoadRun
  <2>2. InOrder(heard, up', queue', typed) /\ (conn = "open" => queue' = <<>>)
    BY <1>1, <1>2, <2>1, SendInOrder
  <2> QED
    BY <2>2 DEF OutboundInOrder
<1>3. CASE UNCHANGED <<up, queue>>
  BY <1>3 DEF OutboundInOrder
<1> QED
  BY <1>2, <1>3

(* Every step of the console, the wire and the server keeps the order.     *)
LEMMA NextInOrder ==
  ASSUME OutboundInOrder, Next
  PROVE  OutboundInOrder'
<1>1. CASE \/ Submit \/ SettleRun \/ (\E a \in Asks : Request(a) \/ Decide(a))
           \/ Deselect \/ DetailRead \/ IngestRunDetail \/ ColdRead \/ ApplyColdState
  <2>1. UNCHANGED <<heard, up, queue, typed, conn>>
    BY <1>1 DEF Submit, SettleRun, Request, Decide, Deselect, DetailRead, IngestRunDetail,
       ColdRead, ApplyColdState, outbound
  <2> QED
    BY <2>1 DEF OutboundInOrder
<1>2. CASE Connect \/ Accept
  <2>1. UNCHANGED <<heard, up, queue, typed>> /\ conn' # "open"
    BY <1>2 DEF Connect, Accept, outbound
  <2> QED
    BY <2>1 DEF OutboundInOrder
<1>3. CASE Opened
  <2>1. InOrder(heard, up \o queue, <<>>, typed)
    BY FlushInOrder DEF OutboundInOrder
  <2> QED
    BY <1>3, <2>1 DEF Opened, OutboundInOrder
<1>4. CASE Drop \/ Restart
  <2>1. UNCHANGED <<heard, queue, typed>> /\ up' = <<>> /\ conn' = "closed"
    BY <1>4 DEF Drop, Restart, Hangup
  <2>2. InOrder(heard, <<>>, queue, typed)
    BY LossInOrder DEF OutboundInOrder
  <2> QED
    BY <2>1, <2>2 DEF OutboundInOrder
<1>5. CASE Type
  <2>1. typed \in Nat /\ typed + 1 \in Nat /\ typed' = typed + 1
    BY <1>5 DEF Type, OutboundInOrder, InOrder
  <2>2. Send(typed + 1) /\ UNCHANGED <<heard, conn>>
    BY <1>5, <2>1 DEF Type
  <2>3. InOrder(heard, up', queue', typed + 1) /\ (conn = "open" => queue' = <<>>)
    BY <2>1, <2>2, SendInOrder
  <2> QED
    BY <2>1, <2>2, <2>3 DEF OutboundInOrder
<1>6. CASE Handle
  <2>1. /\ up # <<>> /\ up' = Tail(up) /\ UNCHANGED <<queue, typed, conn>>
        /\ heard' = heard \/ (Head(up) # LoadRun /\ heard' = Append(heard, Head(up)))
    BY <1>6 DEF Handle
  <2>2. /\ InOrder(heard, Tail(up), queue, typed)
        /\ Head(up) # LoadRun => InOrder(Append(heard, Head(up)), Tail(up), queue, typed)
    BY <2>1, HandledInOrder DEF OutboundInOrder
  <2> QED
    BY <2>1, <2>2 DEF OutboundInOrder
<1>7. CASE Receive
  <2>1. UNCHANGED <<heard, typed, conn>> /\ (Send(LoadRun) \/ UNCHANGED <<up, queue>>)
    BY <1>7 DEF Receive, Apply
  <2> QED
    BY <2>1, LoadRunInOrder
<1>8. CASE SelectRun
  <2>1. UNCHANGED <<heard, typed, conn>> /\ (Send(LoadRun) \/ UNCHANGED <<up, queue>>)
    BY <1>8 DEF SelectRun
  <2> QED
    BY <2>1, LoadRunInOrder
<1> QED
  BY <1>1, <1>2, <1>3, <1>4, <1>5, <1>6, <1>7, <1>8 DEF Next

(* The server handles what an operator types in the order it was typed and *)
(* at most once, whatever drops, restarts, overflows of the queue and      *)
(* loads of runs come between.                                             *)
THEOREM CommandsArriveInOrder == Spec => []CommandsInOrder
<1>1. Init => OutboundInOrder
  BY DEF Init, OutboundInOrder, InOrder, Increasing, Precedes, UpTo
<1>2. OutboundInOrder /\ [Next]_vars => OutboundInOrder'
  BY NextInOrder DEF vars, OutboundInOrder
<1>3. OutboundInOrder => CommandsInOrder
  BY DEF OutboundInOrder, InOrder, Increasing, CommandsInOrder
<1> QED
  BY <1>1, <1>2, <1>3, PTL DEF Spec

-----------------------------------------------------------------------------
(* What the console shows, topic by topic: the run, and each approval.     *)
Topics == {<<"run", "run">>} \cup {<<"ask", a>> : a \in Asks}
IsRun(t) == t[1] = "run"

Frame ==
  [kind : {"hello", "office.updated"}, run : Runs, pending : SUBSET Asks]
    \cup [kind : {"run.created", "run.updated"}, run : Runs]
    \cup [kind : {"approval"}, ask : Asks, verdict : {"pending", "decided"}]

(* Whether a frame has something to say of a topic, and what.              *)
Greets(f) == f.kind \in {"hello", "office.updated"}
Talks(t, f) ==
  IF IsRun(t) THEN f.kind # "approval" ELSE Greets(f) \/ (f.kind = "approval" /\ f.ask = t[2])

Waits(b) == IF b THEN "pending" ELSE "settled"
Says(t, f) ==
  IF IsRun(t) THEN f.run
  ELSE IF Greets(f) THEN Waits(t[2] \in f.pending) ELSE Waits(f.verdict = "pending")

(* What the console shows of it, and how it is.                            *)
Seen(t, v) == IF IsRun(t) THEN v.run ELSE Waits(v.asks[t[2]] = "pending")
Truth(t, o) == IF IsRun(t) THEN o.run ELSE Waits(t[2] \in o.pending)

(* The last that frames say of a topic.                                    *)
Silent(t, s) == \A i \in 1 .. Len(s) : ~Talks(t, s[i])
Ends(t, s, x) ==
  \E i \in 1 .. Len(s) :
    /\ Talks(t, s[i]) /\ Says(t, s[i]) = x
    /\ \A j \in 1 .. Len(s) : j > i => ~Talks(t, s[j])
Leaves(t, seen, s, x) == Ends(t, s, x) \/ (Silent(t, s) /\ seen = x)

Views ==
  [known : BOOLEAN, hello : BOOLEAN, run : Runs, selected : BOOLEAN,
   asks : [Asks -> {"none", "pending", "decided"}]]

TheOffice ==
  office \in [run : Runs, pending : SUBSET Asks, asked : SUBSET Asks, live : BOOLEAN]

Kinds ==
  /\ TheOffice
  /\ log \in Seq(Frame) /\ wire \in Seq(Frame)
  /\ view \in Views
  /\ cold.state.run \in Runs

(* The log ends with how things are, the approvals while the office lives  *)
(* that asked for them.                                                    *)
LogTells ==
  \A t \in Topics :
    IF IsRun(t) THEN office.run # "none" => Ends(t, log, Truth(t, office))
    ELSE office.live => Leaves(t, Waits(FALSE), log, Truth(t, office))

(* A connection begins with the whole office.                              *)
Greeted ==
  Listening => view.known \/ (wire # <<>> /\ wire[1].kind = "hello")

(* A merge that may put the console behind on a topic.                     *)
Spoilt(t, fed) == IF IsRun(t) THEN "detail" \in fed ELSE "stale" \in fed

(* What is on its way leaves the console with how things are.              *)
Follows ==
  Listening /\ WholeReplays =>
    \A t \in Topics :
      ~Spoilt(t, merged) => Leaves(t, Seen(t, view), wire, Truth(t, office))

InStep == Kinds /\ LogTells /\ Greeted /\ Follows

LEMMA JoinedWords ==
  ASSUME NEW s \in Seq(Frame), NEW u \in Seq(Frame), NEW t, NEW x
  PROVE  /\ s \o u \in Seq(Frame)
         /\ Ends(t, u, x) => Ends(t, s \o u, x)
         /\ Silent(t, u) /\ Ends(t, s, x) => Ends(t, s \o u, x)
         /\ Silent(t, u) /\ Silent(t, s) => Silent(t, s \o u)
<1> DEFINE w == s \o u
<1>1. /\ w \in Seq(Frame) /\ Len(w) = Len(s) + Len(u)
      /\ \A i \in 1 .. Len(s) : w[i] = s[i]
      /\ \A i \in 1 .. Len(u) : w[Len(s) + i] = u[i]
  BY ConcatProperties
<1>2. Len(s) \in Nat /\ Len(u) \in Nat
  BY LenProperties
<1> HIDE DEF w
<1>3. \A i \in 1 .. Len(w) :
         \/ i \in 1 .. Len(s) /\ w[i] = s[i]
         \/ i - Len(s) \in 1 .. Len(u) /\ w[i] = u[i - Len(s)]
  <2> SUFFICES ASSUME NEW i \in 1 .. Len(w), i \notin 1 .. Len(s)
               PROVE  i - Len(s) \in 1 .. Len(u) /\ w[i] = u[i - Len(s)]
    BY <1>1
  <2>1. i - Len(s) \in 1 .. Len(u) /\ Len(s) + (i - Len(s)) = i
    BY <1>1, <1>2
  <2> QED
    BY <1>1, <2>1
<1>4. ASSUME Ends(t, u, x) PROVE Ends(t, w, x)
  <2>1. PICK i \in 1 .. Len(u) :
          /\ Talks(t, u[i]) /\ Says(t, u[i]) = x
          /\ \A j \in 1 .. Len(u) : j > i => ~Talks(t, u[j])
    BY <1>4 DEF Ends
  <2> DEFINE k == Len(s) + i
  <2>2. k \in 1 .. Len(w) /\ w[k] = u[i]
    BY <1>1, <1>2
  <2>3. ASSUME NEW j \in 1 .. Len(w), j > k PROVE ~Talks(t, w[j])
    <3>1. j \notin 1 .. Len(s) /\ j - Len(s) > i
      BY <1>2, <2>3
    <3> QED
      BY <1>3, <2>1, <3>1
  <2> QED
    BY <2>1, <2>2, <2>3 DEF Ends
<1>5. ASSUME Silent(t, u), Ends(t, s, x) PROVE Ends(t, w, x)
  <2>1. PICK i \in 1 .. Len(s) :
          /\ Talks(t, s[i]) /\ Says(t, s[i]) = x
          /\ \A j \in 1 .. Len(s) : j > i => ~Talks(t, s[j])
    BY <1>5 DEF Ends
  <2>2. i \in 1 .. Len(w) /\ w[i] = s[i]
    BY <1>1, <1>2
  <2>3. \A j \in 1 .. Len(w) : j > i => ~Talks(t, w[j])
    BY <1>3, <1>5, <2>1 DEF Silent
  <2> QED
    BY <2>1, <2>2, <2>3 DEF Ends
<1>6. ASSUME Silent(t, u), Silent(t, s) PROVE Silent(t, w)
  BY <1>3, <1>6 DEF Silent
<1> QED
  BY <1>1, <1>4, <1>5, <1>6 DEF w

(* What frames leave is theirs, or what was there if they say nothing.     *)
LEMMA JoinedLeave ==
  ASSUME NEW s \in Seq(Frame), NEW u \in Seq(Frame), NEW t, NEW seen, NEW x,
         Ends(t, u, x) \/ (Silent(t, u) /\ Leaves(t, seen, s, x))
  PROVE  Leaves(t, seen, s \o u, x)
BY JoinedWords DEF Leaves

LEMMA OneWord ==
  ASSUME NEW t, NEW f
  PROVE  /\ Talks(t, f) => Ends(t, <<f>>, Says(t, f))
         /\ ~Talks(t, f) => Silent(t, <<f>>)
<1>1. Len(<<f>>) = 1 /\ <<f>>[1] = f
  OBVIOUS
<1> QED
  BY <1>1 DEF Ends, Silent

LEMMA SecondWord ==
  ASSUME NEW t, NEW e, NEW f, Talks(t, f)
  PROVE  Ends(t, <<e, f>>, Says(t, f))
<1>1. Len(<<e, f>>) = 2 /\ <<e, f>>[2] = f
  OBVIOUS
<1> QED
  BY <1>1 DEF Ends

(* Taking the first frame in, what is seen is what it says.                *)
LEMMA HeardWords ==
  ASSUME NEW s \in Seq(Frame), s # <<>>, NEW t, NEW seen, NEW x, Leaves(t, seen, s, x),
         NEW now, now = IF Talks(t, s[1]) THEN Says(t, s[1]) ELSE seen
  PROVE  Leaves(t, now, Tail(s), x)
<1> DEFINE u == Tail(s)
<1>1. /\ Len(s) \in Nat /\ Len(s) >= 1 /\ Len(u) = Len(s) - 1
      /\ \A i \in 1 .. Len(u) : u[i] = s[i + 1]
  <2>1. Len(s) # 0 /\ Len(s) \in Nat
    BY EmptySeq, LenProperties
  <2> QED
    BY <2>1, HeadTailProperties
<1> HIDE DEF u
<1>2. \A i \in 1 .. Len(u) : i + 1 \in 1 .. Len(s) /\ u[i] = s[i + 1]
  BY <1>1
<1>3. CASE Silent(t, s)
  <2>1. Silent(t, u) /\ ~Talks(t, s[1])
    BY <1>1, <1>2, <1>3 DEF Silent
  <2>2. ~Ends(t, s, x)
    BY <1>3 DEF Silent, Ends
  <2> QED
    BY <2>1, <2>2 DEF Leaves, u
<1>4. CASE Ends(t, s, x)
  <2>1. PICK i \in 1 .. Len(s) :
          /\ Talks(t, s[i]) /\ Says(t, s[i]) = x
          /\ \A j \in 1 .. Len(s) : j > i => ~Talks(t, s[j])
    BY <1>4 DEF Ends
  <2>2. CASE i = 1
    <3>1. Silent(t, u)
      BY <1>1, <1>2, <2>1, <2>2 DEF Silent
    <3> QED
      BY <2>1, <2>2, <3>1 DEF Leaves, u
  <2>3. CASE i # 1
    <3>1. i - 1 \in 1 .. Len(u) /\ (i - 1) + 1 = i
      BY <1>1, <2>3
    <3>2. \A j \in 1 .. Len(u) : j > i - 1 => ~Talks(t, u[j])
      BY <1>1, <1>2, <2>1
    <3>3. Ends(t, u, x)
      BY <1>2, <2>1, <3>1, <3>2 DEF Ends
    <3> QED
      BY <3>3 DEF Leaves, u
  <2> QED
    BY <2>2, <2>3
<1> QED
  BY <1>3, <1>4 DEF Leaves

-----------------------------------------------------------------------------
(* The office speaks. A snapshot says how everything is.                   *)
LEMMA SnapshotTells ==
  ASSUME NEW o, o.run \in Runs, o.pending \in SUBSET Asks,
         NEW kind \in {"hello", "office.updated"}, NEW f,
         f = [kind |-> kind, run |-> o.run, pending |-> o.pending]
  PROVE  /\ f \in Frame
         /\ \A t \in Topics : Talks(t, f) /\ Says(t, f) = Truth(t, o)
<1>1. f.kind = kind /\ f.run = o.run /\ f.pending = o.pending
  OBVIOUS
<1>2. f \in Frame
  BY DEF Frame
<1> QED
  BY <1>1, <1>2 DEF Talks, Says, Truth, Greets

LEMMA RunEventTells ==
  ASSUME NEW run \in Runs, NEW kind \in {"run.created", "run.updated"}, NEW f,
         f = RunEvent(kind, run)
  PROVE  /\ f \in Frame
         /\ \A t \in Topics : Talks(t, f) <=> IsRun(t)
         /\ \A t \in Topics : IsRun(t) => Says(t, f) = run
<1>1. f.kind = kind /\ f.run = run /\ f = [kind |-> kind, run |-> run]
  BY DEF RunEvent
<1>2. f \in Frame
  BY <1>1 DEF Frame
<1> QED
  BY <1>1, <1>2 DEF Talks, Says, Greets

LEMMA AskEventTells ==
  ASSUME NEW a \in Asks, NEW verdict \in {"pending", "decided"}, NEW f,
         f = AskEvent(a, verdict)
  PROVE  /\ f \in Frame
         /\ \A t \in Topics : Talks(t, f) <=> ~IsRun(t) /\ t[2] = a
         /\ \A t \in Topics : ~IsRun(t) => Says(t, f) = Waits(verdict = "pending")
<1>1. /\ f.kind = "approval" /\ f.ask = a /\ f.verdict = verdict
      /\ f = [kind |-> "approval", ask |-> a, verdict |-> verdict]
  BY DEF AskEvent
<1>2. f \in Frame
  BY <1>1 DEF Frame
<1> QED
  BY <1>1, <1>2 DEF Talks, Says, Greets

(* A log that grows was whole if it is.                                    *)
LEMMA LogsGrow ==
  ASSUME log \in Seq(Frame), NEW f \in Frame, log' = Append(log, f), merged' = merged
  PROVE  /\ log' \in Seq(Frame) /\ log' = log \o <<f>>
         /\ WholeReplays' => WholeReplays
<1>1. log' \in Seq(Frame) /\ Len(log') = Len(log) + 1
  BY AppendProperties
<1>2. log' = log \o <<f>>
  BY AppendIsConcat
<1>3. Len(log) \in Nat /\ ReplayLimit \in Nat
  BY LenProperties, BoundsAssumption
<1> QED
  BY <1>1, <1>2, <1>3 DEF WholeReplays

LEMMA GreetingStays ==
  ASSUME Kinds, Greeted, NEW u \in Seq(Frame), conn' = conn, view' = view,
         wire' = wire \/ wire' = wire \o u
  PROVE  Greeted'
<1>1. CASE wire' = wire
  BY <1>1 DEF Greeted, Listening
<1>2. CASE wire' = wire \o u /\ wire # <<>>
  <2>1. Len(wire) # 0 /\ Len(wire) \in Nat /\ Len(u) \in Nat
    BY <1>2, EmptySeq, LenProperties DEF Kinds
  <2>2. /\ Len(wire \o u) = Len(wire) + Len(u)
        /\ \A i \in 1 .. Len(wire) : (wire \o u)[i] = wire[i]
    BY ConcatProperties DEF Kinds
  <2>3. (wire \o u)[1] = wire[1] /\ Len(wire \o u) # 0
    BY <2>1, <2>2
  <2>4. wire \o u # <<>>
    BY <2>3, EmptySeq
  <2> QED
    BY <1>2, <2>3, <2>4 DEF Greeted, Listening
<1>3. CASE wire = <<>>
  BY <1>3 DEF Greeted, Listening
<1> QED
  BY <1>1, <1>2, <1>3

(* A run is created or settles: an event and the office as it is then.     *)
LEMMA RunsAreAnnounced ==
  ASSUME InStep, NEW run \in Runs, NEW kind \in {"run.created", "run.updated"},
         office' = [office EXCEPT !.run = run], EmitWithSnapshot(RunEvent(kind, run)),
         UNCHANGED <<conn, view, cold, merged>>
  PROVE  InStep'
<1> DEFINE e == RunEvent(kind, run)
           f == [kind |-> "office.updated", run |-> office'.run, pending |-> office'.pending]
<1>1. /\ TheOffice' /\ office'.run \in Runs /\ office'.pending \in SUBSET Asks
      /\ office'.run = run /\ office'.pending = office.pending /\ office'.live = office.live
  BY DEF InStep, Kinds, TheOffice
<1>2. /\ f \in Frame
      /\ \A t \in Topics : Talks(t, f) /\ Says(t, f) = Truth(t, office')
  BY <1>1, SnapshotTells
<1>3. /\ e \in Frame
      /\ \A t \in Topics : Talks(t, e) <=> IsRun(t)
      /\ \A t \in Topics : IsRun(t) => Says(t, e) = run
  BY RunEventTells
<1>4. log' = Append(log, e) /\ wire' = Sent(<<e, f>>)
  BY DEF EmitWithSnapshot, Snapshot
<1> HIDE DEF e, f
<1>5. /\ log' \in Seq(Frame) /\ log' = log \o <<e>>
      /\ WholeReplays' => WholeReplays
  BY <1>3, <1>4, LogsGrow DEF InStep, Kinds
<1>6. <<e>> \in Seq(Frame) /\ <<e, f>> \in Seq(Frame)
  BY <1>2, <1>3
<1>7. /\ wire' = IF Listening THEN wire \o <<e, f>> ELSE wire
      /\ wire' \in Seq(Frame)
  BY <1>4, <1>6, ConcatProperties DEF Sent, InStep, Kinds
<1>8. Kinds'
  BY <1>1, <1>5, <1>7 DEF InStep, Kinds
<1>9. Greeted'
  BY <1>6, <1>7, GreetingStays DEF InStep
<1>10. LogTells'
  <2>1. ASSUME NEW t \in Topics, IsRun(t) PROVE Ends(t, log', Truth(t, office'))
    <3>1. Ends(t, <<e>>, run) /\ Truth(t, office') = run
      BY <1>1, <1>3, <2>1, OneWord DEF Truth
    <3> QED
      BY <1>5, <1>6, <3>1, JoinedWords DEF InStep, Kinds
  <2>2. ASSUME NEW t \in Topics, ~IsRun(t), office'.live
        PROVE  Leaves(t, Waits(FALSE), log', Truth(t, office'))
    <3>1. Silent(t, <<e>>) /\ Truth(t, office') = Truth(t, office)
      BY <1>1, <1>3, <2>2, OneWord DEF Truth
    <3>2. Leaves(t, Waits(FALSE), log, Truth(t, office))
      BY <1>1, <2>2 DEF InStep, LogTells
    <3> QED
      BY <1>5, <1>6, <3>1, <3>2, JoinedLeave DEF InStep, Kinds
  <2> QED
    BY <2>1, <2>2 DEF LogTells
<1>11. Follows'
  <2>1. ASSUME NEW t \in Topics, Listening PROVE Leaves(t, Seen(t, view), wire', Truth(t, office'))
    <3>1. Ends(t, <<e, f>>, Truth(t, office'))
      BY <1>2, SecondWord
    <3> QED
      BY <1>6, <1>7, <2>1, <3>1, JoinedLeave DEF InStep, Kinds
  <2> QED
    BY <2>1 DEF Follows, Listening
<1> QED
  BY <1>8, <1>9, <1>10, <1>11 DEF InStep

(* An approval is asked for or decided.                                    *)
LEMMA AsksAreAnnounced ==
  ASSUME InStep, NEW a \in Asks, NEW verdict \in {"pending", "decided"},
         office'.run = office.run, office'.live = office.live, TheOffice',
         verdict = "pending" <=> a \in office'.pending,
         \A b \in Asks \ {a} : b \in office'.pending <=> b \in office.pending,
         Emit(AskEvent(a, verdict)),
         UNCHANGED <<conn, view, cold, merged>>
  PROVE  InStep'
<1> DEFINE e == AskEvent(a, verdict)
<1>1. /\ e \in Frame
      /\ \A t \in Topics : Talks(t, e) <=> ~IsRun(t) /\ t[2] = a
      /\ \A t \in Topics : ~IsRun(t) => Says(t, e) = Waits(verdict = "pending")
  BY AskEventTells
<1>2. log' = Append(log, e) /\ wire' = Sent(<<e>>)
  BY DEF Emit
<1> HIDE DEF e
<1>3. /\ log' \in Seq(Frame) /\ log' = log \o <<e>>
      /\ WholeReplays' => WholeReplays
  BY <1>1, <1>2, LogsGrow DEF InStep, Kinds
<1>4. <<e>> \in Seq(Frame)
  BY <1>1
<1>5. /\ wire' = IF Listening THEN wire \o <<e>> ELSE wire
      /\ wire' \in Seq(Frame)
  BY <1>2, <1>4, ConcatProperties DEF Sent, InStep, Kinds
<1>6. Kinds'
  BY <1>3, <1>5 DEF InStep, Kinds
<1>7. Greeted'
  BY <1>4, <1>5, GreetingStays DEF InStep
<1>8. ASSUME NEW t \in Topics
      PROVE  \/ Ends(t, <<e>>, Truth(t, office'))
             \/ Silent(t, <<e>>) /\ Truth(t, office') = Truth(t, office)
  <2>1. CASE IsRun(t)
    BY <1>1, <2>1, OneWord DEF Truth
  <2>2. CASE ~IsRun(t) /\ t[2] = a
    <3>1. Says(t, e) = Truth(t, office')
      BY <1>1, <2>2 DEF Truth, Waits
    <3> QED
      BY <1>1, <2>2, <3>1, OneWord
  <2>3. CASE ~IsRun(t) /\ t[2] # a
    <3>1. t[2] \in Asks
      BY <2>3 DEF Topics, IsRun
    <3> QED
      BY <1>1, <2>3, <3>1, OneWord DEF Truth, Waits
  <2> QED
    BY <2>1, <2>2, <2>3
<1>9. LogTells'
  <2>1. ASSUME NEW t \in Topics, IsRun(t), office'.run # "none"
        PROVE  Ends(t, log', Truth(t, office'))
    <3>1. Ends(t, log, Truth(t, office))
      BY <2>1 DEF InStep, LogTells
    <3> QED
      BY <1>3, <1>4, <1>8, <3>1, JoinedWords DEF InStep, Kinds
  <2>2. ASSUME NEW t \in Topics, ~IsRun(t), office'.live
        PROVE  Leaves(t, Waits(FALSE), log', Truth(t, office'))
    <3>1. Leaves(t, Waits(FALSE), log, Truth(t, office))
      BY <2>2 DEF InStep, LogTells
    <3> QED
      BY <1>3, <1>4, <1>8, <3>1, JoinedLeave DEF InStep, Kinds
  <2> QED
    BY <2>1, <2>2 DEF LogTells
<1>10. Follows'
  <2>1. ASSUME NEW t \in Topics, Listening, WholeReplays', ~Spoilt(t, merged)
        PROVE  Leaves(t, Seen(t, view), wire', Truth(t, office'))
    <3>1. Leaves(t, Seen(t, view), wire, Truth(t, office))
      BY <1>3, <2>1 DEF InStep, Follows
    <3> QED
      BY <1>4, <1>5, <1>8, <2>1, <3>1, JoinedLeave DEF InStep, Kinds
  <2> QED
    BY <2>1 DEF Follows, Listening
<1> QED
  BY <1>6, <1>7, <1>9, <1>10 DEF InStep

-----------------------------------------------------------------------------
(* The console goes on by itself: no frame comes or is taken in.           *)
LEMMA NothingArrives ==
  ASSUME InStep, UNCHANGED <<office, log, wire>>, Listening' = Listening,
         merged \subseteq merged', view' \in Views, view'.known = view.known,
         cold'.state.run \in Runs,
         \A t \in Topics : ~Spoilt(t, merged') => Seen(t, view') = Seen(t, view)
  PROVE  InStep'
<1>1. Kinds' /\ LogTells' /\ Greeted'
  BY DEF InStep, Kinds, TheOffice, LogTells, Greeted
<1>2. WholeReplays' => WholeReplays
  BY DEF WholeReplays
<1>3. \A t \in Topics : Spoilt(t, merged) => Spoilt(t, merged')
  BY DEF Spoilt
<1>4. Follows'
  BY <1>2, <1>3 DEF InStep, Follows
<1> QED
  BY <1>1, <1>4 DEF InStep

(* A connection that is not there owes nothing.                            *)
LEMMA NobodyListens ==
  ASSUME InStep, ~Listening', UNCHANGED <<log, view, cold>>,
         wire' \in {wire, <<>>}, TheOffice', office'.run = office.run,
         office'.live => office'.live = office.live /\ office'.pending = office.pending
  PROVE  InStep'
<1>1. wire' \in Seq(Frame)
  BY EmptySeq DEF InStep, Kinds
<1>2. Kinds' /\ Greeted' /\ Follows'
  BY <1>1 DEF InStep, Kinds, Greeted, Follows
<1>3. \A t \in Topics : IsRun(t) => Truth(t, office') = Truth(t, office)
  BY DEF Truth
<1>4. \A t \in Topics : office'.live => Truth(t, office') = Truth(t, office)
  BY DEF Truth
<1>5. LogTells'
  BY <1>3, <1>4 DEF InStep, LogTells
<1> QED
  BY <1>2, <1>5 DEF InStep

LEMMA Accepted ==
  ASSUME InStep, Accept
  PROVE  InStep'
<1> DEFINE f == [kind |-> "hello", run |-> office.run, pending |-> office.pending]
<1>1. /\ wire' = <<f>> /\ UNCHANGED <<office, log, view, cold>>
  BY DEF Accept, Snapshot, server, http
<1>2. /\ f \in Frame /\ f.kind = "hello"
      /\ \A t \in Topics : Talks(t, f) /\ Says(t, f) = Truth(t, office)
  BY SnapshotTells DEF InStep, Kinds, TheOffice
<1> HIDE DEF f
<1>3. wire' \in Seq(Frame) /\ Len(wire') = 1 /\ wire'[1] = f /\ wire' # <<>>
  BY <1>1, <1>2
<1>4. Kinds' /\ LogTells' /\ Greeted'
  BY <1>1, <1>2, <1>3 DEF InStep, Kinds, TheOffice, LogTells, Greeted
<1>5. Follows'
  BY <1>1, <1>2, OneWord DEF Follows, Leaves
<1> QED
  BY <1>4, <1>5 DEF InStep

(* A replay is the log from its beginning, whole if it is short enough.    *)
LEMMA Handled ==
  ASSUME InStep, Handle
  PROVE  InStep'
<1>1. UNCHANGED <<office, log, conn, view, cold>>
  BY DEF Handle, server, http
<1>2. CASE UNCHANGED <<wire, merged>>
  BY <1>1, <1>2, NothingArrives DEF InStep, Kinds, Listening
<1>3. CASE /\ wire' = IF office.run = "none" THEN wire ELSE wire \o Replayed
           /\ merged' = merged \cup {"replay"} \cup (IF office.live THEN {} ELSE {"stale"})
  <2>1. log \in Seq(Frame) /\ wire \in Seq(Frame) /\ Len(log) \in Nat /\ ReplayLimit \in Nat
    BY BoundsAssumption, LenProperties DEF InStep, Kinds
  <2>2. Replayed \in Seq(Frame)
    <3>1. \A n \in Nat : n <= Len(log) => SubSeq(log, 1, n) \in Seq(Frame)
      BY <2>1, SubSeqProperties
    <3> QED
      BY <2>1, <3>1 DEF Replayed
  <2>3. ASSUME Len(log) <= ReplayLimit PROVE Replayed = log
    <3>1. SubSeq(log, 1, Len(log)) = log
      BY <2>1, SubSeqFull
    <3>2. (IF Len(log) < ReplayLimit THEN Len(log) ELSE ReplayLimit) = Len(log)
      BY <2>1, <2>3
    <3> QED
      BY <3>1, <3>2 DEF Replayed
  <2>4. wire' \in Seq(Frame)
    BY <1>3, <2>1, <2>2, ConcatProperties
  <2>5. Kinds' /\ LogTells'
    BY <1>1, <2>4 DEF InStep, Kinds, TheOffice, LogTells
  <2>6. Greeted'
    BY <1>1, <1>3, <2>2, GreetingStays DEF InStep
  <2>7. ASSUME Listening, WholeReplays', NEW t \in Topics, ~Spoilt(t, merged')
        PROVE  Leaves(t, Seen(t, view), wire', Truth(t, office))
    <3>1. Len(log) <= ReplayLimit
      BY <1>1, <1>3, <2>7 DEF WholeReplays
    <3>2. Leaves(t, Seen(t, view), wire, Truth(t, office))
      BY <1>3, <2>7, <3>1 DEF InStep, Follows, WholeReplays, Spoilt
    <3>3. CASE office.run = "none"
      BY <1>3, <3>2, <3>3
    <3>4. CASE office.run # "none" /\ IsRun(t)
      <4>1. Ends(t, log, Truth(t, office))
        BY <3>4 DEF InStep, LogTells
      <4> QED
        BY <1>3, <2>1, <2>3, <3>1, <3>4, <4>1, JoinedLeave
    <3>5. CASE office.run # "none" /\ ~IsRun(t)
      <4>1. office.live
        BY <1>3, <2>7, <3>5 DEF Spoilt
      <4>2. Ends(t, log, Truth(t, office)) \/ Silent(t, log)
        BY <3>5, <4>1 DEF InStep, LogTells, Leaves
      <4> QED
        BY <1>3, <2>1, <2>3, <3>1, <3>2, <3>5, <4>2, JoinedLeave
    <3> QED
      BY <3>3, <3>4, <3>5
  <2>8. Follows'
    BY <1>1, <2>7 DEF Follows, Listening
  <2> QED
    BY <2>5, <2>6, <2>8 DEF InStep
<1> QED
  BY <1>2, <1>3 DEF Handle

(* Adopting a snapshot and applying an event, as far as topics go.         *)
LEMMA AdoptingTells ==
  ASSUME NEW v \in Views, NEW f, f.run \in Runs, NEW w, w = Adopted(v, f)
  PROVE  /\ w \in Views /\ w.known /\ w.run = f.run
         /\ \A a \in Asks : w.asks[a] = "pending" <=> a \in f.pending
<1> DEFINE asks == [a \in Asks |-> IF a \in f.pending THEN "pending" ELSE "none"]
<1>1. asks \in [Asks -> {"none", "pending", "decided"}]
  OBVIOUS
<1>2. w = [v EXCEPT !.known = TRUE, !.run = f.run, !.selected = f.run # "none", !.asks = asks]
  BY DEF Adopted
<1>3. \A a \in Asks : asks[a] = "pending" <=> a \in f.pending
  OBVIOUS
<1> HIDE DEF asks
<1>4. /\ w \in Views /\ w.known /\ w.run = f.run /\ w.asks = asks
  BY <1>1, <1>2 DEF Views
<1> QED
  BY <1>3, <1>4

LEMMA FramesHold ==
  ASSUME NEW f \in Frame
  PROVE  /\ f.kind \in {"hello", "office.updated", "run.created", "run.updated", "approval"}
         /\ f.kind # "approval" => f.run \in Runs
         /\ f.kind = "approval" => f.ask \in Asks /\ f.verdict \in {"pending", "decided"}
BY DEF Frame

(* The reducer keeps what the frame says of each topic, and the rest.      *)
LEMMA ApplyingTells ==
  ASSUME NEW f \in Frame, view \in Views, view.known \/ f.kind = "hello", Apply(f)
  PROVE  /\ view' \in Views /\ view'.known
         /\ \A t \in Topics :
              Seen(t, view') = IF Talks(t, f) THEN Says(t, f) ELSE Seen(t, view)
<1>1. /\ f.kind \in {"hello", "office.updated", "run.created", "run.updated", "approval"}
      /\ f.kind # "approval" => f.run \in Runs
      /\ f.kind = "approval" => f.ask \in Asks /\ f.verdict \in {"pending", "decided"}
  BY FramesHold
<1>2. \A t \in Topics : ~IsRun(t) => t[2] \in Asks
  BY DEF Topics, IsRun
<1>3. CASE Greets(f)
  <2>1. /\ Adopted(view, f) \in Views /\ Adopted(view, f).known
        /\ Adopted(view, f).run = f.run
        /\ \A a \in Asks : Adopted(view, f).asks[a] = "pending" <=> a \in f.pending
    BY <1>1, <1>3, AdoptingTells DEF Greets
  <2>2. view' = Adopted(view, f) \/ view' = [Adopted(view, f) EXCEPT !.hello = TRUE]
    BY <1>3 DEF Apply, Greets, HandleHello
  <2>3. /\ view' \in Views /\ view'.known /\ view'.run = f.run
        /\ view'.asks = Adopted(view, f).asks
    BY <2>1, <2>2 DEF Views
  <2>4. \A t \in Topics : Talks(t, f)
    BY <1>3 DEF Talks, Greets
  <2>5. \A t \in Topics : Seen(t, view') = Says(t, f)
    BY <1>2, <1>3, <2>1, <2>3 DEF Seen, Says, Waits
  <2> QED
    BY <2>3, <2>4, <2>5
<1>4. CASE f.kind = "approval"
  <2>1. view' = [view EXCEPT !.asks[f.ask] = f.verdict]
    BY <1>4 DEF Apply
  <2>2. view.asks \in [Asks -> {"none", "pending", "decided"}]
    BY DEF Views
  <2> DEFINE asks == [view.asks EXCEPT ![f.ask] = f.verdict]
  <2>3. /\ asks \in [Asks -> {"none", "pending", "decided"}]
        /\ asks[f.ask] = f.verdict
        /\ \A a \in Asks \ {f.ask} : asks[a] = view.asks[a]
    BY <1>1, <1>4, <2>2
  <2>4. view' = [view EXCEPT !.asks = asks]
    BY <2>1
  <2> HIDE DEF asks
  <2>5. view' \in Views /\ view'.known = view.known /\ view'.run = view.run /\ view'.asks = asks
    BY <2>3, <2>4 DEF Views
  <2>6. view'.known
    BY <1>4, <2>5
  <2>7. ~Greets(f)
    BY <1>4 DEF Greets
  <2>8. ASSUME NEW t \in Topics
        PROVE  Seen(t, view') = IF Talks(t, f) THEN Says(t, f) ELSE Seen(t, view)
    <3>1. CASE IsRun(t)
      BY <1>4, <2>5, <3>1 DEF Seen, Talks
    <3>2. CASE ~IsRun(t)
      BY <1>2, <1>4, <2>3, <2>5, <2>7, <3>2 DEF Seen, Talks, Says
    <3> QED
      BY <3>1, <3>2
  <2> QED
    BY <2>5, <2>6, <2>8
<1>5. CASE f.kind \in {"run.created", "run.updated"}
  <2>1. view.known /\ ~Greets(f)
    BY <1>5 DEF Greets
  <2>2. view' = [[view EXCEPT !.run = f.run] EXCEPT !.selected = @ \/ Opening(view, f)]
    BY <1>5, <2>1 DEF Apply, MergeRun
  <2>3. PICK sel \in BOOLEAN : view' = [view EXCEPT !.run = f.run, !.selected = sel]
    <3>1. (view.selected \/ Opening(view, f)) \in BOOLEAN
      OBVIOUS
    <3> QED
      BY <2>2, <3>1 DEF Views
  <2>4. view' \in Views /\ view'.known = view.known /\ view'.run = f.run /\ view'.asks = view.asks
    BY <1>1, <1>5, <2>3 DEF Views
  <2>5. \A t \in Topics : Seen(t, view') = IF Talks(t, f) THEN Says(t, f) ELSE Seen(t, view)
    BY <1>5, <2>1, <2>4 DEF Seen, Talks, Says
  <2> QED
    BY <2>1, <2>4, <2>5
<1> QED
  BY <1>1, <1>3, <1>4, <1>5 DEF Greets

LEMMA Received ==
  ASSUME InStep, Receive
  PROVE  InStep'
<1>1. /\ UNCHANGED <<office, log, conn, cold, merged>> /\ conn = "open"
      /\ wire # <<>> /\ wire' = Tail(wire) /\ Apply(Head(wire))
  BY DEF Receive, server
<1>2. /\ wire \in Seq(Frame) /\ Head(wire) = wire[1] /\ wire[1] \in Frame
      /\ Tail(wire) \in Seq(Frame)
  <2>1. wire \in Seq(Frame) /\ Len(wire) # 0 /\ Len(wire) \in Nat
    BY <1>1, EmptySeq, LenProperties DEF InStep, Kinds
  <2> QED
    BY <1>1, <2>1, HeadTailProperties, ElementOfSeq
<1>3. Listening /\ (view.known \/ wire[1].kind = "hello")
  BY <1>1 DEF InStep, Greeted, Listening
<1>4. /\ view' \in Views /\ view'.known
      /\ \A t \in Topics :
           Seen(t, view') = IF Talks(t, wire[1]) THEN Says(t, wire[1]) ELSE Seen(t, view)
  BY <1>1, <1>2, <1>3, ApplyingTells DEF InStep, Kinds
<1>5. Kinds' /\ LogTells' /\ Greeted'
  BY <1>1, <1>2, <1>4 DEF InStep, Kinds, TheOffice, LogTells, Greeted
<1>6. ASSUME WholeReplays, NEW t \in Topics, ~Spoilt(t, merged)
      PROVE  Leaves(t, Seen(t, view'), wire', Truth(t, office))
  <2>1. Leaves(t, Seen(t, view), wire, Truth(t, office))
    BY <1>3, <1>6 DEF InStep, Follows
  <2> QED
    BY <1>1, <1>2, <1>4, <2>1, HeardWords
<1>7. Follows'
  BY <1>1, <1>6 DEF Follows, WholeReplays
<1> QED
  BY <1>5, <1>7 DEF InStep

(* The fallback's answer counts until the greeting, which says it all.     *)
LEMMA ColdStateApplied ==
  ASSUME InStep, ApplyColdState
  PROVE  InStep'
<1>1. /\ UNCHANGED <<office, log, conn, wire, merged>>
      /\ cold' = [cold EXCEPT !.at = "over"]
      /\ view' = IF view.known \/ view.hello THEN view ELSE Adopted(view, cold.state)
  BY DEF ApplyColdState, server
<1>2. cold'.state.run \in Runs
  <2>1. cold'.state = cold.state
    BY <1>1
  <2> QED
    BY <2>1 DEF InStep, Kinds
<1>3. CASE view' = view
  BY <1>1, <1>2, <1>3, NothingArrives DEF InStep, Kinds, Listening
<1>4. CASE ~view.known /\ view' = Adopted(view, cold.state)
  <2>1. view' \in Views
    BY <1>4, AdoptingTells DEF InStep, Kinds
  <2>2. Kinds' /\ LogTells'
    BY <1>1, <1>2, <2>1 DEF InStep, Kinds, TheOffice, LogTells
  <2>3. view'.known
    BY <1>4, AdoptingTells DEF InStep, Kinds
  <2>4. Greeted'
    BY <1>1, <2>3 DEF Greeted
  <2>5. ASSUME Listening, WholeReplays, NEW t \in Topics, ~Spoilt(t, merged)
        PROVE  Leaves(t, Seen(t, view'), wire, Truth(t, office))
    <3>1. Leaves(t, Seen(t, view), wire, Truth(t, office))
      BY <2>5 DEF InStep, Follows
    <3>2. wire # <<>> /\ wire[1].kind = "hello"
      BY <1>4, <2>5 DEF InStep, Greeted
    <3>3. Talks(t, wire[1])
      BY <3>2 DEF Talks, Greets
    <3>4. 1 \in 1 .. Len(wire)
      <4>1. Len(wire) # 0 /\ Len(wire) \in Nat
        BY <3>2, EmptySeq, LenProperties DEF InStep, Kinds
      <4> QED
        BY <4>1
    <3>5. ~Silent(t, wire)
      BY <3>3, <3>4 DEF Silent
    <3> QED
      BY <3>1, <3>5 DEF Leaves
  <2>6. Follows'
    BY <1>1, <2>5 DEF Follows, WholeReplays, Listening
  <2> QED
    BY <2>2, <2>4, <2>6 DEF InStep
<1> QED
  BY <1>1, <1>3, <1>4

LEMMA StaysInStep ==
  ASSUME InStep, [Next]_vars
  PROVE  InStep'
<1>0. /\ TheOffice /\ view \in Views /\ cold.state.run \in Runs
      /\ office.run \in Runs /\ office.pending \subseteq Asks
  BY DEF InStep, Kinds, TheOffice
<1>1. CASE Submit
  BY <1>1, RunsAreAnnounced DEF Submit, Runs, http
<1>2. CASE SettleRun
  BY <1>2, RunsAreAnnounced DEF SettleRun, Runs, http
<1>3. ASSUME NEW a \in Asks, Request(a) PROVE InStep'
  <2>1. office' = [office EXCEPT !.asked = @ \cup {a}, !.pending = @ \cup {a}]
    BY <1>3 DEF Request
  <2>2. /\ TheOffice' /\ office'.run = office.run /\ office'.live = office.live
        /\ office'.pending = office.pending \cup {a}
    BY <1>0, <2>1 DEF TheOffice
  <2> QED
    BY <1>3, <2>2, AsksAreAnnounced DEF Request, http
<1>4. ASSUME NEW a \in Asks, Decide(a) PROVE InStep'
  <2>1. office' = [office EXCEPT !.pending = @ \ {a}]
    BY <1>4 DEF Decide
  <2>2. /\ TheOffice' /\ office'.run = office.run /\ office'.live = office.live
        /\ office'.pending = office.pending \ {a}
    BY <1>0, <2>1 DEF TheOffice
  <2> QED
    BY <1>4, <2>2, AsksAreAnnounced DEF Decide, http
<1>5. CASE Connect \/ Drop
  <2>1. /\ ~Listening' /\ UNCHANGED <<office, log, view, cold>> /\ wire' \in {wire, <<>>}
    BY <1>5 DEF Connect, Drop, Hangup, Listening, server, http
  <2> QED
    BY <1>0, <2>1, NobodyListens DEF TheOffice
<1>6. CASE Restart
  <2>1. /\ ~Listening' /\ UNCHANGED <<log, view, cold>> /\ wire' = <<>>
        /\ office' = [office EXCEPT !.pending = {}, !.live = FALSE]
    BY <1>6 DEF Restart, Hangup, Listening
  <2>2. TheOffice' /\ office'.run = office.run /\ ~office'.live
    BY <1>0, <2>1 DEF TheOffice
  <2> QED
    BY <2>1, <2>2, NobodyListens
<1>7. CASE Accept
  BY <1>7, Accepted
<1>8. CASE Opened \/ Type \/ DetailRead
  <2>1. UNCHANGED <<office, log, wire, view, cold, merged>> /\ Listening' = Listening
    BY <1>8 DEF Opened, Type, DetailRead, Listening, server, http
  <2> QED
    BY <1>0, <2>1, NothingArrives
<1>9. CASE Handle
  BY <1>9, Handled
<1>10. CASE Receive
  BY <1>10, Received
<1>11. CASE SelectRun \/ Deselect
  <2>1. /\ UNCHANGED <<office, log, wire, conn, cold, merged>>
        /\ \E sel \in BOOLEAN : view' = [view EXCEPT !.selected = sel]
    BY <1>11 DEF SelectRun, Deselect, server, http
  <2>2. /\ view' \in Views /\ view'.known = view.known
        /\ view'.run = view.run /\ view'.asks = view.asks
    BY <1>0, <2>1 DEF Views
  <2> QED
    BY <1>0, <2>1, <2>2, NothingArrives DEF Seen, Listening
<1>12. CASE IngestRunDetail
  <2>1. /\ UNCHANGED <<office, log, wire, conn, cold>> /\ detail \in Runs
        /\ merged' = merged \cup {"detail"}
        /\ view' = IF view.known THEN [view EXCEPT !.run = detail] ELSE view
    BY <1>12 DEF IngestRunDetail, MergeRun, server
  <2>2. /\ view' \in Views /\ view'.known = view.known /\ view'.asks = view.asks
    BY <1>0, <2>1 DEF Views
  <2>3. \A t \in Topics : ~Spoilt(t, merged') => Seen(t, view') = Seen(t, view)
    BY <2>1, <2>2 DEF Spoilt, Seen
  <2> QED
    BY <1>0, <2>1, <2>2, <2>3, NothingArrives DEF Listening
<1>13. CASE ColdRead
  <2>1. /\ UNCHANGED <<office, log, wire, conn, view, merged>>
        /\ cold'.state.run = office.run
    BY <1>13 DEF ColdRead, Snapshot, server
  <2> QED
    BY <1>0, <2>1, NothingArrives DEF Listening
<1>14. CASE ApplyColdState
  BY <1>14, ColdStateApplied
<1>15. CASE UNCHANGED vars
  BY <1>0, <1>15, NothingArrives DEF vars, Listening
<1> QED
  BY <1>1, <1>2, <1>3, <1>4, <1>5, <1>6, <1>7, <1>8, <1>9, <1>10, <1>11, <1>12, <1>13,
     <1>14, <1>15 DEF Next

LEMMA BeginsInStep == Init => InStep
<1> SUFFICES ASSUME Init PROVE InStep
  OBVIOUS
<1>1. /\ office = [run |-> "none", pending |-> {}, asked |-> {}, live |-> TRUE]
      /\ log = <<>> /\ wire = <<>> /\ ~Listening
  BY DEF Init, Listening
<1>2. TheOffice
  BY <1>1 DEF TheOffice, Runs
<1>3. view \in Views
  BY DEF Init, Views, Runs
<1>4. cold.state.run \in Runs
  BY <1>1 DEF Init, Snapshot, Runs
<1>5. Kinds
  BY <1>1, <1>2, <1>3, <1>4, EmptySeq DEF Kinds
<1>6. \A t : Silent(t, log)
  BY <1>1, EmptySeq DEF Silent
<1>7. LogTells
  <2>1. office.run = "none" /\ office.pending = {}
    BY <1>1
  <2>2. \A t \in Topics : ~IsRun(t) => Truth(t, office) = Waits(FALSE)
    BY <2>1 DEF Truth, Waits
  <2> QED
    BY <1>6, <2>1, <2>2 DEF LogTells, Leaves
<1>8. Greeted /\ Follows
  BY <1>1 DEF Greeted, Follows
<1> QED
  BY <1>5, <1>7, <1>8 DEF InStep

LEMMA AlwaysInStep == Spec => []InStep
<1>1. InStep /\ [Next]_vars => InStep'
  BY StaysInStep
<1> QED
  BY <1>1, BeginsInStep, PTL DEF Spec

(* What a caught-up console shows is how things are.                       *)
LEMMA CaughtUpSees ==
  ASSUME InStep, CaughtUp, WholeReplays, NEW t \in Topics, ~Spoilt(t, merged)
  PROVE  Seen(t, view) = Truth(t, office)
<1>1. Leaves(t, Seen(t, view), <<>>, Truth(t, office))
  BY DEF InStep, Follows, CaughtUp, Listening
<1>2. ~Ends(t, <<>>, Truth(t, office))
  BY EmptySeq DEF Ends
<1> QED
  BY <1>1, <1>2 DEF Leaves

(* A caught-up console shows the run as it is, through live events,        *)
(* snapshots, whole replays, the cold state, drops and restarts, unless an *)
(* answer to GET /api/runs/:id was merged.                                 *)
THEOREM ConsolesShowTheRun == Spec => []RunInStep
<1>1. InStep => RunInStep
  <2> SUFFICES ASSUME InStep, CaughtUp, WholeReplays, "detail" \notin merged
               PROVE  view.run = office.run
    BY DEF RunInStep
  <2> DEFINE t == <<"run", "run">>
  <2>1. t \in Topics /\ IsRun(t)
    BY DEF Topics, IsRun
  <2> HIDE DEF t
  <2>2. Seen(t, view) = Truth(t, office)
    BY <2>1, CaughtUpSees DEF Spoilt
  <2> QED
    BY <2>1, <2>2 DEF Seen, Truth
<1> QED
  BY <1>1, AlwaysInStep, PTL

(* And it asks about exactly the approvals that wait, unless a replay came *)
(* from an office that a restart made forget them.                         *)
THEOREM ConsolesAskWhatWaits == Spec => []PromptsInStep
<1>1. InStep => PromptsInStep
  <2> SUFFICES ASSUME InStep, CaughtUp, WholeReplays, "stale" \notin merged
               PROVE  {a \in Asks : view.asks[a] = "pending"} = office.pending
    BY DEF PromptsInStep
  <2>1. office.pending \subseteq Asks
    BY DEF InStep, Kinds, TheOffice
  <2>2. ASSUME NEW a \in Asks PROVE view.asks[a] = "pending" <=> a \in office.pending
    <3> DEFINE t == <<"ask", a>>
    <3>1. t \in Topics /\ ~IsRun(t) /\ t[2] = a
      BY DEF Topics, IsRun
    <3> HIDE DEF t
    <3>2. Seen(t, view) = Truth(t, office)
      BY <3>1, CaughtUpSees DEF Spoilt
    <3>3. Waits(view.asks[a] = "pending") = Waits(a \in office.pending)
      BY <3>1, <3>2 DEF Seen, Truth
    <3> QED
      BY <3>3 DEF Waits
  <2> QED
    BY <2>1, <2>2
<1> QED
  BY <1>1, AlwaysInStep, PTL
=============================================================================
