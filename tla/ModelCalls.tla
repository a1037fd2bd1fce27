----------------------------- MODULE ModelCalls -----------------------------
(***************************************************************************)
(* The model calls of one turn: the loop of engine/turn.ts over its round  *)
(* trips, the walk of llm/registry.ts over the routed models, and the      *)
(* retries of an adapter (llm/openaiCompat.ts and llm/anthropic.ts alike)  *)
(* with the delays of llm/deadline.ts.                                     *)
(*                                                                         *)
(* The route is taken when the turn begins. Models are switched off and on *)
(* by the operator, and come and go with plugins and what the vendors say  *)
(* they serve, while the turn runs.                                        *)
(***************************************************************************)
EXTENDS Router

CONSTANTS
  Models,       \* every model there may be
  TurnRequests, \* what a turn may ask of the router
  MaxRetries,   \* retries of one route, MAX_RETRIES
  MaxTrips      \* round trips of the turn, toolIterationsFor

ASSUME ModelCallsAssumption ==
  /\ IsCatalogue(Models)
  /\ TurnRequests \subseteq Request
  /\ MaxRetries \in Nat
  /\ MaxTrips \in Nat \ {0}

VARIABLES
  served,  \* ids of the models in the catalogue
  off,     \* ids the operator has switched off
  aborted, \* the signal of the run
  at,      \* where the turn is
  route,   \* the chosen model and its fallbacks
  cand,    \* the candidate being called
  attempt, \* the adapter's attempt at it
  trip,    \* the iteration of the loop
  said,    \* the model has produced text
  limit,   \* warnedAboutLimit: tools were asked for in the last trip too
  status,  \* the turn's status
  error    \* why it is not done

environment == <<served, off, aborted>>
callVars == <<environment, at, route, cand, attempt, trip, said, limit, status, error>>

Ids == {m.id : m \in Models}
Routable == {m \in Models : m.id \in served \ off}
LastTrip == MaxTrips - 1

CallsInit ==
  /\ served \in {Ids, Ids \ {1}}
  /\ off = {}
  /\ aborted = FALSE
  /\ at = "routing"
  /\ route = <<>>
  /\ cand = 0 /\ attempt = 0 /\ trip = 0
  /\ said = FALSE
  /\ limit = FALSE
  /\ status = "running"
  /\ error = "none"

-----------------------------------------------------------------------------
(* How the turn ends.                                                      *)

End(outcome, why) ==
  /\ at' = "ended"
  /\ status' = outcome
  /\ error' = why
  /\ UNCHANGED <<cand, attempt, trip>>

(* Something was thrown: the operator's doing, or a failure.               *)
Throw(why) == IF aborted THEN End("cancelled", "cancelled") ELSE End("failed", why)

(* The loop is over: with nothing said there is no work product.           *)
LoopOver(why) ==
  LET fault == IF why = "none" /\ ~said' THEN "empty" ELSE why
  IN End(IF fault = "none" THEN "done" ELSE "failed", fault)

-----------------------------------------------------------------------------
(* The registry: the first candidate from k on that may be called now.     *)

(* Wrong: what was routed may be called.                                   *)
OnceRoutable(k) == {i \in k .. Len(route') : route'[i].id \in served}

Callable(k) == {i \in k .. Len(route') : route'[i].id \in served \ off}

TryFrom(k, n) ==
  IF Callable(k) = {} THEN Throw("no route")
  ELSE /\ at' = "asking"
       /\ cand' = Min(Callable(k))
       /\ attempt' = 1
       /\ trip' = n
       /\ UNCHANGED <<status, error>>

(* An iteration of the loop, unless the operator has cancelled by then.    *)
Iterate(n) == IF aborted THEN End("cancelled", "cancelled") ELSE TryFrom(1, n)

Begin ==
  /\ at = "routing"
  /\ \E req \in TurnRequests : route' = RouteModel(Routable, req)
  /\ IF route' = <<>> THEN Throw("no route") ELSE Iterate(0)
  /\ UNCHANGED <<environment, said, limit>>

(* An answer. A stream that went quiet after some text is one too. With no *)
(* tools asked for the loop is over.                                       *)
Answer(text, tools, cut) ==
  /\ at = "asking"
  /\ said' = (said \/ text)
  /\ IF tools THEN /\ at' = "tools"
                   /\ UNCHANGED <<cand, attempt, trip, status, error>>
     ELSE LoopOver(IF cut THEN "length" ELSE "none")
  /\ UNCHANGED <<environment, route, limit>>

(* A failed call is retried by the adapter if that may help, and then the  *)
(* next candidate is tried; a cancelled one is neither.                    *)
Failed(retryable) ==
  IF aborted THEN Throw("cancelled")
  ELSE IF retryable /\ attempt <= MaxRetries
    THEN at' = "backoff" /\ UNCHANGED <<cand, attempt, trip, status, error>>
    ELSE TryFrom(cand + 1, trip)

Fail(retryable) ==
  /\ at = "asking"
  /\ UNCHANGED <<environment, route, said, limit>>
  /\ Failed(retryable)

(* The delay is over, or is cut short by the signal.                       *)
Retry ==
  /\ at = "backoff"
  /\ IF aborted THEN Throw("cancelled")
     ELSE /\ at' = "asking"
          /\ attempt' = attempt + 1
          /\ UNCHANGED <<cand, trip, status, error>>
  /\ UNCHANGED <<environment, route, said, limit>>

(* Wrong: a trip without text is not counted.                              *)
NextTripIfSaid == IF said THEN trip + 1 ELSE trip
NextTrip == trip + 1

(* All the tools have run, cancelled or not. After the last trip there is  *)
(* nothing left to withhold.                                               *)
ToolsRan ==
  /\ at = "tools"
  /\ limit' = (trip = LastTrip)
  /\ UNCHANGED <<environment, route, said>>
  /\ IF trip = LastTrip THEN LoopOver("none") ELSE Iterate(NextTrip)

-----------------------------------------------------------------------------
(* Everybody else.                                                         *)

Turn == <<at, route, cand, attempt, trip, said, limit, status, error>>

Abort ==
  /\ ~aborted /\ at # "ended"
  /\ aborted' = TRUE
  /\ UNCHANGED <<served, off, Turn>>

Switch(id) ==
  /\ at # "ended"
  /\ off' = IF id \in off THEN off \ {id} ELSE off \cup {id}
  /\ UNCHANGED <<served, aborted, Turn>>

(* A plugin or a discovery that brings a model or takes it away.           *)
Discover(id) ==
  /\ at # "ended"
  /\ served' = IF id \in served THEN served \ {id} ELSE served \cup {id}
  /\ UNCHANGED <<off, aborted, Turn>>

CallSettles ==
  \/ \E text, tools, cut \in BOOLEAN : Answer(text, tools, cut)
  \/ \E retryable \in BOOLEAN : Fail(retryable)

CallsNext ==
  \/ Begin \/ CallSettles \/ Retry \/ ToolsRan \/ Abort
  \/ \E id \in Ids : Switch(id) \/ Discover(id)

(* Every call has a deadline and every delay a timer, so each settles in   *)
(* one way or another. A tool has a bound of its own or waits for a person,*)
(* who is taken to answer. Which way a call settles is nobody's promise.   *)
CallsFairness ==
  /\ WF_callVars(Begin)
  /\ WF_callVars(CallSettles)
  /\ WF_callVars(Retry)
  /\ WF_callVars(ToolsRan)

CallsSpec == CallsInit /\ [][CallsNext]_callVars /\ CallsFairness

-----------------------------------------------------------------------------
(* registry.ts:409: a model that is switched off is not called, though it  *)
(* was routed to while it was on. A retry is part of the call before it.   *)
OffIsOff ==
  [][at' = "asking" /\ (attempt' = 1) /\ (at # "asking" \/ cand # cand')
       => route'[cand'].id \in served \ off]_callVars

(* Every turn ends, whatever is asked of tools and whoever fails.          *)
TurnEnds == <>(at = "ended")
=============================================================================
