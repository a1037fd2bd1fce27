------------------------------ MODULE Routing ------------------------------
(* One decision of the router, for any catalogue and any request, and what *)
(* the router promises of it.                                              *)
EXTENDS Router

CONSTANTS
  Catalogues, \* the sets of models there may be to choose from
  Requests    \* what may be asked

ASSUME RoutingAssumption ==
  /\ \A catalogue \in Catalogues : IsCatalogue(catalogue)
  /\ Requests \subseteq Request

VARIABLES models, req, decision

routingVars == <<models, req, decision>>

RoutingInit ==
  /\ models \in Catalogues
  /\ req \in Requests
  /\ decision = <<>>

Route ==
  /\ decision = <<>>
  /\ decision' = RouteModel(models, req)
  /\ UNCHANGED <<models, req>>

RoutingSpec == RoutingInit /\ [][Route]_routingVars

-----------------------------------------------------------------------------
Decided == decision # <<>>
NothingKnown == \A m \in models : m.rated = Unknown /\ m.uptime = Unknown
InPool == Pool(models, req)

(* The router as it was before there were scores: the first tier along the *)
(* walk with a model in it, and there the cheapest.                        *)
FirstTier(rules) ==
  LET walk == Walk(Target(req), rules)
  IN walk[Min({i \in DOMAIN walk : \E m \in InPool : m.tier = walk[i]})]

AsBefore(rules) ==
  LET there == {m \in InPool : m.tier = FirstTier(rules)}
  IN CHOOSE m \in there : \A n \in there :
       m.cost < n.cost \/ (m.cost = n.cost /\ m.id <= n.id)

(* modelRouter.ts:27 and score.ts:16: with no quality information anywhere *)
(* and no rules the choice is what it was before, and a pin is kept.       *)
UnratedAsBefore ==
  Decided /\ NothingKnown /\ req.rules = <<>> =>
    \/ decision[1] = AsBefore(<<>>)
    \/ decision[1].id = req.policy.preferred

(* Two ways to fall back on another model.                                 *)
Elsewhere(m, c) == m.tier = c.tier /\ m.provider # c.provider
Above(m, c) == m.tier = c.tier + 1

(* A decision names at most four models of the pool, each once: the chosen *)
(* one, then those of its tier another provider serves, then at most one   *)
(* of the tier above. So a turn that falls back within the tier leaves the *)
(* provider that failed it (modelRouter.ts:325).                           *)
IsSound(d, pool) ==
  /\ d \in Seq(pool) /\ Len(d) \in 1 .. 4
  /\ \A i, j \in 1 .. Len(d) : i # j => d[i] # d[j]
  /\ \A i \in 2 .. Len(d) :
       Elsewhere(d[i], d[1]) \/ (i = Len(d) /\ Above(d[i], d[1]))

DecisionIsSound == Decided => IsSound(decision, InPool)

OneTier(rules) == \A i, j \in DOMAIN rules : rules[i].tier = rules[j].tier

(* modelRouter.ts:71: the preferences of rules about one tier do not move  *)
(* a turn to another. The code keeps that unless they avoid all that tier  *)
(* has: then the one next to it wins, as 0.12 is more than a step.         *)
RulesKeepTheTier ==
  Decided /\ NothingKnown /\ OneTier(req.rules) =>
    \/ decision[1].tier = FirstTier(req.rules)
    \/ decision[1].id = req.policy.preferred
    \/ \A m \in InPool : m.tier = FirstTier(req.rules) =>
         \E i \in DOMAIN req.rules : m.id \in req.rules[i].avoid
=============================================================================
