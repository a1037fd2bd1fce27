------------------------------- MODULE Router -------------------------------
(***************************************************************************)
(* Which model a turn gets: routeModel of router/modelRouter.ts, and the   *)
(* ranking of router/score.ts it rests on.                                 *)
(*                                                                         *)
(* A model is [id, provider, tier, cost, rated, uptime, can], its tier the *)
(* rank in MODEL_TIER_ORDER, its ratings and uptimes in tenths or Unknown, *)
(* its id the place of its candidateKey. A rule of a plugin is [tier,      *)
(* models, providers, avoid], its providers a sequence. Scores are in      *)
(* sixths of 1/10000, so that the mean of up to three ratings is exact;    *)
(* that of more is rounded down.                                           *)
(***************************************************************************)
EXTENDS Integers, Sequences, FiniteSets, FiniteSetsExt, Functions

CONSTANTS
  TopTier,  \* the last of MODEL_TIER_ORDER: nano is 0, max is 4
  Prices,   \* what a model may cost
  Logged    \* log1p of each price, in thousandths

(* A step along the walk leaves something up to six steps.                 *)
ASSUME RouterAssumption ==
  /\ TopTier \in 0 .. 6
  /\ Prices \subseteq Nat
  /\ Logged \in [Prices -> Nat]

Unknown == -1
Tiers == 0 .. TopTier
Tenths == 0 .. 10 \cup {Unknown}

Model ==
  [id : Nat, provider : STRING, tier : Tiers, cost : Prices, rated : Tenths,
   uptime : Tenths, can : SUBSET STRING]

(* A model is told from another by its provider and id.                    *)
IsCatalogue(models) ==
  /\ models \subseteq Model
  /\ IsFiniteSet(models)
  /\ \A m, n \in models : m.id = n.id => m = n

Policy ==
  [default : Tiers, min : Tiers, max : Tiers, pin : BOOLEAN,
   preferred : Nat \cup {Unknown}, escalateTo : Tiers \cup {Unknown}]

Rule ==
  [tier : Tiers \cup {Unknown}, models : SUBSET Nat, providers : Seq(STRING),
   avoid : SUBSET Nat]

Request ==
  [policy : Policy, posture : {"cheap", "balanced", "quality"}, broke : BOOLEAN,
   complex : BOOLEAN, needs : SUBSET STRING, rules : Seq(Rule)]

-----------------------------------------------------------------------------
(* The tier the policy asks for.                                           *)

Clamp(policy, tier) == Min({policy.max, Max({policy.min, tier})})

Postured(req) ==
  IF req.broke \/ req.posture = "cheap" THEN req.policy.min
  ELSE IF req.posture = "quality" THEN Min({TopTier, req.policy.default + 1})
  ELSE req.policy.default

Target(req) ==
  Clamp(req.policy,
        IF req.policy.pin THEN req.policy.default
        ELSE IF req.complex /\ req.policy.escalateTo # Unknown
          THEN req.policy.escalateTo
        ELSE Postured(req))

(* What the request requires is given up before the turn is: first its     *)
(* tools and vision, then the length of its context.                       *)
Able(models, needs) == {m \in models : needs \subseteq m.can}
Pool(models, req) ==
  IF Able(models, req.needs) # {} THEN Able(models, req.needs)
  ELSE IF Able(models, req.needs \cap {"context"}) # {}
    THEN Able(models, req.needs \cap {"context"})
  ELSE models

-----------------------------------------------------------------------------
(* The order of the tiers: those the rules name, the target, what is above *)
(* it from the weakest, what is below it from the strongest.               *)

Walk(target, rules) ==
  [i \in 1 .. Len(rules) + 1 + TopTier |->
     LET tier == target + (i - Len(rules) - 1)
     IN IF i <= Len(rules) THEN rules[i].tier
        ELSE IF tier <= TopTier THEN tier ELSE target + TopTier - tier]

(* The tiers before it, each counted once.                                 *)
Position(tier, walk) ==
  LET first == Min({i \in DOMAIN walk : walk[i] = tier})
  IN Cardinality({walk[i] : i \in 1 .. first - 1} \ {Unknown})

(* A rule's preferences count within one tier, its own or the target.      *)
Scope(rule, target) == IF rule.tier = Unknown THEN target ELSE rule.tier

Bonus(m, rules, scope) ==
  800 * Cardinality({i \in scope : m.id \in rules[i].models})
    + 400 * Cardinality({i \in scope : m.provider \in Range(rules[i].providers)})
    - 1200 * Cardinality({i \in scope : m.id \in rules[i].avoid})

(* Wrong: a preference counts wherever the model is.                       *)
BonusAnywhere(m, rules, target) == Bonus(m, rules, DOMAIN rules)

HintBonus(m, rules, target) ==
  Bonus(m, rules, {i \in DOMAIN rules : Scope(rules[i], target) = m.tier})

-----------------------------------------------------------------------------
(* The score.                                                              *)

Rated(pool) == {m \in pool : m.rated # Unknown}

(* One for each tenth of each rating: as many as their sum.                *)
Opinions(pool) == UNION {{m} \X (1 .. m.rated) : m \in Rated(pool)}

(* A model nothing is known of has the mean of those something is.         *)
RatingOf(m, pool) ==
  IF m.rated # Unknown THEN 6 * m.rated
  ELSE IF Rated(pool) = {} THEN 0
  ELSE (6 * Cardinality(Opinions(pool))) \div Cardinality(Rated(pool))

NormalizedCost(m, pool) ==
  LET logs == {Logged[n.cost] : n \in pool}
      span == Max(logs) - Min(logs)
  IN IF span = 0 THEN 0 ELSE (10000 * (Logged[m.cost] - Min(logs))) \div span

PostureCost(req) ==
  IF req.broke \/ req.posture = "cheap" THEN 3000
  ELSE IF req.posture = "quality" THEN 300
  ELSE 1200

(* Wrong: price counts although nothing is known of what it buys.          *)
AlwaysPressed(req, pool) == PostureCost(req)

CostPressure(req, pool) == IF Rated(pool) = {} THEN 0 ELSE PostureCost(req)

(* An unknown uptime costs nothing.                                        *)
Unreliable(m) == IF m.uptime = Unknown THEN 0 ELSE 300 * (10 - m.uptime)

(* 0.45 and 0.20 of a rating are one term here; a step along the walk is   *)
(* 0.15 of 0.35.                                                           *)
Score(m, pool, req) ==
  LET place == Position(m.tier, Walk(Target(req), req.rules))
  IN 650 * RatingOf(m, pool)
       + 6 * (Max({0, 3500 - 525 * place})
                - (CostPressure(req, pool) * NormalizedCost(m, pool)) \div 10000
                - Unreliable(m)
                + HintBonus(m, req.rules, Target(req)))

(* Best first: by score, then the cheaper, then by id.                     *)
Better(pool, req) ==
  LET score == [m \in pool |-> Score(m, pool, req)]
  IN {p \in pool \X pool :
        LET m == p[1]
            n == p[2]
        IN \/ score[m] > score[n]
           \/ score[m] = score[n] /\ m.cost < n.cost
           \/ score[m] = score[n] /\ m.cost = n.cost /\ m.id < n.id}

First(S, before) == CHOOSE m \in S : \A n \in S \ {m} : <<m, n>> \in before

Ranking(S, before) ==
  [k \in 1 .. Cardinality(S) |->
     CHOOSE m \in S : Cardinality({n \in S : <<n, m>> \in before}) = k - 1]

-----------------------------------------------------------------------------
(* The decision.                                                           *)

(* A role's own model is kept within the policy's bounds.                  *)
Pinned(pool, policy) ==
  {m \in pool : m.id = policy.preferred
                /\ m.tier >= policy.min /\ m.tier <= policy.max}

Chosen(pool, req) ==
  IF Pinned(pool, req.policy) # {} THEN CHOOSE m \in Pinned(pool, req.policy) : TRUE
  ELSE First(pool, Better(pool, req))

(* How the rules sort the fallbacks: liked, of a liked provider, neither,  *)
(* avoided; then by provider, and the cheaper first.                       *)
Liking(m, rules) ==
  IF \E i \in DOMAIN rules : m.id \in rules[i].models THEN 0
  ELSE IF \E i \in DOMAIN rules : m.id \in rules[i].avoid THEN 3
  ELSE IF \E i \in DOMAIN rules : m.provider \in Range(rules[i].providers) THEN 1
  ELSE 2

(* Where the first rule to name its provider has it; behind them all where *)
(* none does.                                                              *)
ProviderPlace(m, rules) ==
  LET lists == [i \in DOMAIN rules |-> rules[i].providers]
      naming == {i \in DOMAIN lists : m.provider \in Range(lists[i])}
      place(list) == Min({k \in DOMAIN list : list[k] = m.provider})
  IN IF naming = {} THEN Max({Len(lists[i]) : i \in DOMAIN lists} \cup {0}) + 1
     ELSE place(lists[Min(naming)])

ByHints(S, better, rules) ==
  LET key(m) == <<Liking(m, rules), ProviderPlace(m, rules), m.cost>>
      before(k, l) == \E i \in 1 .. 3 : k[i] < l[i] /\ \A j \in 1 .. i - 1 : k[j] = l[j]
  IN IF rules = <<>> THEN better
     ELSE {p \in S \X S : \/ before(key(p[1]), key(p[2]))
                          \/ key(p[1]) = key(p[2]) /\ p \in better}

(* At most three of the same tier elsewhere, and where there are fewer the *)
(* best of the next tier up.                                               *)
Fallbacks(pool, chosen, req) ==
  LET better == Better(pool, req)
      elsewhere == {m \in pool : m.tier = chosen.tier /\ m.provider # chosen.provider}
      above == {m \in pool : m.tier = chosen.tier + 1}
      near == Ranking(elsewhere, ByHints(elsewhere, better, req.rules))
  IN IF Len(near) >= 3 \/ above = {} THEN SubSeq(near, 1, Min({3, Len(near)}))
     ELSE Append(near, First(above, better))

RouteModel(models, req) ==
  LET pool == Pool(models, req)
      chosen == Chosen(pool, req)
  IN IF models = {} THEN <<>> ELSE <<chosen>> \o Fallbacks(pool, chosen, req)
=============================================================================
