----------------------------- MODULE RouterMC -----------------------------
(* Every decision over small catalogues: three models, three tiers, up to  *)
(* two rules.                                                              *)
EXTENDS Routing

ThreePrices == {0, 1, 4}
LoggedPrices == [cost \in ThreePrices |->
                   CASE cost = 0 -> 0 [] cost = 1 -> 693 [] cost = 4 -> 1609]

(* Two models of one provider, the third of another. Nothing, something or *)
(* everything may be known of them.                                        *)
Spec3(id, provider, tier, cost, rated, uptime) ==
  [id |-> id, provider |-> provider, tier |-> tier, cost |-> cost, rated |-> rated,
   uptime |-> uptime, can |-> {"tools", "context"}]

Firsts == {Spec3(1, "p", tier, cost, rated, Unknown) :
             tier \in Tiers, cost \in {0, 4}, rated \in {Unknown, 9}}
Seconds == {Spec3(2, "p", tier, cost, Unknown, uptime) :
              tier \in Tiers, cost \in {1, 4}, uptime \in {Unknown, 5}}
Thirds == {Spec3(3, "q", tier, 1, rated, Unknown) : tier \in Tiers, rated \in {Unknown, 4}}
            \cup {[Spec3(3, "q", tier, 0, Unknown, Unknown) EXCEPT !.can = {"tools"}] :
                    tier \in Tiers}

ThreeModels ==
  {{first, second, third} : first \in Firsts, second \in Seconds, third \in Thirds}

Policies ==
  [default : Tiers, min : {0}, max : {1, TopTier}, pin : {FALSE}, preferred : {Unknown, 3},
   escalateTo : {Unknown, TopTier}]

NewRule(tier, liked, providers, avoid) ==
  [tier |-> tier, models |-> liked, providers |-> providers, avoid |-> avoid]
Likes3 == NewRule(Unknown, {3}, <<>>, {})
SomeRules == {<<>>, <<Likes3>>, <<NewRule(Unknown, {}, <<"q">>, {1}), Likes3>>,
              <<NewRule(Unknown, {}, <<>>, {1})>>, <<NewRule(0, {3}, <<>>, {})>>}

SomeRequests ==
  [policy : Policies, posture : {"balanced"}, broke : BOOLEAN, complex : {TRUE},
   needs : {{"tools", "context"}, {"vision", "context"}}, rules : SomeRules]
=============================================================================
