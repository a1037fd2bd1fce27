---------------------------- MODULE ModelCallsMC ----------------------------
(* One turn over three models of two providers: the route is two or three  *)
(* long, by what is served and switched on when the turn begins.           *)
EXTENDS ModelCalls

Spec3(id, provider, tier) ==
  [id |-> id, provider |-> provider, tier |-> tier, cost |-> 1, rated |-> Unknown,
   uptime |-> Unknown, can |-> {"tools"}]

ThreeModels == {Spec3(1, "p", 0), Spec3(2, "q", 0), Spec3(3, "p", 1)}

Plain ==
  [policy |-> [default |-> 0, min |-> 0, max |-> 1, pin |-> FALSE, preferred |-> Unknown,
               escalateTo |-> Unknown],
   posture |-> "balanced", broke |-> FALSE, complex |-> FALSE, needs |-> {"tools"},
   rules |-> <<>>]
OnePrice == {1}
LoggedPrice == [cost \in OnePrice |-> 693]

OneRequest == {Plain}
=============================================================================
