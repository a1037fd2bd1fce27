--------------------------- MODULE PluginHostMC ---------------------------
(* Values for PluginHost.cfg: the instances of a kind are interchangeable, *)
(* and what a free one was is forgotten, as nothing reads it any more.     *)
EXTENDS PluginHost, TLC

Alike == Permutations(Insts \ Lingering) \cup Permutations(Lingering)

Relevant ==
  <<disk, cached, saved, [i \in Insts |-> IF i \in Free THEN <<>> ELSE inst[i]],
    loaded, holder, observers, op, started>>
=============================================================================
