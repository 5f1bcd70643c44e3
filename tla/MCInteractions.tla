--------------------------- MODULE MCInteractions ---------------------------
(* TLC instance of Interactions: two threads, and more long URLs than the  *)
(* cache holds.                                                            *)
EXTENDS Interactions, TLC

(* The commands share nothing but the threads: a service with the menus of *)
(* /search, and one with those that keep sessions.                         *)
MCDeployments == {{"search", "search select", "direct"},
                  {"where", "where select", "twins", "twins select", "direct"}}

Symmetry == Permutations(Threads) \cup Permutations(Urls) \cup Permutations(Tokens)
=============================================================================
