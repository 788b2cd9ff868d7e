---------------------------- MODULE MCRateLimit -----------------------------
(* An instance of RateLimit for TLC: two /64s of one /48.                  *)
EXTENDS RateLimit, TLC

CONSTANTS n1, n2, area

MCAreaOf == [n \in {n1, n2} |-> area]
MCLimit == (n1 :> 1) @@ (n2 :> 2) @@ (area :> 2)
MCFailLimit == (n1 :> 1) @@ (n2 :> 1) @@ (area :> 1)
MCTokenLimit == (n1 :> 1) @@ (n2 :> 1) @@ (area :> 1)

Symmetric == Permutations(Worker) \cup Permutations(Token)
=============================================================================
