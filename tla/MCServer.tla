------------------------------ MODULE MCServer ------------------------------
(* A small instance of Server for TLC. *)
EXTENDS Server

CONSTANTS p1, p2, k1, k2

Plain == [method |-> "GET", target |-> <<"/x402">>, body |-> <<>>, headers |-> <<>>]

OneRequest == {Plain}

OneConfig == {[network |-> "mainnet", pay_to |-> "node", amount_msat |-> 1,
               max_timeout_secs |-> 1, clock_skew_secs |-> 0,
               public_url |-> <<"host">>]}

Symmetry == Permutations(Preimages) \cup Permutations(RootKeys)
=============================================================================
