------------------------------- MODULE MCX402 -------------------------------
(* Small instances of X402 for TLC. *)
EXTENDS X402

CONSTANTS p1, p2, r1, r2

Config(network, amount, timeout, skew, url) ==
  [network |-> network, pay_to |-> "node", amount_msat |-> amount,
   max_timeout_secs |-> timeout, clock_skew_secs |-> skew, public_url |-> url]

Get(target) ==
  [method |-> "GET", target |-> target, body |-> <<>>, headers |-> <<>>]

Plain   == Get(<<"/x402">>)
Queried == Get(<<"/x402", "?q">>)

OneRequest  == {Plain}
TwoRequests == {Plain, Queried}

Base      == Config("mainnet", 1, 1, 0, <<"host">>)
OneConfig == {Base}

\* Restarts that switch between a skew of 0 and 1.
SkewConfigs == {Base, Config("mainnet", 1, 1, 1, <<"host">>)}

\* Restarts that raise the skew by more than the retention.
WideSkewConfigs == {Base, Config("mainnet", 1, 1, 3, <<"host">>)}

\* Restarts that change the price, the public URL or the network.
TermConfigs == {Base, Config("mainnet", 2, 1, 0, <<"host">>),
                Config("mainnet", 1, 1, 0, <<"other">>),
                Config("testnet", 1, 1, 0, <<"host">>)}

\* A retention that fits in i64, or is clamped to it, or saturates at u64::MAX.
EdgeConfigs == {Config("mainnet", 1, 1, 2, <<"host">>),
                Config("mainnet", 1, IMax, 2, <<"host">>)}

Symmetry == Permutations(Preimages) \cup Permutations(Handlers)
=============================================================================
