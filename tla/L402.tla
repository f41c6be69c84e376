-------------------------------- MODULE L402 --------------------------------
(***************************************************************************)
(* The tokens of the /fortune route: src/token.rs, src/l402.rs and what    *)
(* src/handlers.rs does with them.  HMAC-SHA256 is taken to be injective   *)
(* and unforgeable: a signature is the tagged value of its key and data.   *)
(* The server keeps no record of tokens; the sets here are history.        *)
(***************************************************************************)
EXTENDS Binding

CONSTANT RootKeys   \* the keys L402_ROOT_KEY or the random generator may give

ASSUME RootKeysAssumption == RootKeys # {}

VARIABLES
  root_key,  \* the running process's key
  tokens,    \* tokens sent in challenges, by this process or an earlier one
  granted    \* payment hashes whose token and preimage bought a fortune

l402Vars == <<root_key, tokens, granted>>

-----------------------------------------------------------------------------
hmac_sign(k, data) == <<"hmac", k, data>>
Forged == <<>>   \* 32 bytes that are no signature of this server

mint(k, payment_hash) ==
  [payment_hash |-> payment_hash, signature |-> hmac_sign(k, payment_hash)]

\* Mutant: the signature is compared only with one of the same key.
verify_AnyHash(token, k) ==
  token.signature # Forged /\ token.signature[2] = k

\* Token::verify returning Ok.
verify_token(token, k) == token.signature = hmac_sign(k, token.payment_hash)

\* Mutant: a token with a good signature is enough.
verify_l402_AnyPreimage(k, token, preimage) == verify_token(token, k)

\* verify_l402 returning Ok, for a token that deserializes.
verify_l402(k, token, preimage) ==
  /\ verify_token(token, k)
  /\ Sha256(preimage) = token.payment_hash

-----------------------------------------------------------------------------
L402Init == root_key \in RootKeys /\ tokens = {} /\ granted = {}

\* get_fortune's challenge: the token for the invoice LND returned.
SendToken(payment_hash) ==
  /\ tokens' = tokens \cup {mint(root_key, payment_hash)}
  /\ UNCHANGED <<root_key, granted>>

\* get_fortune with credentials that verify; others are answered 401.
Grant(token, preimage) ==
  /\ verify_l402(root_key, token, preimage)
  /\ granted' = granted \cup {token.payment_hash}
  /\ UNCHANGED <<root_key, tokens>>

\* A new process: the configured key, or a random one.
LoadRootKey == root_key' \in RootKeys /\ UNCHANGED <<tokens, granted>>
=============================================================================
