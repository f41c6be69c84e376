------------------------------- MODULE Server -------------------------------
(***************************************************************************)
(* The whole server: the routes /fortune and /x402 over one LND node, in   *)
(* one process that crashes and restarts with both (src/main.rs merges the *)
(* two routers over the same AppState).                                    *)
(*                                                                         *)
(* Both routes sell at the same price, and their invoices differ only in   *)
(* the description.  A client may bring to either route any token, invoice *)
(* and preimage it got from the other.                                     *)
(***************************************************************************)
EXTENDS X402, L402

serverVars == <<vars, l402Vars>>

-----------------------------------------------------------------------------
ServerInit == Init /\ L402Init

\* GET /fortune without credentials: LND adds an invoice, the client gets it
\* with its token.  If the client disconnects or the process dies before the
\* answer, only the invoice is added, which is the step FortuneIssue of X402.
FortuneChallenge ==
  /\ FortuneIssue
  /\ \E raw \in invoices' \ invoices : SendToken(raw.payment_hashes[1])

\* What a client can put in an Authorization header: any payment hash with any
\* signature it was ever sent, or none of the server's, and a preimage it knows.
Credentials ==
  [payment_hash : Hashes,
   signature    : {Forged} \cup {token.signature : token \in tokens}]

\* GET /fortune with credentials.
FortuneGrant ==
  /\ up
  /\ \E token \in Credentials, preimage \in KnownPreimages : Grant(token, preimage)
  /\ UNCHANGED vars

RestartServer ==
  /\ \E c \in Configs : Restart(c)
  /\ LoadRootKey

ServerNext ==
  \/ Next /\ UNCHANGED l402Vars
  \/ FortuneChallenge
  \/ FortuneGrant
  \/ RestartServer

ServerSpec == ServerInit /\ [][ServerNext]_serverVars

-----------------------------------------------------------------------------
\* The tokens' history is about real invoices of the /fortune route.
ServerTypeOK ==
  /\ TypeOK
  /\ root_key \in RootKeys
  /\ \A token \in tokens : \E k \in RootKeys, raw \in invoices :
       /\ raw.inline_descriptions = 1
       /\ token = mint(k, raw.payment_hashes[1])

\* Each route sells only for its own invoices, and only for paid ones: "an L402
\* token does not work on `/x402`, and an x402 payment does not work on
\* `/fortune`" (README.md:37-38), also across restarts, new keys, and tokens
\* that clients put together from parts of others.
RoutesAreSeparate ==
  \A raw \in invoices, h \in Hashes : raw.payment_hashes = <<h>> =>
    /\ h \in granted => raw.inline_descriptions = 1 /\ h \in paid
    /\ spends[h] > 0 => raw.inline_descriptions = 0

\* A fortune is granted only for a hash whose token was signed with the key of
\* the process that grants it: tokens of an earlier random key buy nothing
\* ("Macaroons will not survive restarts.", src/config.rs:57).
GrantsAreForOwnTokens ==
  [][\A h \in granted' \ granted : mint(root_key, h) \in tokens]_serverVars

\* For the proof: a spent hash is of an invoice that commits to a request.
SpentCommitted ==
  \A h \in Hashes : spends[h] > 0 =>
    \E raw \in invoices :
      raw.payment_hashes = <<h>> /\ raw.inline_descriptions = 0

GrantedTokens ==
  \A h \in granted : /\ h \in paid
                     /\ \E k \in RootKeys : mint(k, h) \in tokens

\* The inductive invariant behind RoutesAreSeparate.
ServerInv ==
  /\ ServerTypeOK /\ DownIsIdle /\ FreshHashes /\ SoldAsOffered
  /\ SpentCommitted /\ GrantedTokens
=============================================================================
