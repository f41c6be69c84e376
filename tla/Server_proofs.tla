--------------------------- MODULE Server_proofs ---------------------------
(***************************************************************************)
(* Theorems about the whole server, for every value of its constants.      *)
(* What is proved of the route /x402 carries over, as every step of the    *)
(* server is a step of X402; what is new is that the routes are separate.  *)
(***************************************************************************)
EXTENDS Server, X402_proofs

-----------------------------------------------------------------------------
\* Every step of the server is a step of X402 or leaves it alone.
LEMMA ServerStep == [ServerNext]_serverVars => [Next]_vars
  BY DEF ServerNext, serverVars, FortuneChallenge, FortuneGrant, RestartServer,
         Next

\* The server runs the route /x402 as X402 describes it.
THEOREM ServerRunsTheRoute == ServerSpec => Spec
<1>1. ServerInit => Init
  BY DEF ServerInit
<1> QED
  BY <1>1, ServerStep, PTL DEF ServerSpec, Spec

\* A payment buys at most one fortune on /x402, whatever happens on /fortune.
THEOREM ServerSellsOnce == ASSUME RetentionBudget PROVE ServerSpec => []AtMostOnce
  BY ServerRunsTheRoute, PaymentsBuyAtMostOnce, PTL

-----------------------------------------------------------------------------
\* An invoice with a description hash has no memo.
LEMMA CommittedHasNoMemo ==
  ASSUME TypeOK, NEW raw \in invoices, NEW x, raw.description_hashes = <<x>>
  PROVE  raw.inline_descriptions = 0
<1>1. PICK c \in Configs, p \in Preimages, t \in 0 .. MaxTime + Drift :
        \/ \E q \in Requests : raw = LndInvoice(c, q, p, t)
        \/ raw = FortuneInvoice(c, p, t)
  BY DEF TypeOK, ByLnd
<1>2. raw # FortuneInvoice(c, p, t)
  BY DEF FortuneInvoice
<1>3. \A q : LndInvoice(c, q, p, t).inline_descriptions = 0
  BY DEF LndInvoice
<1> QED
  BY <1>1, <1>2, <1>3

\* Spent hashes stay those of invoices that commit to a request.
LEMMA SpentCommittedStep ==
  TypeOK /\ SoldAsOffered /\ SpentCommitted /\ [Next]_vars => SpentCommitted'
<1> SUFFICES ASSUME TypeOK, SoldAsOffered, SpentCommitted, [Next]_vars,
                    NEW h \in Hashes, spends'[h] > 0
             PROVE  \E raw \in invoices' :
                      raw.payment_hashes = <<h>> /\ raw.inline_descriptions = 0
  BY DEF SpentCommitted
<1>1. invoices \subseteq invoices'
  BY Grows
<1>2. CASE spends[h] > 0
  BY <1>1, <1>2 DEF SpentCommitted
<1>3. ASSUME NEW r \in Handlers, Settle(r), ~ (spends[h] > 0)
      PROVE  \E raw \in invoices' :
               raw.payment_hashes = <<h>> /\ raw.inline_descriptions = 0
  <2>1. handler[r].hash = h
    BY <1>3 DEF Settle, TypeOK
  <2>2. PICK raw \in invoices :
          /\ raw.payment_hashes = <<h>>
          /\ raw.description_hashes = <<request_hash(config, handler[r].request)>>
    BY <1>3, <2>1 DEF Settle, SoldAsOffered
  <2> QED BY <1>1, <2>2, CommittedHasNoMemo
<1>4. UNCHANGED spends \/ \E r \in Handlers : Settle(r)
  BY DEF Next, vars, salesVars, HandlerStep, HandlerFrame, PrunerFrame, ClockFrame,
         Receive, Present, Issue, IssueFails, SendChallenge, Duplicate, StoreFails,
         Serve, PruneTick, Prune, PruneFails, Crash, Restart, Pay, Tick, StepBack,
         FortuneIssue
<1> QED BY <1>2, <1>3, <1>4

\* Paid hashes stay paid.
LEMMA PaidGrows == [Next]_vars => paid \subseteq paid'
  BY DEF Next, vars, envVars, HandlerStep, HandlerFrame, PrunerFrame, ClockFrame,
         Receive, Present, Issue, IssueFails, SendChallenge, Settle, Duplicate,
         StoreFails, Serve, PruneTick, Prune, PruneFails, Crash, Restart, Pay,
         Tick, StepBack, FortuneIssue

\* Tokens are only minted for new invoices of /fortune, under the present key.
LEMMA TokensStep ==
  ServerTypeOK /\ [ServerNext]_serverVars => ServerTypeOK'
<1> SUFFICES ASSUME ServerTypeOK, [ServerNext]_serverVars
             PROVE  ServerTypeOK'
  OBVIOUS
<1> USE DEF ServerTypeOK
<1>1. TypeOK' /\ invoices \subseteq invoices'
  BY ServerStep, TypeStep, Grows
<1>2. CASE UNCHANGED tokens /\ root_key' \in RootKeys
  BY <1>1, <1>2
<1>3. CASE FortuneChallenge
  <2>1. PICK raw \in invoices' \ invoices :
          /\ tokens' = tokens \cup {mint(root_key, raw.payment_hashes[1])}
          /\ root_key' = root_key
    BY <1>3 DEF FortuneChallenge, SendToken
  <2>2. raw.inline_descriptions = 1
    BY <1>3, <2>1 DEF FortuneChallenge, FortuneIssue, FortuneInvoice
  <2> QED BY <1>1, <2>1, <2>2
<1> QED
  BY <1>2, <1>3 DEF ServerNext, serverVars, l402Vars, FortuneGrant, Grant,
                    RestartServer, LoadRootKey

\* Credentials that verify carry a token that this process's key signed.
LEMMA VerifiedToken ==
  ASSUME ServerTypeOK, NEW token \in Credentials, NEW preimage,
         verify_l402(root_key, token, preimage)
  PROVE  mint(root_key, token.payment_hash) \in tokens
<1> DEFINE h == token.payment_hash
<1>1. token.signature = <<"hmac", root_key, h>>
  BY DEF verify_l402, verify_token, hmac_sign
<1>2. token.signature # Forged
  BY <1>1 DEF Forged
<1>3. PICK t \in tokens : token.signature = t.signature
  BY <1>2 DEF Credentials
<1>4. PICK k \in RootKeys, raw \in invoices : t = mint(k, raw.payment_hashes[1])
  BY DEF ServerTypeOK
<1>5. <<"hmac", k, raw.payment_hashes[1]>> = <<"hmac", root_key, h>>
  BY <1>1, <1>3, <1>4 DEF mint, hmac_sign
<1>6. k = root_key /\ raw.payment_hashes[1] = h
  <2> HIDE DEF h
  <2> QED BY <1>5
<1> QED BY <1>4, <1>6

\* A fortune is granted on /fortune only for a paid hash with a token.
LEMMA GrantedStep ==
  ServerTypeOK /\ GrantedTokens /\ [ServerNext]_serverVars => GrantedTokens'
<1> SUFFICES ASSUME ServerTypeOK, GrantedTokens, [ServerNext]_serverVars,
                    NEW h \in granted'
             PROVE  h \in paid' /\ \E k \in RootKeys : mint(k, h) \in tokens'
  BY DEF GrantedTokens
<1>1. paid \subseteq paid' /\ tokens \subseteq tokens'
  <2>1. tokens \subseteq tokens'
    BY DEF ServerNext, serverVars, l402Vars, FortuneChallenge, SendToken,
           FortuneGrant, Grant, RestartServer, LoadRootKey
  <2> QED BY <2>1, ServerStep, PaidGrows
<1>2. CASE h \in granted
  BY <1>1, <1>2 DEF GrantedTokens
<1>3. CASE h \notin granted
  <2>1. FortuneGrant
    BY <1>3 DEF ServerNext, serverVars, l402Vars, FortuneChallenge, SendToken,
                RestartServer, LoadRootKey
  <2>2. PICK token \in Credentials, preimage \in KnownPreimages :
          /\ verify_l402(root_key, token, preimage)
          /\ h = token.payment_hash
    BY <1>3, <2>1 DEF FortuneGrant, Grant
  <2>3. h \in paid
    BY <2>2 DEF verify_l402, KnownPreimages
  <2>4. mint(root_key, h) \in tokens
    BY <2>2, VerifiedToken
  <2> QED BY <1>1, <2>3, <2>4 DEF ServerTypeOK
<1> QED BY <1>2, <1>3

\* The server's invariant holds at the start.
LEMMA ServerInvInit == ServerInit => ServerInv
<1> SUFFICES ASSUME ServerInit
             PROVE  ServerInv
  OBVIOUS
<1>1. TypeOK
  BY TypeInit DEF ServerInit
<1>2. DownIsIdle /\ FreshHashes /\ SpentCommitted
  BY DEF ServerInit, Init, DownIsIdle, FreshHashes, SpentCommitted
<1>3. SoldAsOffered
  BY DEF ServerInit, Init, SoldAsOffered, Stage, Idle
<1>4. ServerTypeOK /\ GrantedTokens
  BY <1>1 DEF ServerInit, L402Init, ServerTypeOK, GrantedTokens
<1> QED
  BY <1>2, <1>3, <1>4 DEF ServerInv

\* Every step keeps it.
LEMMA ServerInvStep == ServerInv /\ [ServerNext]_serverVars => ServerInv'
  BY ServerStep, TokensStep, GrantedStep, DownStep, FreshStep, SoldStep,
     SpentCommittedStep
     DEF ServerInv, ServerTypeOK

\* Tokens, grants and spent payments always belong to invoices of their route.
THEOREM ServerInductive == ServerSpec => []ServerInv
  BY ServerInvInit, ServerInvStep, PTL DEF ServerSpec

\* What was paid for on one route buys nothing on the other.
THEOREM RoutesStaySeparate == ServerSpec => []RoutesAreSeparate
<1>1. ServerInv => RoutesAreSeparate
  <2> SUFFICES ASSUME ServerInv, NEW raw \in invoices, NEW h \in Hashes,
                      raw.payment_hashes = <<h>>
               PROVE  /\ h \in granted => raw.inline_descriptions = 1 /\ h \in paid
                      /\ spends[h] > 0 => raw.inline_descriptions = 0
    BY DEF RoutesAreSeparate
  <2>1. \A other \in invoices : other.payment_hashes = <<h>> => other = raw
    BY DEF ServerInv, FreshHashes
  <2>2. ASSUME h \in granted
        PROVE  raw.inline_descriptions = 1 /\ h \in paid
    <3>1. PICK k \in RootKeys : mint(k, h) \in tokens
      BY <2>2 DEF ServerInv, GrantedTokens
    <3>2. PICK j \in RootKeys, other \in invoices :
            /\ other.inline_descriptions = 1
            /\ mint(k, h) = mint(j, other.payment_hashes[1])
      BY <3>1 DEF ServerInv, ServerTypeOK
    <3>3. other.payment_hashes[1] = h
      BY <3>2 DEF mint
    <3>4. other.payment_hashes = <<decode(Bolt11(other)).payment_hash>>
      BY IssuedFields DEF ServerInv, ServerTypeOK
    <3>5. other.payment_hashes = <<h>>
      BY <3>3, <3>4
    <3> QED BY <2>1, <2>2, <3>2, <3>5 DEF ServerInv, GrantedTokens
  <2>3. ASSUME spends[h] > 0
        PROVE  raw.inline_descriptions = 0
    BY <2>1, <2>3 DEF ServerInv, SpentCommitted
  <2> QED BY <2>2, <2>3
<1> QED
  BY <1>1, ServerInductive, PTL

\* A fortune is granted only for a token of the running process's own key.
THEOREM GrantsUseOwnTokens == ServerSpec => GrantsAreForOwnTokens
<1>1. ServerInv /\ [ServerNext]_serverVars
        => [\A h \in granted' \ granted : mint(root_key, h) \in tokens]_serverVars
  <2> SUFFICES ASSUME ServerInv, ServerNext, NEW h \in granted' \ granted
               PROVE  mint(root_key, h) \in tokens
    OBVIOUS
  <2>1. FortuneGrant
    BY DEF ServerNext, l402Vars, FortuneChallenge, SendToken, RestartServer,
           LoadRootKey
  <2>2. PICK token \in Credentials, preimage \in KnownPreimages :
          /\ verify_l402(root_key, token, preimage)
          /\ h = token.payment_hash
    BY <2>1 DEF FortuneGrant, Grant
  <2> QED BY <2>2, VerifiedToken DEF ServerInv
<1> QED
  BY <1>1, ServerInductive, PTL DEF ServerSpec, GrantsAreForOwnTokens
=============================================================================
