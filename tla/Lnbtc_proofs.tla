---------------------------- MODULE Lnbtc_proofs ----------------------------
(***************************************************************************)
(* Theorems about the checks of the scheme, for terms and invoices of any  *)
(* content.                                                                *)
(***************************************************************************)
EXTENDS Lnbtc, SequenceTheorems, WellFoundedInduction, TLAPS

\* What check_issued_invoice establishes of an invoice.
LEMMA IssuedFacts ==
  ASSUME NEW t, NEW invoice, NEW now, IssuedInvoiceOk(invoice, t, now)
  PROVE  LET inv == decode(invoice)
         IN  /\ Decodes(invoice)
             /\ inv.description_hash = <<t.request_hash>>
             /\ inv.payee = t.pay_to
             /\ inv.currency = currency(t.network)
             /\ inv.amount_msat = <<t.amount_msat>>
             /\ inv.expiry = t.max_timeout_secs
             /\ inv.created <= saturating_add(now, t.clock_skew_secs)
<1> DEFINE inv == decode(invoice)
           checks == InvoiceChecks(inv, t, now)
<1> HIDE DEF inv
<1>1. \A i \in 1 .. 7 : checks[i] = Ok
  BY DEF IssuedInvoiceOk, Passes, InvoiceChecks, inv
<1>2. /\ checks[2] = Ok /\ checks[3] = Ok /\ checks[4] = Ok /\ checks[5] = Ok
      /\ checks[6] = Ok /\ checks[7] = Ok
  BY <1>1
<1>3. Decodes(invoice)
  BY DEF IssuedInvoiceOk
<1> QED
  BY <1>2, <1>3 DEF InvoiceChecks, Check, Ok, inv

\* Whoever echoes the requirements that t makes with an invoice, and knows the
\* preimage, is accepted while the invoice is neither from the future nor past
\* its end and the skew, provided the invoice is for these terms.
LEMMA HonestAccepted ==
  ASSUME NEW t, t.binding_params = http_params(BOUND_HEADERS),
         NEW raw, Decodes(Bolt11(raw)), NEW p, NEW now,
         LET inv == decode(Bolt11(raw))
         IN  /\ inv.payment_hash = Sha256(p)
             /\ inv.description_hash = <<t.request_hash>>
             /\ inv.payee = t.pay_to
             /\ inv.currency = currency(t.network)
             /\ inv.amount_msat = <<t.amount_msat>>
             /\ inv.expiry = t.max_timeout_secs
             /\ inv.created <= saturating_add(now, t.clock_skew_secs)
             /\ now <= last_valid(inv, t)
  PROVE  Accepts(HonestPayload(requirements(t, Bolt11(raw)), p), t, now)
<1> DEFINE invoice == Bolt11(raw)
           inv     == decode(invoice)
           req     == requirements(t, invoice)
           extra   == req.extra
<1> HIDE DEF inv
<1>1. Passes(CoreChecks(req, t))
  BY DEF Passes, CoreChecks, Check, requirements
<1>2. Passes(check_extra(extra, t))
  <2>1. is_valid_http_params(http_params(BOUND_HEADERS))
    BY DEF is_valid_http_params, http_params, BOUND_HEADERS
  <2>2. IsHex(extra.requestHash) /\ extra.requestHash[2] = 64
    BY DEF requirements, Hex, IsHex
  <2>3. /\ extra.requestBindingProfile = Text(HTTP_PROFILE)
        /\ extra.requestBindingParams = t.binding_params
        /\ extra.requestHash = Hex(64, t.request_hash)
        /\ extra.paymentFlow = PAYMENT_FLOW
        /\ extra.assetTransferMethod = ASSET_TRANSFER_METHOD
    BY DEF requirements
  <2> HIDE DEF extra
  <2> QED BY <2>1, <2>2, <2>3 DEF Passes, check_extra, Check
<1>3. Passes(InvoiceStringChecks(invoice))
  <2>1. IsString(invoice) /\ invoice # EmptyString
    BY DEF IsString, Bolt11, Absent, NonString, EmptyString, Hex
  <2> QED BY <2>1 DEF Passes, InvoiceStringChecks, Check
<1>4. Passes(InvoiceChecks(inv, t, now))
  BY DEF Passes, InvoiceChecks, Check, inv
<1>5. Passes(PreimageChecks(Hex(64, p), inv))
  <2>1. /\ IsHex(Hex(64, p)) /\ Hex(64, p)[2] = 64 /\ Hex(64, p)[3] = p
        /\ Hex(64, p) # Absent
    BY DEF IsHex, Hex, Absent
  <2>2. Sha256(p) = inv.payment_hash
    BY DEF inv
  <2> QED BY <2>1, <2>2 DEF Passes, PreimageChecks, Check
<1>6. Passes(ExpiryChecks(inv, t, now))
  BY DEF Passes, ExpiryChecks, Check, inv
<1>7. /\ HonestPayload(req, p).accepted = req
      /\ HonestPayload(req, p).preimage = Hex(64, p)
      /\ req.extra.invoice = invoice
  BY DEF HonestPayload, requirements
<1> QED
  BY <1>1, <1>2, <1>3, <1>4, <1>5, <1>6, <1>7 DEF Accepts, inv

\* A server that let an invoice out in a challenge accepts the honest payment of
\* it, under the same terms, at any later time up to its end and the skew: the
\* checks at issue and at settlement agree on every invoice, whatever is in it.
THEOREM CheckedInvoicesSettle ==
  ASSUME NEW t, t.binding_params = http_params(BOUND_HEADERS),
         t.clock_skew_secs \in Nat,
         NEW raw, NEW now \in Nat, IssuedInvoiceOk(Bolt11(raw), t, now),
         raw.timestamp \in Nat,
         NEW p, raw.payment_hashes = <<Sha256(p)>>,
         NEW later \in Nat, now <= later,
         later <= last_valid(decode(Bolt11(raw)), t)
  PROVE  Accepts(HonestPayload(requirements(t, Bolt11(raw)), p), t, later)
<1> DEFINE inv == decode(Bolt11(raw))
<1>1. inv.payment_hash = Sha256(p) /\ inv.created \in Nat
  BY DEF decode, Bolt11
<1> HIDE DEF inv
<1>2. saturating_add(now, t.clock_skew_secs) <= saturating_add(later, t.clock_skew_secs)
  BY LnbtcAssumption DEF saturating_add
<1>3. inv.created <= saturating_add(now, t.clock_skew_secs)
  BY IssuedFacts DEF inv
<1>4. inv.created <= saturating_add(later, t.clock_skew_secs)
  BY <1>1, <1>2, <1>3, LnbtcAssumption DEF saturating_add
<1> QED
  BY <1>1, <1>4, IssuedFacts, HonestAccepted DEF inv

-----------------------------------------------------------------------------
(* What verify returns. *)

\* A set of natural numbers that is not empty has a least element.
LEMMA LeastOf == 
  ASSUME NEW F \in SUBSET Nat, F # {}
  PROVE  \E i \in F : \A j \in F : i <= j
<1> DEFINE R == OpToRel(<, Nat)
<1>1. IsWellFoundedOn(R, Nat)
  BY NatLessThanWellFounded
<1>2. \A x, y \in Nat : y < x => <<y, x>> \in R
  BY DEF OpToRel
<1> HIDE DEF R
<1>3. PICK x \in F : \A y \in F : ~ (<<y, x>> \in R)
  BY <1>1, WFMin
<1>4. ASSUME NEW y \in F PROVE x <= y
  <2>1. x \in Nat /\ y \in Nat /\ <<y, x>> \notin R
    BY <1>3
  <2>2. ~ (y < x)
    BY <2>1, <1>2, Zenon
  <2> QED BY <2>1, <2>2
<1> QED BY <1>4

\* What the code returns: Ok if every check passes, else the reason of one that
\* fails, before which all pass.
LEMMA FirstFailureIs ==
  ASSUME NEW S, NEW checks \in Seq(S)
  PROVE  /\ FirstFailure(checks) = Ok <=> Passes(checks)
         /\ FirstFailure(checks) # Ok =>
              \E i \in 1 .. Len(checks) :
                /\ checks[i] = FirstFailure(checks)
                /\ \A j \in 1 .. i - 1 : checks[j] = Ok
<1> DEFINE failing == {i \in DOMAIN checks : checks[i] # Ok}
           first == CHOOSE i \in failing : \A j \in failing : i <= j
<1>0. DOMAIN checks = 1 .. Len(checks) /\ Len(checks) \in Nat
  BY LenProperties
<1>1. FirstFailure(checks) = IF failing = {} THEN Ok ELSE checks[first]
  BY DEF FirstFailure
<1>2. Passes(checks) <=> failing = {}
  BY DEF Passes
<1>3. ASSUME failing # {}
      PROVE  first \in failing /\ \A j \in failing : first <= j
  <2>1. failing \in SUBSET Nat
    BY <1>0
  <2> HIDE DEF failing
  <2> QED BY <1>3, <2>1, LeastOf
<1>4. ASSUME failing # {}
      PROVE  /\ first \in 1 .. Len(checks) /\ checks[first] # Ok
             /\ \A j \in 1 .. first - 1 : checks[j] = Ok
  <2> HIDE DEF first
  <2>1. first \in 1 .. Len(checks) /\ checks[first] # Ok
    BY <1>0, <1>3, <1>4
  <2>2. ASSUME NEW j \in 1 .. first - 1
        PROVE  checks[j] = Ok
    BY <1>0, <1>3, <1>4, <2>1
  <2> QED BY <2>1, <2>2
<1> HIDE DEF first, failing
<1> QED BY <1>1, <1>2, <1>4

\* Checks made in turn pass if each of them does.
LEMMA PassesConcat ==
  ASSUME NEW S, NEW a \in Seq(S), NEW b \in Seq(S)
  PROVE  Passes(a \o b) <=> Passes(a) /\ Passes(b)
<1>1. /\ DOMAIN a = 1 .. Len(a) /\ DOMAIN b = 1 .. Len(b)
      /\ DOMAIN (a \o b) = 1 .. (Len(a) + Len(b))
      /\ Len(a) \in Nat /\ Len(b) \in Nat
  BY ConcatProperties, LenProperties
<1>2. \A i \in 1 .. Len(a) : (a \o b)[i] = a[i]
  BY <1>1, ConcatProperties
<1>3. \A i \in 1 .. Len(b) : (a \o b)[Len(a) + i] = b[i]
  BY <1>1, ConcatProperties
<1>4. ASSUME Passes(a), Passes(b), NEW i \in 1 .. (Len(a) + Len(b))
      PROVE  (a \o b)[i] = Ok
  <2>1. CASE i <= Len(a)
    BY <1>1, <1>2, <1>4, <2>1 DEF Passes
  <2>2. CASE i > Len(a)
    <3>1. i - Len(a) \in 1 .. Len(b) /\ Len(a) + (i - Len(a)) = i
      BY <1>1, <2>2
    <3> QED BY <1>1, <1>3, <1>4, <3>1 DEF Passes
  <2> QED BY <1>1, <2>1, <2>2
<1>5. ASSUME Passes(a \o b), NEW i \in 1 .. Len(a)
      PROVE  a[i] = Ok
  BY <1>1, <1>2, <1>5 DEF Passes
<1>6. ASSUME Passes(a \o b), NEW i \in 1 .. Len(b)
      PROVE  b[i] = Ok
  <2>1. Len(a) + i \in 1 .. (Len(a) + Len(b))
    BY <1>1
  <2> QED BY <1>1, <1>3, <1>6, <2>1 DEF Passes
<1> QED BY <1>1, <1>4, <1>5, <1>6 DEF Passes

\* The result of a check is Ok or one of its reasons.
LEMMA FirstFailureIn ==
  ASSUME NEW S, Ok \in S, NEW checks \in Seq(S)
  PROVE  FirstFailure(checks) \in S
<1>1. CASE FirstFailure(checks) = Ok
  BY <1>1
<1>2. CASE FirstFailure(checks) # Ok
  BY <1>2, FirstFailureIs, LenProperties, ElementOfSeq
<1> QED BY <1>1, <1>2

\* The first failure is the only check that fails after none did.
LEMMA FirstFailureAt ==
  ASSUME NEW S, NEW checks \in Seq(S), NEW k \in 1 .. Len(checks),
         checks[k] # Ok, \A j \in 1 .. k - 1 : checks[j] = Ok
  PROVE  FirstFailure(checks) = checks[k]
<1>0. Len(checks) \in Nat /\ DOMAIN checks = 1 .. Len(checks)
  BY LenProperties
<1>1. FirstFailure(checks) # Ok
  BY <1>0, FirstFailureIs DEF Passes
<1>2. PICK i \in 1 .. Len(checks) : /\ checks[i] = FirstFailure(checks)
                                    /\ \A j \in 1 .. i - 1 : checks[j] = Ok
  BY <1>1, FirstFailureIs
<1>3. ~ (i < k) /\ ~ (k < i)
  BY <1>0, <1>1, <1>2
<1> QED BY <1>0, <1>2, <1>3

\* Checks made in turn fail as the first of them that fails.
LEMMA FailsInTurn ==
  ASSUME NEW S, NEW a \in Seq(S), NEW b \in Seq(S)
  PROVE  FirstFailure(a \o b) = IF Passes(a) THEN FirstFailure(b) ELSE FirstFailure(a)
<1>1. /\ DOMAIN a = 1 .. Len(a) /\ DOMAIN b = 1 .. Len(b)
      /\ Len(a) \in Nat /\ Len(b) \in Nat
      /\ a \o b \in Seq(S) /\ Len(a \o b) = Len(a) + Len(b)
  BY ConcatProperties, LenProperties
<1>2. \A i \in 1 .. Len(a) : (a \o b)[i] = a[i]
  BY <1>1, ConcatProperties
<1>3. \A i \in 1 .. Len(b) : (a \o b)[Len(a) + i] = b[i]
  BY <1>1, ConcatProperties
<1>4. CASE Passes(a) /\ Passes(b)
  BY <1>1, <1>4, PassesConcat, FirstFailureIs
<1>5. CASE Passes(a) /\ ~ Passes(b)
  <2>1. PICK i \in 1 .. Len(b) : /\ b[i] = FirstFailure(b) /\ b[i] # Ok
                                 /\ \A j \in 1 .. i - 1 : b[j] = Ok
    BY <1>5, FirstFailureIs
  <2> DEFINE k == Len(a) + i
  <2>2. k \in 1 .. Len(a \o b) /\ (a \o b)[k] = b[i]
    BY <1>1, <1>3
  <2>3. ASSUME NEW j \in 1 .. k - 1 PROVE (a \o b)[j] = Ok
    <3>1. CASE j <= Len(a)
      BY <1>1, <1>2, <1>5, <3>1 DEF Passes
    <3>2. CASE j > Len(a)
      <4>1. j - Len(a) \in 1 .. i - 1 /\ j - Len(a) \in 1 .. Len(b)
            /\ Len(a) + (j - Len(a)) = j
        BY <1>1, <3>2
      <4> QED BY <1>3, <2>1, <4>1
    <3> QED BY <1>1, <3>1, <3>2
  <2> HIDE DEF k
  <2>4. FirstFailure(a \o b) = b[i]
    BY <1>1, <2>1, <2>2, <2>3, FirstFailureAt
  <2> QED BY <1>5, <2>1, <2>4
<1>6. CASE ~ Passes(a)
  <2>1. PICK i \in 1 .. Len(a) : /\ a[i] = FirstFailure(a) /\ a[i] # Ok
                                 /\ \A j \in 1 .. i - 1 : a[j] = Ok
    BY <1>6, FirstFailureIs
  <2>2. i \in 1 .. Len(a \o b) /\ (a \o b)[i] = a[i]
    BY <1>1, <1>2
  <2>3. ASSUME NEW j \in 1 .. i - 1 PROVE (a \o b)[j] = Ok
    BY <1>1, <1>2, <2>1
  <2>4. FirstFailure(a \o b) = a[i]
    BY <1>1, <2>1, <2>2, <2>3, FirstFailureAt
  <2> QED BY <1>6, <2>1, <2>4
<1> QED BY <1>4, <1>5, <1>6

\* What verify may return: Ok, a reason that only check_extra gives for the
\* members that bind the request, or one of the other reasons.
OtherVerdicts ==
  {Ok, "unsupported_scheme", "network_mismatch", "amount_mismatch", "asset",
   "pay_to_mismatch", "max_timeout_mismatch", "asset_transfer_method",
   "payment_flow", "invoice_missing", "decode_failed", "description",
   "invoice_request_mismatch", "payee_mismatch", "currency_mismatch",
   "invoice_amount_mismatch", "expiry_mismatch", "created_in_future",
   "preimage_missing", "preimage_malformed", "preimage_length",
   "preimage_hash_mismatch", "expired"}

BindingReasons == {"request_binding", "request_mismatch"}
Verdicts       == OtherVerdicts \cup BindingReasons

\* Each stage of verify but check_extra gives none of the binding's reasons.
LEMMA StageVerdicts ==
  ASSUME NEW S, OtherVerdicts \subseteq S,
         NEW accepted, NEW invoice, NEW inv, NEW preimage, NEW t, NEW now
  PROVE  /\ CoreChecks(accepted, t) \in Seq(S)
         /\ InvoiceStringChecks(invoice) \in Seq(S)
         /\ InvoiceChecks(inv, t, now) \in Seq(S)
         /\ PreimageChecks(preimage, inv) \in Seq(S)
         /\ ExpiryChecks(inv, t, now) \in Seq(S)
<1>1. /\ Ok \in S
      /\ "unsupported_scheme" \in S
      /\ "network_mismatch" \in S
      /\ "amount_mismatch" \in S
      /\ "asset" \in S
      /\ "pay_to_mismatch" \in S
      /\ "max_timeout_mismatch" \in S
      /\ "invoice_missing" \in S
      /\ "decode_failed" \in S
      /\ "description" \in S
      /\ "invoice_request_mismatch" \in S
      /\ "payee_mismatch" \in S
      /\ "currency_mismatch" \in S
      /\ "invoice_amount_mismatch" \in S
      /\ "expiry_mismatch" \in S
      /\ "created_in_future" \in S
      /\ "preimage_missing" \in S
      /\ "preimage_malformed" \in S
      /\ "preimage_length" \in S
      /\ "preimage_hash_mismatch" \in S
      /\ "expired" \in S
  BY DEF OtherVerdicts
<1>2. CoreChecks(accepted, t) \in Seq(S)
  BY <1>1 DEF CoreChecks, Check
<1>3. InvoiceStringChecks(invoice) \in Seq(S)
  BY <1>1 DEF InvoiceStringChecks, Check
<1>4. InvoiceChecks(inv, t, now) \in Seq(S)
  BY <1>1 DEF InvoiceChecks, Check
<1>5. PreimageChecks(preimage, inv) \in Seq(S)
  BY <1>1 DEF PreimageChecks, Check
<1>6. ExpiryChecks(inv, t, now) \in Seq(S)
  BY <1>1 DEF ExpiryChecks, Check
<1> QED
  BY <1>2, <1>3, <1>4, <1>5, <1>6

\* All that check_extra gives.
LEMMA ExtraVerdicts ==
  ASSUME NEW extra, NEW t
  PROVE  check_extra(extra, t) \in Seq(Verdicts)
<1>1. /\ Ok \in Verdicts
      /\ "asset_transfer_method" \in Verdicts
      /\ "payment_flow" \in Verdicts
      /\ "request_binding" \in Verdicts
      /\ "request_mismatch" \in Verdicts
  BY DEF Verdicts, OtherVerdicts, BindingReasons
<1> QED
  BY <1>1 DEF check_extra, Check

\* Accepts, the form in which the server's model asks for a proof, is whether
\* verify returns Ok, for every payload, terms and time.
THEOREM VerifyAccepts ==
  ASSUME NEW payload, NEW t, NEW now
  PROVE  verify(payload, t, now) = Ok <=> Accepts(payload, t, now)
<1> DEFINE invoice == payload.accepted.extra.invoice
           inv     == decode(invoice)
           core    == CoreChecks(payload.accepted, t)
           extra   == check_extra(payload.accepted.extra, t)
           string  == InvoiceStringChecks(invoice)
           checks  == InvoiceChecks(inv, t, now)
           opens   == PreimageChecks(payload.preimage, inv)
           expiry  == ExpiryChecks(inv, t, now)
           early   == FirstFailure(core \o extra \o string)
           late    == FirstFailure(checks \o opens \o expiry)
<1>1. /\ core \in Seq(Verdicts) /\ extra \in Seq(Verdicts) /\ string \in Seq(Verdicts)
      /\ checks \in Seq(Verdicts) /\ opens \in Seq(Verdicts) /\ expiry \in Seq(Verdicts)
  BY StageVerdicts, ExtraVerdicts DEF Verdicts
<1>2. verify(payload, t, now) = IF early # Ok THEN early ELSE late
  BY DEF verify
<1>3. Accepts(payload, t, now)
        <=> /\ Passes(core) /\ Passes(extra) /\ Passes(string)
            /\ Passes(checks) /\ Passes(opens) /\ Passes(expiry)
  BY DEF Accepts
<1> HIDE DEF core, extra, string, checks, opens, expiry
<1>4. core \o extra \in Seq(Verdicts) /\ checks \o opens \in Seq(Verdicts)
  BY <1>1
<1>5. /\ core \o extra \o string \in Seq(Verdicts)
      /\ checks \o opens \o expiry \in Seq(Verdicts)
  BY <1>1, <1>4
<1>6. early = Ok <=> Passes(core) /\ Passes(extra) /\ Passes(string)
  <2>1. early = Ok <=> Passes(core \o extra \o string)
    BY <1>5, FirstFailureIs
  <2>2. Passes(core \o extra \o string) <=> Passes(core \o extra) /\ Passes(string)
    BY <1>1, <1>4, PassesConcat
  <2> QED BY <1>1, <2>1, <2>2, PassesConcat
<1>7. late = Ok <=> Passes(checks) /\ Passes(opens) /\ Passes(expiry)
  <2>1. late = Ok <=> Passes(checks \o opens \o expiry)
    BY <1>5, FirstFailureIs
  <2>2. Passes(checks \o opens \o expiry) <=> Passes(checks \o opens) /\ Passes(expiry)
    BY <1>1, <1>4, PassesConcat
  <2> QED BY <1>1, <2>1, <2>2, PassesConcat
<1> HIDE DEF early, late
<1> QED BY <1>2, <1>3, <1>6, <1>7

\* The form of the three members that describe the binding.
BindingWellFormed(extra) ==
  /\ IsHex(extra.requestHash) /\ extra.requestHash[2] = 64
  /\ extra.requestBindingProfile = Text(HTTP_PROFILE)
  /\ is_valid_http_params(extra.requestBindingParams)

\* A malformed binding and a well-formed but different one are told apart,
\* whatever payload, terms and time verify is called with: it says
\* "request_binding" only of a malformed one, and "request_mismatch" only of one
\* that is well-formed and not the terms' (check_extra).
THEOREM BindingVerdicts ==
  ASSUME NEW payload, NEW t, NEW now
  PROVE  LET extra == payload.accepted.extra
         IN  /\ verify(payload, t, now) = "request_binding" => ~ BindingWellFormed(extra)
             /\ verify(payload, t, now) = "request_mismatch" =>
                  /\ BindingWellFormed(extra)
                  /\ \/ extra.requestHash # Hex(64, t.request_hash)
                     \/ extra.requestBindingParams # t.binding_params
<1> DEFINE ext     == payload.accepted.extra
           invoice == ext.invoice
           inv     == decode(invoice)
           core    == CoreChecks(payload.accepted, t)
           extra   == check_extra(ext, t)
           string  == InvoiceStringChecks(invoice)
           checks  == InvoiceChecks(inv, t, now)
           opens   == PreimageChecks(payload.preimage, inv)
           expiry  == ExpiryChecks(inv, t, now)
           early   == FirstFailure(core \o extra \o string)
           late    == FirstFailure(checks \o opens \o expiry)
           result  == verify(payload, t, now)
<1>1. extra \in Seq(Verdicts)
  BY ExtraVerdicts
<1>2. /\ core \in Seq(OtherVerdicts) /\ string \in Seq(OtherVerdicts)
      /\ checks \in Seq(OtherVerdicts) /\ opens \in Seq(OtherVerdicts)
      /\ expiry \in Seq(OtherVerdicts)
  BY StageVerdicts
<1>3. core \in Seq(Verdicts) /\ string \in Seq(Verdicts)
  BY StageVerdicts DEF Verdicts
<1>4. result = IF early # Ok THEN early ELSE late
  BY DEF verify
<1>5. Ok \in OtherVerdicts /\ \A v \in OtherVerdicts : v \notin BindingReasons
  BY DEF OtherVerdicts, BindingReasons, Ok
<1>6. /\ Len(extra) = 4 /\ DOMAIN extra = 1 .. 4
      /\ extra[1] \in {Ok, "asset_transfer_method"}
      /\ extra[2] \in {Ok, "payment_flow"}
      /\ extra[3] = IF BindingWellFormed(ext) THEN Ok ELSE "request_binding"
      /\ extra[4] = IF /\ ext.requestHash = Hex(64, t.request_hash)
                       /\ ext.requestBindingParams = t.binding_params
                    THEN Ok ELSE "request_mismatch"
  <2> HIDE DEF ext
  <2> QED BY DEF check_extra, Check, BindingWellFormed
<1> HIDE DEF core, extra, string, checks, opens, expiry, ext
<1>7. late \notin BindingReasons
  <2>1. checks \o opens \in Seq(OtherVerdicts)
    BY <1>2
  <2>2. checks \o opens \o expiry \in Seq(OtherVerdicts)
    BY <1>2, <2>1
  <2> QED BY <1>5, <2>2, FirstFailureIn
<1>8. early = IF ~ Passes(core) THEN FirstFailure(core)
              ELSE IF ~ Passes(extra) THEN FirstFailure(extra)
              ELSE FirstFailure(string)
  <2>1. core \o extra \in Seq(Verdicts)
    BY <1>1, <1>3
  <2>2. early = IF Passes(core \o extra) THEN FirstFailure(string)
                ELSE FirstFailure(core \o extra)
    BY <1>3, <2>1, FailsInTurn
  <2>3. Passes(core \o extra) <=> Passes(core) /\ Passes(extra)
    BY <1>1, <1>3, PassesConcat
  <2>4. FirstFailure(core \o extra) = IF Passes(core) THEN FirstFailure(extra)
                                      ELSE FirstFailure(core)
    BY <1>1, <1>3, FailsInTurn
  <2> HIDE DEF early
  <2> QED BY <2>2, <2>3, <2>4
<1>9. FirstFailure(core) \notin BindingReasons /\ FirstFailure(string) \notin BindingReasons
  BY <1>2, <1>5, FirstFailureIn
<1> HIDE DEF early, late, result
<1>10. ASSUME result \in BindingReasons
       PROVE  result = FirstFailure(extra)
  BY <1>4, <1>7, <1>8, <1>9, <1>10
<1>11. ASSUME FirstFailure(extra) \in BindingReasons
       PROVE  \E i \in 1 .. 4 : /\ extra[i] = FirstFailure(extra)
                                /\ \A j \in 1 .. i - 1 : extra[j] = Ok
  BY <1>1, <1>5, <1>6, <1>11, FirstFailureIs
<1>12. ASSUME result = "request_binding"
       PROVE  ~ BindingWellFormed(ext)
  <2>1. PICK i \in 1 .. 4 : extra[i] = "request_binding"
    BY <1>10, <1>11, <1>12 DEF BindingReasons
  <2>2. i = 3
    BY <1>6, <2>1 DEF Ok
  <2> QED BY <1>6, <2>1, <2>2 DEF Ok
<1>13. ASSUME result = "request_mismatch"
       PROVE  /\ BindingWellFormed(ext)
              /\ \/ ext.requestHash # Hex(64, t.request_hash)
                 \/ ext.requestBindingParams # t.binding_params
  <2>1. PICK i \in 1 .. 4 : /\ extra[i] = "request_mismatch"
                            /\ \A j \in 1 .. i - 1 : extra[j] = Ok
    BY <1>10, <1>11, <1>13 DEF BindingReasons
  <2>2. i = 4
    BY <1>6, <2>1 DEF Ok
  <2>3. extra[3] = Ok /\ extra[4] # Ok
    BY <2>1, <2>2 DEF Ok
  <2> QED BY <1>6, <2>3 DEF Ok
<1> QED BY <1>12, <1>13 DEF ext, result

-----------------------------------------------------------------------------
(***************************************************************************)
(* The values that a raw invoice and a payload may have: V is any set, of  *)
(* which they are made.                                                    *)
(***************************************************************************)
Option(S) == {s \in Seq(S) : Len(s) <= 1}

RawInvoices(V) ==
  [signed : BOOLEAN, payment_hashes : Seq(V), inline_descriptions : Nat,
   description_hashes : Seq(V), amount_pico_btc : Option(Nat),
   payee : Option(V), currency : V, timestamp : 0 .. UMax,
   expiry : Option(0 .. UMax)]

JsonValues(V) == {Absent, NonString} \cup {Text(v) : v \in V}
                 \cup {Hex(k, v) : k \in Nat, v \in V}

InvoiceValues(V) == JsonValues(V) \cup {Bolt11(raw) : raw \in RawInvoices(V)}

TypedPayloads(V) ==
  [accepted : [scheme : V, network : V, amount : V, asset : V, pay_to : V,
               max_timeout_seconds : V,
               extra : [assetTransferMethod : V, paymentFlow : V, requestHash : V,
                        requestBindingProfile : V, requestBindingParams : V,
                        invoice : InvoiceValues(V)]],
   preimage : JsonValues(V)]

\* What the settings and the binding give to a sale's terms.
IsTerms(t) ==
  /\ t.amount_msat \in Nat /\ t.max_timeout_secs \in 0 .. UMax
  /\ t.clock_skew_secs \in 0 .. UMax
  /\ is_valid_http_params(t.binding_params)

\* The checks on a decoded invoice, said of the raw one.
LEMMA DecodesFor ==
  ASSUME NEW V, NEW raw \in RawInvoices(V), NEW t, IsTerms(t), NEW now \in 0 .. UMax
  PROVE  LET inv == decode(Bolt11(raw))
         IN  (/\ Decodes(Bolt11(raw))
              /\ Passes(InvoiceChecks(inv, t, now))
              /\ Passes(ExpiryChecks(inv, t, now)))
             <=> /\ Len(raw.payment_hashes) = 1
                 /\ IsForSale(raw, t)
                 /\ InItsLife(raw, t, now)
<1> DEFINE inv == decode(Bolt11(raw))
           amount == t.amount_msat
<1>1. /\ raw.payment_hashes \in Seq(V) /\ raw.description_hashes \in Seq(V)
      /\ raw.amount_pico_btc \in Seq(Nat) /\ Len(raw.amount_pico_btc) <= 1
      /\ raw.payee \in Seq(V) /\ Len(raw.payee) <= 1
      /\ raw.expiry \in Seq(0 .. UMax) /\ Len(raw.expiry) <= 1
      /\ raw.timestamp \in 0 .. UMax
  BY DEF RawInvoices, Option
<1>2. /\ inv.currency = raw.currency
      /\ inv.amount_msat = [i \in DOMAIN raw.amount_pico_btc |->
                               raw.amount_pico_btc[i] \div 10]
      /\ inv.payment_hash = raw.payment_hashes[1]
      /\ inv.description_hash = IF /\ Len(raw.description_hashes) = 1
                                   /\ raw.inline_descriptions = 0
                                THEN raw.description_hashes
                                ELSE <<>>
      /\ inv.payee = raw.payee[1]
      /\ inv.created = raw.timestamp
      /\ inv.expiry = IF raw.expiry = <<>> THEN DEFAULT_INVOICE_EXPIRY_SECS
                                           ELSE raw.expiry[1]
  BY DEF decode, Bolt11
<1>3. Decodes(Bolt11(raw))
        <=> /\ raw.signed
            /\ Len(raw.payment_hashes) = 1
            /\ \A i \in DOMAIN raw.amount_pico_btc :
                 /\ raw.amount_pico_btc[i] <= UMax
                 /\ raw.amount_pico_btc[i] % 10 = 0
            /\ raw.payee # <<>>
  BY DEF Decodes, Bolt11
<1> HIDE DEF inv
<1>4. Passes(InvoiceChecks(inv, t, now))
        <=> /\ inv.description_hash = <<t.request_hash>>
            /\ inv.payee = t.pay_to
            /\ inv.currency = currency(t.network)
            /\ inv.amount_msat = <<amount>>
            /\ inv.expiry = t.max_timeout_secs
            /\ inv.created <= saturating_add(now, t.clock_skew_secs)
  <2> DEFINE checks == InvoiceChecks(inv, t, now)
  <2>1. Passes(checks) <=> \A i \in 1 .. 7 : checks[i] = Ok
    <3>1. DOMAIN checks = 1 .. 7
      BY DEF InvoiceChecks
    <3> HIDE DEF checks
    <3> QED BY <3>1 DEF Passes
  <2>2. (\A i \in 1 .. 7 : checks[i] = Ok)
          <=> /\ checks[1] = Ok /\ checks[2] = Ok /\ checks[3] = Ok /\ checks[4] = Ok
              /\ checks[5] = Ok /\ checks[6] = Ok /\ checks[7] = Ok
    <3> HIDE DEF checks
    <3> QED OBVIOUS
  <2>3. /\ checks[1] = Ok <=> inv.description_hash # <<>>
        /\ checks[2] = Ok <=> inv.description_hash = <<t.request_hash>>
        /\ checks[3] = Ok <=> inv.payee = t.pay_to
        /\ checks[4] = Ok <=> inv.currency = currency(t.network)
        /\ checks[5] = Ok <=> inv.amount_msat = <<amount>>
        /\ checks[6] = Ok <=> inv.expiry = t.max_timeout_secs
        /\ checks[7] = Ok <=> inv.created <= saturating_add(now, t.clock_skew_secs)
    BY DEF InvoiceChecks, Check, Ok
  <2>4. <<t.request_hash>> # <<>>
    OBVIOUS
  <2> HIDE DEF checks
  <2>5. Passes(checks)
          <=> /\ inv.description_hash = <<t.request_hash>>
              /\ inv.payee = t.pay_to
              /\ inv.currency = currency(t.network)
              /\ inv.amount_msat = <<amount>>
              /\ inv.expiry = t.max_timeout_secs
              /\ inv.created <= saturating_add(now, t.clock_skew_secs)
    BY <2>1, <2>2, <2>3, <2>4
  <2> QED BY <2>5 DEF checks
<1>5. Passes(ExpiryChecks(inv, t, now)) <=> now <= last_valid(inv, t)
  <2> DEFINE checks == ExpiryChecks(inv, t, now)
  <2>1. Passes(checks) <=> checks[1] = Ok
    BY DEF Passes, ExpiryChecks
  <2>2. checks[1] = Ok <=> now <= last_valid(inv, t)
    BY DEF ExpiryChecks, Check, Ok
  <2> QED BY <2>1, <2>2
<1>6. inv.description_hash = <<t.request_hash>>
        <=> raw.description_hashes = <<t.request_hash>> /\ raw.inline_descriptions = 0
  <2>1. <<t.request_hash>> # <<>> /\ Len(<<t.request_hash>>) = 1
    OBVIOUS
  <2> DEFINE committed == Len(raw.description_hashes) = 1 /\ raw.inline_descriptions = 0
  <2>2. CASE committed
    BY <1>2, <2>1, <2>2
  <2>3. CASE ~ committed
    BY <1>2, <2>1, <2>3
  <2> QED BY <2>2, <2>3
<1>7. raw.payee # <<>> /\ inv.payee = t.pay_to <=> raw.payee = <<t.pay_to>>
  BY <1>1, <1>2
<1>8. inv.expiry = t.max_timeout_secs
        <=> \/ raw.expiry = <<t.max_timeout_secs>>
            \/ raw.expiry = <<>> /\ t.max_timeout_secs = DEFAULT_INVOICE_EXPIRY_SECS
  BY <1>1, <1>2
<1>9. (/\ inv.amount_msat = <<amount>>
       /\ \A i \in DOMAIN raw.amount_pico_btc :
            /\ raw.amount_pico_btc[i] <= UMax
            /\ raw.amount_pico_btc[i] % 10 = 0)
        <=> raw.amount_pico_btc = <<10 * amount>> /\ 10 * amount <= UMax
  <2>1. amount \in Nat
    BY DEF IsTerms
  <2>2. ASSUME inv.amount_msat = <<amount>>,
               \A i \in DOMAIN raw.amount_pico_btc :
                 /\ raw.amount_pico_btc[i] <= UMax
                 /\ raw.amount_pico_btc[i] % 10 = 0
        PROVE  raw.amount_pico_btc = <<10 * amount>> /\ 10 * amount <= UMax
    <3> DEFINE pico == raw.amount_pico_btc[1]
    <3>1. DOMAIN raw.amount_pico_btc = {1} /\ Len(raw.amount_pico_btc) = 1
      <4>1. DOMAIN inv.amount_msat = DOMAIN raw.amount_pico_btc
        BY <1>2
      <4>2. DOMAIN <<amount>> = {1}
        OBVIOUS
      <4>3. DOMAIN raw.amount_pico_btc = {1}
        BY <4>1, <4>2, <2>2
      <4>4. Len(raw.amount_pico_btc) \in Nat /\ 1 \in 1 .. Len(raw.amount_pico_btc)
        BY <1>1, <4>3, LenProperties
      <4> DEFINE n == Len(raw.amount_pico_btc)
      <4>5. n \in Nat /\ n <= 1 /\ 1 \in 1 .. n
        BY <1>1, <4>4
      <4>6. n = 1
        <5> HIDE DEF n
        <5> QED BY <4>5
      <4> QED BY <4>3, <4>6
    <3>2. pico \in Nat /\ pico <= UMax /\ pico % 10 = 0
      BY <1>1, <2>2, <3>1
    <3>3. pico \div 10 = amount
      BY <1>2, <2>2, <3>1
    <3>4. pico = 10 * amount
      <4> HIDE DEF pico
      <4>1. pico = (10 * (pico \div 10)) + (pico % 10)
        BY <3>2
      <4> QED BY <4>1, <2>1, <3>2, <3>3
    <3> QED BY <1>1, <3>1, <3>2, <3>4
  <2>3. ASSUME raw.amount_pico_btc = <<10 * amount>>, 10 * amount <= UMax
        PROVE  /\ inv.amount_msat = <<amount>>
               /\ \A i \in DOMAIN raw.amount_pico_btc :
                    /\ raw.amount_pico_btc[i] <= UMax
                    /\ raw.amount_pico_btc[i] % 10 = 0
    <3>1. (10 * amount) \div 10 = amount /\ (10 * amount) % 10 = 0
      BY <2>1
    <3>2. DOMAIN raw.amount_pico_btc = {1} /\ raw.amount_pico_btc[1] = 10 * amount
      BY <2>3
    <3> QED BY <1>2, <2>3, <3>1, <3>2
  <2> QED BY <2>2, <2>3
<1>10. inv.expiry = t.max_timeout_secs =>
         (inv.created <= saturating_add(now, t.clock_skew_secs)
            /\ now <= last_valid(inv, t)
          <=> InItsLife(raw, t, now))
  <2> DEFINE skew == t.clock_skew_secs
             life == t.max_timeout_secs
             made == raw.timestamp
  <2>1. skew \in 0 .. UMax /\ life \in 0 .. UMax /\ made \in 0 .. UMax /\ UMax \in Nat
    BY <1>1, LnbtcAssumption DEF IsTerms
  <2>2. inv.created = made
    BY <1>2
  <2>3. InItsLife(raw, t, now) <=> made <= now + skew /\ now <= made + life + skew
    BY DEF InItsLife
  <2>4. ASSUME inv.expiry = life
        PROVE  last_valid(inv, t) = saturating_add(saturating_add(made, life), skew)
    BY <2>2, <2>4 DEF last_valid, end
  <2> HIDE DEF skew, life, made
  <2>5. /\ made <= saturating_add(now, skew) <=> made <= now + skew
        /\ now <= saturating_add(saturating_add(made, life), skew)
             <=> now <= made + life + skew
    BY <2>1 DEF saturating_add
  <2> QED BY <2>2, <2>3, <2>4, <2>5 DEF skew, life, made
<1>11. inv.currency = raw.currency
  BY <1>2
<1> QED
  BY <1>3, <1>4, <1>5, <1>6, <1>7, <1>8, <1>9, <1>10, <1>11 DEF IsForSale, inv

\* The payload's preimage is the one that opens the invoice.
LEMMA PreimageOpens ==
  ASSUME NEW V, NEW preimage \in JsonValues(V), NEW inv
  PROVE  Passes(PreimageChecks(preimage, inv))
           <=> \E p \in V : preimage = Hex(64, p) /\ Sha256(p) = inv.payment_hash
<1> DEFINE checks == PreimageChecks(preimage, inv)
<1>1. Passes(checks) <=> checks[1] = Ok /\ checks[2] = Ok /\ checks[3] = Ok /\ checks[4] = Ok
  <2>1. DOMAIN checks = 1 .. 4
    BY DEF PreimageChecks
  <2> HIDE DEF checks
  <2> QED BY <2>1 DEF Passes
<1>2. /\ checks[1] = Ok <=> preimage # Absent
      /\ checks[2] = Ok <=> IsHex(preimage)
      /\ checks[3] = Ok <=> (IsHex(preimage) => preimage[2] = 64)
      /\ checks[4] = Ok <=> (IsHex(preimage) => Sha256(preimage[3]) = inv.payment_hash)
  BY DEF PreimageChecks, Check, Ok
<1> HIDE DEF checks
<1>3. ASSUME NEW p \in V, preimage = Hex(64, p)
      PROVE  /\ preimage # Absent /\ IsHex(preimage)
             /\ preimage[2] = 64 /\ preimage[3] = p
  BY <1>3 DEF Hex, IsHex, Absent
<1>4. ASSUME IsHex(preimage), preimage[2] = 64
      PROVE  \E p \in V : preimage = Hex(64, p)
  <2>1. CASE preimage \in {Absent, NonString}
    BY <1>4, <2>1 DEF IsHex, Absent, NonString
  <2>2. CASE \E v \in V : preimage = Text(v)
    BY <1>4, <2>2 DEF IsHex, Text
  <2>3. CASE \E k \in Nat, v \in V : preimage = Hex(k, v)
    BY <1>4, <2>3 DEF Hex
  <2> QED BY <2>1, <2>2, <2>3 DEF JsonValues
<1> QED BY <1>1, <1>2, <1>3, <1>4 DEF checks

\* The accepted requirements are the server's own offer of these terms.
LEMMA EchoIs ==
  ASSUME NEW V, NEW payload \in TypedPayloads(V), NEW t, IsTerms(t)
  PROVE  (/\ Passes(CoreChecks(payload.accepted, t))
          /\ Passes(check_extra(payload.accepted.extra, t)))
         <=> EchoesOffer(payload.accepted, requirements(t, payload.accepted.extra.invoice))
<1> DEFINE acc == payload.accepted
           ext == acc.extra
           core == CoreChecks(acc, t)
           checks == check_extra(ext, t)
<1>1. Passes(core) <=> \A i \in 1 .. 6 : core[i] = Ok
  <2>1. DOMAIN core = 1 .. 6
    BY DEF CoreChecks
  <2> HIDE DEF core
  <2> QED BY <2>1 DEF Passes
<1>2. Passes(checks) <=> \A i \in 1 .. 4 : checks[i] = Ok
  <2>1. DOMAIN checks = 1 .. 4
    BY DEF check_extra
  <2> HIDE DEF checks
  <2> QED BY <2>1 DEF Passes
<1>3. /\ core[1] = Ok <=> acc.scheme = SCHEME
      /\ core[2] = Ok <=> acc.network = caip2(t.network)
      /\ core[3] = Ok <=> acc.amount = Dec(t.amount_msat)
      /\ core[4] = Ok <=> acc.asset = ASSET
      /\ core[5] = Ok <=> acc.pay_to = Pubkey(t.pay_to)
      /\ core[6] = Ok <=> acc.max_timeout_seconds = t.max_timeout_secs
  <2> HIDE DEF acc
  <2> QED BY DEF CoreChecks, Check, Ok
<1>4. /\ checks[1] = Ok <=> ext.assetTransferMethod \in {Absent, ASSET_TRANSFER_METHOD}
      /\ checks[2] = Ok <=> ext.paymentFlow = PAYMENT_FLOW
      /\ checks[3] = Ok <=> /\ IsHex(ext.requestHash) /\ ext.requestHash[2] = 64
                            /\ ext.requestBindingProfile = Text(HTTP_PROFILE)
                            /\ is_valid_http_params(ext.requestBindingParams)
      /\ checks[4] = Ok <=> /\ ext.requestHash = Hex(64, t.request_hash)
                            /\ ext.requestBindingParams = t.binding_params
  <2> HIDE DEF ext
  <2> QED BY DEF check_extra, Check, Ok
<1> DEFINE Same(method) ==
             /\ acc.scheme = SCHEME /\ acc.network = caip2(t.network)
             /\ acc.amount = Dec(t.amount_msat) /\ acc.asset = ASSET
             /\ acc.pay_to = Pubkey(t.pay_to)
             /\ acc.max_timeout_seconds = t.max_timeout_secs
             /\ ext.assetTransferMethod = method
             /\ ext.paymentFlow = PAYMENT_FLOW
             /\ ext.requestHash = Hex(64, t.request_hash)
             /\ ext.requestBindingProfile = Text(HTTP_PROFILE)
             /\ ext.requestBindingParams = t.binding_params
<1>5. Passes(core) /\ Passes(checks) <=> Same(Absent) \/ Same(ASSET_TRANSFER_METHOD)
  <2>1. IsHex(Hex(64, t.request_hash)) /\ Hex(64, t.request_hash)[2] = 64
    BY DEF IsHex, Hex
  <2>2. is_valid_http_params(t.binding_params)
    BY DEF IsTerms
  <2>3. Passes(core) <=> /\ core[1] = Ok /\ core[2] = Ok /\ core[3] = Ok
                         /\ core[4] = Ok /\ core[5] = Ok /\ core[6] = Ok
    <3> HIDE DEF core
    <3> QED BY <1>1
  <2>4. Passes(checks) <=> /\ checks[1] = Ok /\ checks[2] = Ok
                           /\ checks[3] = Ok /\ checks[4] = Ok
    <3> HIDE DEF checks
    <3> QED BY <1>2
  <2> HIDE DEF core, checks, acc, ext
  <2> QED BY <2>1, <2>2, <2>3, <2>4, <1>3, <1>4
<1> DEFINE offer == requirements(t, ext.invoice)
           offer2 == [offer EXCEPT !.extra.assetTransferMethod = Absent]
           Rec(method) ==
             [scheme |-> SCHEME, network |-> caip2(t.network),
              amount |-> Dec(t.amount_msat), asset |-> ASSET,
              pay_to |-> Pubkey(t.pay_to),
              max_timeout_seconds |-> t.max_timeout_secs,
              extra |-> [assetTransferMethod   |-> method,
                         paymentFlow           |-> PAYMENT_FLOW,
                         requestHash           |-> Hex(64, t.request_hash),
                         requestBindingProfile |-> Text(HTTP_PROFILE),
                         requestBindingParams  |-> t.binding_params,
                         invoice               |-> ext.invoice]]
<1>6. offer = Rec(ASSET_TRANSFER_METHOD) /\ offer2 = Rec(Absent)
  <2> HIDE DEF ext
  <2> QED BY DEF requirements
<1>7. ASSUME NEW method PROVE acc = Rec(method) <=> Same(method)
  <2>1. acc = [scheme |-> acc.scheme, network |-> acc.network, amount |-> acc.amount,
               asset |-> acc.asset, pay_to |-> acc.pay_to,
               max_timeout_seconds |-> acc.max_timeout_seconds, extra |-> acc.extra]
    BY DEF TypedPayloads
  <2>2. ext = [assetTransferMethod |-> ext.assetTransferMethod,
               paymentFlow |-> ext.paymentFlow, requestHash |-> ext.requestHash,
               requestBindingProfile |-> ext.requestBindingProfile,
               requestBindingParams |-> ext.requestBindingParams,
               invoice |-> ext.invoice]
    BY DEF TypedPayloads
  <2>3. ASSUME Same(method) PROVE acc = Rec(method)
    BY <2>1, <2>2, <2>3
  <2>4. ASSUME acc = Rec(method) PROVE Same(method)
    <3> DEFINE r == Rec(method)
    <3>1. /\ r.scheme = SCHEME /\ r.network = caip2(t.network)
          /\ r.amount = Dec(t.amount_msat) /\ r.asset = ASSET
          /\ r.pay_to = Pubkey(t.pay_to)
          /\ r.max_timeout_seconds = t.max_timeout_secs
          /\ r.extra.assetTransferMethod = method
          /\ r.extra.paymentFlow = PAYMENT_FLOW
          /\ r.extra.requestHash = Hex(64, t.request_hash)
          /\ r.extra.requestBindingProfile = Text(HTTP_PROFILE)
          /\ r.extra.requestBindingParams = t.binding_params
      <4> HIDE DEF ext
      <4> QED OBVIOUS
    <3>2. acc = r
      BY <2>4
    <3> HIDE DEF r
    <3> QED BY <3>1, <3>2
  <2> QED BY <2>3, <2>4
<1>8. EchoesOffer(acc, offer) <=> acc = offer \/ acc = offer2
  <2> HIDE DEF acc, offer
  <2> QED BY DEF EchoesOffer
<1> HIDE DEF Rec, Same, offer, offer2, core, checks
<1>9. EchoesOffer(acc, offer) <=> Same(ASSET_TRANSFER_METHOD) \/ Same(Absent)
  BY <1>6, <1>7, <1>8
<1> QED BY <1>5, <1>9 DEF offer, core, checks

\* Who echoes an offer echoes its invoice.
LEMMA OfferedInvoice ==
  ASSUME NEW accepted, NEW t, NEW invoice,
         EchoesOffer(accepted, requirements(t, invoice))
  PROVE  accepted.extra.invoice = invoice
<1> DEFINE offer == requirements(t, invoice)
           short == [offer EXCEPT !.extra.assetTransferMethod = Absent]
<1>1. offer.extra.invoice = invoice /\ short.extra.invoice = invoice
  BY DEF requirements
<1>2. accepted = offer \/ accepted = short
  BY DEF EchoesOffer
<1> HIDE DEF offer, short
<1> QED BY <1>1, <1>2

\* verify accepts exactly the valid proofs of payment: for every payload, any
\* terms that bind a valid list of headers and every time, it returns Ok if and
\* only if some invoice and preimage make the payload a ValidProof.
THEOREM VerifyExact ==
  ASSUME NEW V, NEW payload \in TypedPayloads(V), NEW t, IsTerms(t), NEW now \in 0 .. UMax
  PROVE  verify(payload, t, now) = Ok
           <=> \E raw \in RawInvoices(V), p \in V : ValidProof(payload, raw, p, t, now)
<1> DEFINE accepted == payload.accepted
           invoice  == accepted.extra.invoice
           inv      == decode(invoice)
           preimage == payload.preimage
           Proof    == \E raw \in RawInvoices(V), p \in V :
                         ValidProof(payload, raw, p, t, now)
           Echoes   == EchoesOffer(accepted, requirements(t, invoice))
           string   == InvoiceStringChecks(invoice)
           Opens    == Passes(PreimageChecks(preimage, inv))
           Issued   == Passes(InvoiceChecks(inv, t, now))
           Timely   == Passes(ExpiryChecks(inv, t, now))
<1>1. preimage \in JsonValues(V) /\ invoice \in InvoiceValues(V)
  BY DEF TypedPayloads
<1>2. verify(payload, t, now) = Ok
        <=> Echoes /\ Passes(string) /\ Issued /\ Opens /\ Timely
  BY VerifyAccepts, EchoIs DEF Accepts
<1>3. Passes(string) <=> IsString(invoice) /\ invoice # EmptyString /\ Decodes(invoice)
  <2>1. Passes(string) <=> string[1] = Ok /\ string[2] = Ok
    <3>1. DOMAIN string = 1 .. 2
      BY DEF InvoiceStringChecks
    <3> HIDE DEF string
    <3> QED BY <3>1 DEF Passes
  <2>2. /\ string[1] = Ok <=> IsString(invoice) /\ invoice # EmptyString
        /\ string[2] = Ok <=> Decodes(invoice)
    <3> HIDE DEF invoice
    <3> QED BY DEF InvoiceStringChecks, Check, Ok
  <2> HIDE DEF string
  <2> QED BY <2>1, <2>2
<1>4. Opens <=> \E p \in V : preimage = Hex(64, p) /\ Sha256(p) = inv.payment_hash
  BY <1>1, PreimageOpens
<1>5. ASSUME NEW raw \in RawInvoices(V), invoice = Bolt11(raw)
      PROVE  Passes(string) /\ Issued /\ Timely
               <=> /\ Len(raw.payment_hashes) = 1
                   /\ IsForSale(raw, t) /\ InItsLife(raw, t, now)
  <2>1. IsString(Bolt11(raw)) /\ Bolt11(raw) # EmptyString
    BY DEF IsString, Bolt11, Absent, NonString, EmptyString, Hex
  <2> HIDE DEF invoice, string
  <2> QED BY <1>3, <1>5, <2>1, DecodesFor
<1>6. ASSUME NEW raw \in RawInvoices(V)
      PROVE  EchoesOffer(accepted, requirements(t, Bolt11(raw)))
               <=> Echoes /\ invoice = Bolt11(raw)
  <2>1. EchoesOffer(accepted, requirements(t, Bolt11(raw))) => invoice = Bolt11(raw)
    BY OfferedInvoice
  <2> HIDE DEF invoice
  <2> QED BY <2>1
<1>7. ASSUME NEW raw \in RawInvoices(V), NEW p \in V
      PROVE  ValidProof(payload, raw, p, t, now)
               <=> /\ Echoes /\ invoice = Bolt11(raw)
                   /\ preimage = Hex(64, p) /\ raw.payment_hashes = <<Sha256(p)>>
                   /\ IsForSale(raw, t) /\ InItsLife(raw, t, now)
  <2> HIDE DEF Echoes, invoice
  <2> QED BY <1>6 DEF ValidProof
<1>8. ASSUME NEW raw \in RawInvoices(V), invoice = Bolt11(raw),
             Len(raw.payment_hashes) = 1, NEW p
      PROVE  Sha256(p) = inv.payment_hash <=> raw.payment_hashes = <<Sha256(p)>>
  <2>1. inv.payment_hash = raw.payment_hashes[1]
    BY <1>8 DEF decode, Bolt11
  <2>2. raw.payment_hashes \in Seq(V)
    BY DEF RawInvoices
  <2> HIDE DEF inv
  <2> QED BY <1>8, <2>1, <2>2
<1>9. ASSUME Decodes(invoice) PROVE \E raw \in RawInvoices(V) : invoice = Bolt11(raw)
  <2>1. ASSUME invoice \in JsonValues(V) PROVE FALSE
    <3>1. Len(invoice) = 2 /\ invoice[1] = "bolt11"
      BY <1>9 DEF Decodes
    <3> HIDE DEF invoice
    <3> QED BY <2>1, <3>1 DEF JsonValues, Absent, NonString, Text, Hex
  <2> HIDE DEF invoice
  <2> QED BY <1>1, <2>1 DEF InvoiceValues
<1> HIDE DEF accepted, invoice, inv, preimage, Echoes, string, Opens, Issued, Timely
<1>10. ASSUME Echoes, Passes(string), Issued, Opens, Timely
       PROVE  Proof
  <2>1. PICK raw \in RawInvoices(V) : invoice = Bolt11(raw)
    BY <1>3, <1>9, <1>10
  <2>2. PICK p \in V : preimage = Hex(64, p) /\ Sha256(p) = inv.payment_hash
    BY <1>4, <1>10
  <2>3. ValidProof(payload, raw, p, t, now)
    BY <1>5, <1>7, <1>8, <1>10, <2>1, <2>2
  <2> QED BY <2>3
<1>11. ASSUME Proof
       PROVE  Echoes /\ Passes(string) /\ Issued /\ Opens /\ Timely
  <2>1. PICK raw \in RawInvoices(V), p \in V : ValidProof(payload, raw, p, t, now)
    BY <1>11
  <2>2. /\ Echoes /\ invoice = Bolt11(raw)
        /\ preimage = Hex(64, p) /\ raw.payment_hashes = <<Sha256(p)>>
        /\ IsForSale(raw, t) /\ InItsLife(raw, t, now)
    BY <1>7, <2>1
  <2>3. Len(raw.payment_hashes) = 1
    BY <2>2
  <2> QED BY <1>4, <1>5, <1>8, <2>2, <2>3
<1> QED BY <1>2, <1>10, <1>11
=============================================================================
