------------------------------- MODULE Lnbtc -------------------------------
(***************************************************************************)
(* The exact/lnbtc scheme of src/x402/lnbtc.rs: the terms of a sale, the   *)
(* decoding of an invoice, the checks on an issued invoice and on a proof  *)
(* of payment.  Everything here is a function of its arguments.            *)
(*                                                                         *)
(* The result of a check is Ok or the reason it fails with; the code makes *)
(* its checks in order and returns the first such reason.                  *)
(***************************************************************************)
EXTENDS Binding

CONSTANTS UMax,                          \* u64::MAX
          DEFAULT_INVOICE_EXPIRY_SECS,
          REPLAY_RETENTION_SECS

ASSUME LnbtcAssumption == /\ UMax \in Nat
                          /\ DEFAULT_INVOICE_EXPIRY_SECS \in Nat
                          /\ REPLAY_RETENTION_SECS \in Nat

SCHEME                == "exact"
ASSET                 == "BTC"
ASSET_TRANSFER_METHOD == Text("bolt11")
PAYMENT_FLOW          == Text("upfront")

\* Mutant: wrapping instead of saturating addition.
saturating_add_Wraps(a, b) == (a + b) % (UMax + 1)

saturating_add(a, b) == IF a + b <= UMax THEN a + b ELSE UMax

Network == {"mainnet", "testnet", "signet"}   \* from_lnd maps the name to itself
caip2(network) == <<"lnbtc", network>>
currency(network) ==
  [mainnet |-> "bc", testnet |-> "tb", signet |-> "tbs"][network]

Ok == "ok"
Check(condition, reason) == IF condition THEN Ok ELSE reason
Passes(checks) == \A i \in DOMAIN checks : checks[i] = Ok
FirstFailure(checks) ==
  LET failing == {i \in DOMAIN checks : checks[i] # Ok}
  IN  IF failing = {}
      THEN Ok
      ELSE checks[CHOOSE i \in failing : \A j \in failing : i <= j]

-----------------------------------------------------------------------------
(***************************************************************************)
(* Terms are [network, pay_to, amount_msat, max_timeout_secs,              *)
(* request_hash, binding_params, clock_skew_secs]; requirements is what a  *)
(* challenge offers, and what an honest payer echoes as "accepted".        *)
(***************************************************************************)
Pubkey(k) == <<"pubkey", k>>   \* PublicKey::to_string

requirements(terms, invoice) ==
  [scheme              |-> SCHEME,
   network             |-> caip2(terms.network),
   amount              |-> Dec(terms.amount_msat),
   asset               |-> ASSET,
   pay_to              |-> Pubkey(terms.pay_to),
   max_timeout_seconds |-> terms.max_timeout_secs,
   extra |-> [assetTransferMethod   |-> ASSET_TRANSFER_METHOD,
              paymentFlow           |-> PAYMENT_FLOW,
              requestHash           |-> Hex(64, terms.request_hash),
              requestBindingProfile |-> Text(HTTP_PROFILE),
              requestBindingParams  |-> terms.binding_params,
              invoice               |-> invoice]]

-----------------------------------------------------------------------------
(***************************************************************************)
(* The invoice string Bolt11(raw) stands for the signed raw invoice raw;   *)
(* any other string does not parse.  An optional field of raw is a         *)
(* sequence of at most one element, a repeatable one a sequence; payee is  *)
(* empty when the key is neither given nor recoverable.                    *)
(***************************************************************************)
Bolt11(raw) == <<"bolt11", raw>>

\* The conditions under which Invoice::decode returns Ok.
Decodes(invoice) ==
  /\ Len(invoice) = 2 /\ invoice[1] = "bolt11"
  /\ LET raw == invoice[2]
     IN  /\ raw.signed
         /\ Len(raw.payment_hashes) = 1
         /\ \A i \in DOMAIN raw.amount_pico_btc :
              /\ raw.amount_pico_btc[i] <= UMax   \* checked_mul
              /\ raw.amount_pico_btc[i] % 10 = 0
         /\ raw.payee # <<>>

\* Mutant: a description hash counts even beside an inline description.
decode_AnyDescription(invoice) ==
  LET raw == invoice[2]
  IN  [currency     |-> raw.currency,
       amount_msat  |-> [i \in DOMAIN raw.amount_pico_btc |->
                           raw.amount_pico_btc[i] \div 10],
       payment_hash |-> raw.payment_hashes[1],
       description_hash |-> IF Len(raw.description_hashes) = 1
                            THEN raw.description_hashes
                            ELSE <<>>,
       payee   |-> raw.payee[1],
       created |-> raw.timestamp,
       expiry  |-> IF raw.expiry = <<>> THEN DEFAULT_INVOICE_EXPIRY_SECS
                                        ELSE raw.expiry[1]]

decode(invoice) ==
  LET raw == invoice[2]
  IN  [currency     |-> raw.currency,
       amount_msat  |-> [i \in DOMAIN raw.amount_pico_btc |->
                           raw.amount_pico_btc[i] \div 10],
       payment_hash |-> raw.payment_hashes[1],
       description_hash |-> IF /\ Len(raw.description_hashes) = 1
                               /\ raw.inline_descriptions = 0
                            THEN raw.description_hashes
                            ELSE <<>>,
       payee   |-> raw.payee[1],
       created |-> raw.timestamp,
       expiry  |-> IF raw.expiry = <<>> THEN DEFAULT_INVOICE_EXPIRY_SECS
                                        ELSE raw.expiry[1]]

end(inv) == saturating_add(inv.created, inv.expiry)

\* Mutant: the invoice's commitment to a request is not looked at.
InvoiceChecks_NoCommitment(inv, terms, now) ==
  << Check(inv.payee = terms.pay_to, "payee_mismatch"),
     Check(inv.currency = currency(terms.network), "currency_mismatch"),
     Check(inv.amount_msat = <<terms.amount_msat>>, "invoice_amount_mismatch"),
     Check(inv.expiry = terms.max_timeout_secs, "expiry_mismatch"),
     Check(inv.created <= saturating_add(now, terms.clock_skew_secs),
           "created_in_future") >>

\* Mutant: no skew allowance for an invoice stamped by a clock that is ahead.
InvoiceChecks_StrictCreation(inv, terms, now) ==
  << Check(inv.description_hash = <<terms.request_hash>>, "invoice_request_mismatch"),
     Check(inv.payee = terms.pay_to, "payee_mismatch"),
     Check(inv.currency = currency(terms.network), "currency_mismatch"),
     Check(inv.amount_msat = <<terms.amount_msat>>, "invoice_amount_mismatch"),
     Check(inv.expiry = terms.max_timeout_secs, "expiry_mismatch"),
     Check(inv.created <= now, "created_in_future") >>

InvoiceChecks(inv, terms, now) ==
  << Check(inv.description_hash # <<>>, "description"),
     Check(inv.description_hash = <<terms.request_hash>>, "invoice_request_mismatch"),
     Check(inv.payee = terms.pay_to, "payee_mismatch"),
     Check(inv.currency = currency(terms.network), "currency_mismatch"),
     Check(inv.amount_msat = <<terms.amount_msat>>, "invoice_amount_mismatch"),
     Check(inv.expiry = terms.max_timeout_secs, "expiry_mismatch"),
     Check(inv.created <= saturating_add(now, terms.clock_skew_secs),
           "created_in_future") >>

\* Mutant: a fresh invoice is checked for expiry only.
IssuedInvoiceOk_ExpiryOnly(invoice, terms, now) ==
  Decodes(invoice) /\ now <= end(decode(invoice))

\* check_issued_invoice returning Ok.
IssuedInvoiceOk(invoice, terms, now) ==
  /\ Decodes(invoice)
  /\ Passes(InvoiceChecks(decode(invoice), terms, now))
  /\ now <= end(decode(invoice))

-----------------------------------------------------------------------------
(***************************************************************************)
(* A payload is [accepted, preimage]: the echoed requirements and the      *)
(* preimage member of the scheme's own object.                             *)
(***************************************************************************)
\* What a payer sends who echoes the requirements req and shows preimage p.
HonestPayload(req, p) == [accepted |-> req, preimage |-> Hex(64, p)]

CoreChecks(accepted, terms) ==
  << Check(accepted.scheme = SCHEME, "unsupported_scheme"),
     Check(accepted.network = caip2(terms.network), "network_mismatch"),
     Check(accepted.amount = Dec(terms.amount_msat), "amount_mismatch"),
     Check(accepted.asset = ASSET, "asset"),
     Check(accepted.pay_to = Pubkey(terms.pay_to), "pay_to_mismatch"),
     Check(accepted.max_timeout_seconds = terms.max_timeout_secs,
           "max_timeout_mismatch") >>

IsHex(w)    == Len(w) = 3 /\ w[1] = "hex"
IsString(w) == w # Absent /\ w # NonString

check_extra(extra, terms) ==
  << Check(extra.assetTransferMethod \in {Absent, ASSET_TRANSFER_METHOD},
           "asset_transfer_method"),
     Check(extra.paymentFlow = PAYMENT_FLOW, "payment_flow"),
     Check(/\ IsHex(extra.requestHash) /\ extra.requestHash[2] = 64
           /\ extra.requestBindingProfile = Text(HTTP_PROFILE)
           /\ is_valid_http_params(extra.requestBindingParams), "request_binding"),
     Check(/\ extra.requestHash = Hex(64, terms.request_hash)
           /\ extra.requestBindingParams = terms.binding_params, "request_mismatch") >>

\* The accepted invoice is a non-empty string, and it decodes.
InvoiceStringChecks(invoice) ==
  << Check(IsString(invoice) /\ invoice # EmptyString, "invoice_missing"),
     Check(Decodes(invoice), "decode_failed") >>

\* Mutant: a preimage is checked only if there is one.
PreimageChecks_Optional(preimage, inv) ==
  << Check(IsHex(preimage) => preimage[2] = 64, "preimage_length"),
     Check(IsHex(preimage) => Sha256(preimage[3]) = inv.payment_hash,
           "preimage_hash_mismatch") >>

PreimageChecks(preimage, inv) ==
  << Check(preimage # Absent, "preimage_missing"),
     Check(IsHex(preimage), "preimage_malformed"),
     Check(IsHex(preimage) => preimage[2] = 64, "preimage_length"),
     Check(IsHex(preimage) => Sha256(preimage[3]) = inv.payment_hash,
           "preimage_hash_mismatch") >>

\* Mutant: no allowance for a payment completed just before expiry.
last_valid_NoSkew(inv, terms) == end(inv)

last_valid(inv, terms) == saturating_add(end(inv), terms.clock_skew_secs)

ExpiryChecks(inv, terms, now) ==
  << Check(now <= last_valid(inv, terms), "expired") >>

\* Proof::retain_until, the earliest time the key may be pruned.
retain_until(inv, terms) ==
  saturating_add(last_valid(inv, terms), REPLAY_RETENTION_SECS)

\* Whether verify returns a Proof.
Accepts(payload, terms, now) ==
  LET invoice == payload.accepted.extra.invoice
      inv     == decode(invoice)
  IN  /\ Passes(CoreChecks(payload.accepted, terms))
      /\ Passes(check_extra(payload.accepted.extra, terms))
      /\ Passes(InvoiceStringChecks(invoice))
      /\ Passes(InvoiceChecks(inv, terms, now))
      /\ Passes(PreimageChecks(payload.preimage, inv))
      /\ Passes(ExpiryChecks(inv, terms, now))

\* What verify returns: Ok, or the reason of the first check that fails.
verify(payload, terms, now) ==
  LET invoice == payload.accepted.extra.invoice
      inv     == decode(invoice)
      early   == FirstFailure(CoreChecks(payload.accepted, terms)
                              \o check_extra(payload.accepted.extra, terms)
                              \o InvoiceStringChecks(invoice))
  IN  IF early # Ok
      THEN early
      ELSE FirstFailure(InvoiceChecks(inv, terms, now)
                        \o PreimageChecks(payload.preimage, inv)
                        \o ExpiryChecks(inv, terms, now))

(***************************************************************************)
(* A valid proof of payment, as the scheme means it, said without verify:  *)
(* the echo is the server's own offer with the invoice raw, save that      *)
(* assetTransferMethod may be left out; p opens the invoice; the invoice   *)
(* is signed, unambiguous and for this sale; and the time is within its    *)
(* life, give or take the skew.                                            *)
(***************************************************************************)
EchoesOffer(accepted, offer) ==
  accepted \in {offer, [offer EXCEPT !.extra.assetTransferMethod = Absent]}

IsForSale(raw, terms) ==
  /\ raw.signed
  /\ raw.description_hashes = <<terms.request_hash>> /\ raw.inline_descriptions = 0
  /\ raw.amount_pico_btc = <<10 * terms.amount_msat>> /\ 10 * terms.amount_msat <= UMax
  /\ raw.payee = <<terms.pay_to>> /\ raw.currency = currency(terms.network)
  /\ \/ raw.expiry = <<terms.max_timeout_secs>>
     \/ raw.expiry = <<>> /\ terms.max_timeout_secs = DEFAULT_INVOICE_EXPIRY_SECS

InItsLife(raw, terms, now) ==
  /\ raw.timestamp <= now + terms.clock_skew_secs
  /\ now <= raw.timestamp + terms.max_timeout_secs + terms.clock_skew_secs

ValidProof(payload, raw, p, terms, now) ==
  /\ EchoesOffer(payload.accepted, requirements(terms, Bolt11(raw)))
  /\ payload.preimage = Hex(64, p) /\ raw.payment_hashes = <<Sha256(p)>>
  /\ IsForSale(raw, terms)
  /\ InItsLife(raw, terms, now)

\* The replay key of a settled payment.
key(network, payment_hash) == <<caip2(network), Hex(64, payment_hash)>>
=============================================================================
