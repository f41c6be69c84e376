------------------------------ MODULE MCLnbtc ------------------------------
(***************************************************************************)
(* The checks of Lnbtc over a small world of payloads: a good proof of     *)
(* payment in which up to MaxEdits fields of the invoice, the echoed       *)
(* requirements or the payload were changed, looked at as time passes.     *)
(***************************************************************************)
EXTENDS Lnbtc, Integers

CONSTANTS MaxTime, MaxEdits

\* The times and periods of this world are u64 numbers.
ASSUME MCLnbtcAssumption == 3 <= UMax /\ MaxTime \in 0 .. UMax

VARIABLES now,       \* the time of the check
          raw,       \* the invoice, as a raw bolt11 invoice
          invoice,   \* the accepted requirements' invoice member
          accepted,  \* the other members of the accepted requirements
          preimage,  \* the payload's preimage member
          edits      \* how many fields were changed

vars == <<now, raw, invoice, accepted, preimage, edits>>

Request == Sha256("this request")
Other   == Sha256("another request")
Secret  == "preimage"
Guess   == "guess"

TheTerms ==
  [network |-> "mainnet", pay_to |-> "node", amount_msat |-> 2,
   max_timeout_secs |-> 2, request_hash |-> Request,
   binding_params |-> http_params(BOUND_HEADERS), clock_skew_secs |-> 1]

GoodRaw ==
  [signed |-> TRUE, payment_hashes |-> <<Sha256(Secret)>>,
   inline_descriptions |-> 0, description_hashes |-> <<Request>>,
   amount_pico_btc |-> <<20>>, payee |-> <<"node">>, currency |-> "bc",
   timestamp |-> 1, expiry |-> <<2>>]

EditsOfRaw ==
  [signed              |-> {FALSE},
   payment_hashes      |-> {<<>>, <<Sha256(Guess)>>,
                            <<Sha256(Secret), Sha256(Guess)>>},
   inline_descriptions |-> {1},
   description_hashes  |-> {<<>>, <<Other>>, <<Request, Other>>},
   amount_pico_btc     |-> {<<>>, <<10>>, <<25>>, <<30>>, <<UMax + 20>>},
   payee               |-> {<<>>, <<"someone">>},
   currency            |-> {"tb", "tbs", "bcrt"},
   timestamp           |-> {0, 3, UMax},
   expiry              |-> {<<>>, <<1>>, <<3>>, <<UMax>>}]

EditsOfAccepted ==
  [scheme              |-> {"upto"},
   network             |-> {caip2("testnet"), caip2("signet")},
   amount              |-> {Dec(1), Text("2.0")},
   asset               |-> {"USDC"},
   pay_to              |-> {Pubkey("someone"), Text("NODE")},
   max_timeout_seconds |-> {1, 3}]

\* A parameter object with these headers and so many further members.
Params(names, others) == <<"object", <<"array", names>>, others>>

EditsOfExtra ==
  [assetTransferMethod   |-> {Absent, NonString, Text("bolt12")},
   paymentFlow           |-> {Absent, NonString, Text("later")},
   requestHash           |-> {Absent, NonString, Text("ABCD"), EmptyString,
                              Hex(62, Request), Hex(64, Other)},
   requestBindingProfile |-> {Absent, Text("http:2")},
   requestBindingParams  |-> {Absent, NonString, <<"object", Absent, 0>>,
                              Params(<<>>, 1), Params(<<Token(1)>>, 0),
                              Params(<<Token(3), Token(1)>>, 0),
                              Params(<<PAYMENT_SIGNATURE>>, 0),
                              Params(<<Text("Accept")>>, 0)}]

EditsOfPreimage ==
  {Absent, NonString, Text("ABCD"), EmptyString, Hex(62, Secret), Hex(64, Guess)}

Init ==
  /\ now = 1
  /\ raw = GoodRaw
  /\ invoice = Bolt11(GoodRaw)
  /\ accepted = requirements(TheTerms, Absent)
  /\ preimage = Hex(64, Secret)
  /\ edits = 0

Edit == edits < MaxEdits /\ edits' = edits + 1

EditInvoice ==
  /\ Edit
  /\ invoice = Bolt11(raw)
  /\ \E f \in DOMAIN EditsOfRaw : \E v \in EditsOfRaw[f] :
       raw' = [raw EXCEPT ![f] = v]
  /\ invoice' = Bolt11(raw')
  /\ UNCHANGED <<now, accepted, preimage>>

EditInvoiceString ==
  /\ Edit
  /\ invoice' \in {Absent, NonString, EmptyString, Text("garbage")}
  /\ UNCHANGED <<now, raw, accepted, preimage>>

EditCore ==
  /\ Edit
  /\ \E f \in DOMAIN EditsOfAccepted : \E v \in EditsOfAccepted[f] :
       accepted' = [accepted EXCEPT ![f] = v]
  /\ UNCHANGED <<now, raw, invoice, preimage>>

EditExtra ==
  /\ Edit
  /\ \E f \in DOMAIN EditsOfExtra : \E v \in EditsOfExtra[f] :
       accepted' = [accepted EXCEPT !.extra[f] = v]
  /\ UNCHANGED <<now, raw, invoice, preimage>>

EditPreimage ==
  /\ Edit
  /\ preimage' \in EditsOfPreimage
  /\ UNCHANGED <<now, raw, invoice, accepted>>

TimePasses ==
  /\ now < MaxTime
  /\ now' = now + 1
  /\ UNCHANGED <<raw, invoice, accepted, preimage, edits>>

Next == \/ EditInvoice \/ EditInvoiceString \/ EditCore \/ EditExtra \/ EditPreimage
        \/ TimePasses

Spec == Init /\ [][Next]_vars

-----------------------------------------------------------------------------
Payload ==
  [accepted |-> [accepted EXCEPT !.extra.invoice = invoice], preimage |-> preimage]

Verdict == verify(Payload, TheTerms, now)

\* verify accepts exactly the valid proofs, and Accepts, which the server
\* model uses, is whether it does (the tests' table of rejected payloads).
VerifyIsExact ==
  /\ (Verdict = Ok) <=> \E p \in {Secret, Guess} :
                          ValidProof(Payload, raw, p, TheTerms, now)
  /\ (Verdict = Ok) <=> Accepts(Payload, TheTerms, now)

\* A malformed binding and a well-formed but different one are told apart
\* (check_extra's comment), whatever else is wrong with the payload.
BindingReasonsToldApart ==
  LET extra == Payload.accepted.extra
      wellFormed ==
        /\ \E v \in {Request, Other} : extra.requestHash = Hex(64, v)
        /\ extra.requestBindingProfile = Text("http:1")
        /\ extra.requestBindingParams \in {Params(<<>>, 0), Params(<<Token(1)>>, 0)}
  IN  /\ Verdict = "request_mismatch" => wellFormed
      /\ Verdict = "request_binding" => ~ wellFormed

\* A server that checked an invoice before it went out in a challenge accepts
\* the honest payment of it at every later time up to expiry plus skew: the
\* checks at issue and at settlement agree on every invoice.
IssuedChallengeSettles ==
  IssuedInvoiceOk(Bolt11(raw), TheTerms, now) =>
    /\ Len(raw.payment_hashes) = 1
    /\ \A later \in now .. MaxTime, p \in {Secret, Guess} :
         (/\ Sha256(p) = raw.payment_hashes[1]
          /\ later <= raw.timestamp + 2 + TheTerms.clock_skew_secs)
         => Accepts(HonestPayload(requirements(TheTerms, Bolt11(raw)), p),
                    TheTerms, later)
=============================================================================
