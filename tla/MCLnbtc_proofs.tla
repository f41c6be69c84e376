--------------------------- MODULE MCLnbtc_proofs ---------------------------
(***************************************************************************)
(* The properties of MCLnbtc, for every width of the integers, number of   *)
(* edits and length of time: what TLC finds of the world of edited         *)
(* payloads is an instance of what Lnbtc_proofs shows of all payloads.     *)
(***************************************************************************)
EXTENDS MCLnbtc, Lnbtc_proofs

-----------------------------------------------------------------------------
(* The inductive invariant: every field is as it was, or as an edit left it. *)

\* x has the fields of good, and each field that edits names has its value
\* there or one of the edits.
Edited(x, good, edited) ==
  /\ x = [f \in DOMAIN good |-> x[f]]
  /\ \A f \in DOMAIN edited : x[f] \in {good[f]} \cup edited[f]

TheOffer == requirements(TheTerms, Absent)

WorldInv ==
  /\ now \in 0 .. UMax
  /\ Edited(raw, GoodRaw, EditsOfRaw)
  /\ invoice \in {Bolt11(raw), Absent, NonString, EmptyString, Text("garbage")}
  /\ Edited(accepted, TheOffer, EditsOfAccepted)
  /\ Edited(accepted.extra, TheOffer.extra, EditsOfExtra)
  /\ preimage \in {Hex(64, Secret)} \cup EditsOfPreimage

\* An edit of a field that edited names keeps to it.
LEMMA EditKeepsEdited ==
  ASSUME NEW x, NEW good, NEW edited, Edited(x, good, edited),
         NEW f \in DOMAIN edited, NEW v \in edited[f]
  PROVE  Edited([x EXCEPT ![f] = v], good, edited)
<1> DEFINE y == [x EXCEPT ![f] = v]
<1>1. x = [g \in DOMAIN good |-> x[g]]
  BY DEF Edited
<1>2. y = [g \in DOMAIN x |-> IF g = f THEN v ELSE x[g]]
  OBVIOUS
<1> HIDE DEF y
<1> QED BY <1>1, <1>2 DEF Edited

\* WorldInv is an invariant of the world of edited payloads.
LEMMA WorldIsEdited == Spec => []WorldInv
<1>1. Init => WorldInv
  <2> SUFFICES ASSUME Init PROVE WorldInv
    OBVIOUS
  <2>1. now \in 0 .. UMax
    BY MCLnbtcAssumption, LnbtcAssumption DEF Init
  <2>2. Edited(raw, GoodRaw, EditsOfRaw)
    BY DEF Init, Edited, GoodRaw, EditsOfRaw
  <2>3. Edited(accepted, TheOffer, EditsOfAccepted)
    BY DEF Init, Edited, TheOffer, EditsOfAccepted, requirements
  <2>4. Edited(accepted.extra, TheOffer.extra, EditsOfExtra)
    BY DEF Init, Edited, TheOffer, EditsOfExtra, requirements
  <2> QED BY <2>1, <2>2, <2>3, <2>4 DEF Init, WorldInv
<1>2. WorldInv /\ [Next]_vars => WorldInv'
  <2> SUFFICES ASSUME WorldInv, [Next]_vars PROVE WorldInv'
    OBVIOUS
  <2>1. CASE EditInvoice
    <3>0. PICK f \in DOMAIN EditsOfRaw : \E v \in EditsOfRaw[f] : raw' = [raw EXCEPT ![f] = v]
      BY <2>1 DEF EditInvoice
    <3>1. PICK v \in EditsOfRaw[f] : raw' = [raw EXCEPT ![f] = v]
      BY <3>0
    <3>2. Edited(raw', GoodRaw, EditsOfRaw)
      BY <3>1, EditKeepsEdited DEF WorldInv
    <3> QED BY <2>1, <3>2 DEF EditInvoice, WorldInv
  <2>2. CASE EditInvoiceString
    BY <2>2 DEF EditInvoiceString, WorldInv
  <2>3. CASE EditCore
    <3>0. PICK f \in DOMAIN EditsOfAccepted : \E v \in EditsOfAccepted[f] : accepted' = [accepted EXCEPT ![f] = v]
      BY <2>3 DEF EditCore
    <3>1. PICK v \in EditsOfAccepted[f] : accepted' = [accepted EXCEPT ![f] = v]
      BY <3>0
    <3>2. Edited(accepted', TheOffer, EditsOfAccepted)
      BY <3>1, EditKeepsEdited DEF WorldInv
    <3>3. f # "extra"
      BY <3>1 DEF EditsOfAccepted
    <3>4. accepted'.extra = accepted.extra
      BY <3>1, <3>3
    <3> QED BY <2>3, <3>2, <3>4 DEF EditCore, WorldInv
  <2>4. CASE EditExtra
    <3>0. PICK f \in DOMAIN EditsOfExtra : \E v \in EditsOfExtra[f] : accepted' = [accepted EXCEPT !.extra[f] = v]
      BY <2>4 DEF EditExtra
    <3>1. PICK v \in EditsOfExtra[f] : accepted' = [accepted EXCEPT !.extra[f] = v]
      BY <3>0
    <3>2. "extra" \in DOMAIN accepted /\ "extra" \notin DOMAIN EditsOfAccepted
      BY DEF WorldInv, Edited, TheOffer, requirements, EditsOfAccepted
    <3>3. accepted' = [accepted EXCEPT !.extra = [accepted.extra EXCEPT ![f] = v]]
      BY <3>1
    <3>4. accepted'.extra = [accepted.extra EXCEPT ![f] = v]
      BY <3>2, <3>3
    <3>5. Edited(accepted'.extra, TheOffer.extra, EditsOfExtra)
      BY <3>4, EditKeepsEdited DEF WorldInv
    <3>6. Edited(accepted', TheOffer, EditsOfAccepted)
      <4> DEFINE e == [accepted.extra EXCEPT ![f] = v]
      <4>1. accepted' = [accepted EXCEPT !["extra"] = e]
        BY <3>3
      <4> HIDE DEF e
      <4> QED BY <3>2, <4>1 DEF WorldInv, Edited
    <3> QED BY <2>4, <3>5, <3>6 DEF EditExtra, WorldInv
  <2>5. CASE EditPreimage
    BY <2>5 DEF EditPreimage, WorldInv
  <2>6. CASE TimePasses
    BY <2>6, MCLnbtcAssumption, LnbtcAssumption DEF TimePasses, WorldInv
  <2>7. CASE UNCHANGED vars
    BY <2>7 DEF vars, WorldInv
  <2> QED BY <2>1, <2>2, <2>3, <2>4, <2>5, <2>6, <2>7 DEF Next
<1> QED BY <1>1, <1>2, PTL DEF Spec

-----------------------------------------------------------------------------
(* The types of this world. *)

ValuesOf(good, edited) ==
  {good[f] : f \in DOMAIN edited} \cup UNION {edited[f] : f \in DOMAIN edited}

\* Everything an invoice, an echo or a preimage of this world is made of.
Values ==
  {Secret, Guess, Sha256(Secret), Sha256(Guess), Request, Other,
   "node", "someone", "bc", "tb", "tbs", "bcrt", "ABCD", "garbage", <<>>}
    \cup ValuesOf(TheOffer, EditsOfAccepted)
    \cup ValuesOf(TheOffer.extra, EditsOfExtra)

\* A field of an edited record is a value of the world.
LEMMA FieldOfEdited ==
  ASSUME NEW x, NEW good, NEW edited, Edited(x, good, edited),
         NEW f \in DOMAIN edited
  PROVE  x[f] \in ValuesOf(good, edited)
  BY DEF Edited, ValuesOf

\* The fields of an edited invoice.
LEMMA RawFields ==
  ASSUME WorldInv
  PROVE  /\ raw.signed \in BOOLEAN
         /\ raw.payment_hashes \in {<<>>, <<Sha256(Secret)>>, <<Sha256(Guess)>>,
                                    <<Sha256(Secret), Sha256(Guess)>>}
         /\ raw.inline_descriptions \in {0, 1}
         /\ raw.description_hashes \in {<<>>, <<Request>>, <<Other>>, <<Request, Other>>}
         /\ raw.amount_pico_btc \in {<<>>, <<20>>, <<10>>, <<25>>, <<30>>, <<UMax + 20>>}
         /\ raw.payee \in {<<>>, <<"node">>, <<"someone">>}
         /\ raw.currency \in {"bc", "tb", "tbs", "bcrt"}
         /\ raw.timestamp \in {0, 1, 3, UMax}
         /\ raw.expiry \in {<<>>, <<1>>, <<2>>, <<3>>, <<UMax>>}
<1>1. \A f \in DOMAIN EditsOfRaw : raw[f] \in {GoodRaw[f]} \cup EditsOfRaw[f]
  BY DEF WorldInv, Edited
<1>2. DOMAIN EditsOfRaw =
        {"signed", "payment_hashes", "inline_descriptions", "description_hashes",
         "amount_pico_btc", "payee", "currency", "timestamp", "expiry"}
  BY DEF EditsOfRaw
<1>3. /\ raw.signed \in {GoodRaw.signed} \cup EditsOfRaw.signed
      /\ raw.payment_hashes \in {GoodRaw.payment_hashes} \cup EditsOfRaw.payment_hashes
      /\ raw.inline_descriptions
           \in {GoodRaw.inline_descriptions} \cup EditsOfRaw.inline_descriptions
      /\ raw.description_hashes
           \in {GoodRaw.description_hashes} \cup EditsOfRaw.description_hashes
      /\ raw.amount_pico_btc \in {GoodRaw.amount_pico_btc} \cup EditsOfRaw.amount_pico_btc
      /\ raw.payee \in {GoodRaw.payee} \cup EditsOfRaw.payee
      /\ raw.currency \in {GoodRaw.currency} \cup EditsOfRaw.currency
      /\ raw.timestamp \in {GoodRaw.timestamp} \cup EditsOfRaw.timestamp
      /\ raw.expiry \in {GoodRaw.expiry} \cup EditsOfRaw.expiry
  BY <1>1, <1>2
<1> QED BY <1>3 DEF GoodRaw, EditsOfRaw

\* Sequences of at most two elements.
LEMMA ShortSeqs ==
  ASSUME NEW S
  PROVE  /\ <<>> \in Seq(S) /\ <<>> \in Option(S)
         /\ \A a \in S : <<a>> \in Seq(S) /\ <<a>> \in Option(S)
         /\ \A a, b \in S : <<a, b>> \in Seq(S)
  BY DEF Option

\* The invoice is one that the general theorems speak of.
LEMMA RawTyped ==
  ASSUME WorldInv
  PROVE  raw \in RawInvoices(Values)
<1>1. /\ Sha256(Secret) \in Values /\ Sha256(Guess) \in Values
      /\ Request \in Values /\ Other \in Values
      /\ "node" \in Values /\ "someone" \in Values
      /\ "bc" \in Values /\ "tb" \in Values /\ "tbs" \in Values /\ "bcrt" \in Values
  BY DEF Values
<1>2. UMax \in Nat /\ 3 <= UMax
  BY MCLnbtcAssumption, LnbtcAssumption
<1>3. raw.payment_hashes \in Seq(Values) /\ raw.description_hashes \in Seq(Values)
  <2>1. /\ <<>> \in Seq(Values)
        /\ <<Sha256(Secret)>> \in Seq(Values) /\ <<Sha256(Guess)>> \in Seq(Values)
        /\ <<Sha256(Secret), Sha256(Guess)>> \in Seq(Values)
        /\ <<Request>> \in Seq(Values) /\ <<Other>> \in Seq(Values)
        /\ <<Request, Other>> \in Seq(Values)
    BY <1>1, ShortSeqs
  <2> QED BY <2>1, RawFields
<1>4. raw.amount_pico_btc \in Option(Nat)
  <2>1. 20 \in Nat /\ 10 \in Nat /\ 25 \in Nat /\ 30 \in Nat /\ UMax + 20 \in Nat
    BY <1>2
  <2>2. /\ <<>> \in Option(Nat) /\ <<20>> \in Option(Nat) /\ <<10>> \in Option(Nat)
        /\ <<25>> \in Option(Nat) /\ <<30>> \in Option(Nat)
        /\ <<UMax + 20>> \in Option(Nat)
    BY <2>1, ShortSeqs
  <2> QED BY <2>2, RawFields
<1>5. raw.payee \in Option(Values)
  <2>1. /\ <<>> \in Option(Values) /\ <<"node">> \in Option(Values)
        /\ <<"someone">> \in Option(Values)
    BY <1>1, ShortSeqs
  <2> QED BY <2>1, RawFields
<1>6. raw.expiry \in Option(0 .. UMax)
  <2>1. 1 \in 0 .. UMax /\ 2 \in 0 .. UMax /\ 3 \in 0 .. UMax /\ UMax \in 0 .. UMax
    BY <1>2
  <2>2. /\ <<>> \in Option(0 .. UMax) /\ <<1>> \in Option(0 .. UMax)
        /\ <<2>> \in Option(0 .. UMax) /\ <<3>> \in Option(0 .. UMax)
        /\ <<UMax>> \in Option(0 .. UMax)
    BY <2>1, ShortSeqs
  <2> QED BY <2>2, RawFields
<1>7. /\ raw.signed \in BOOLEAN /\ raw.inline_descriptions \in Nat
      /\ raw.currency \in Values /\ raw.timestamp \in 0 .. UMax
  BY <1>1, <1>2, RawFields
<1>8. raw = [signed |-> raw.signed, payment_hashes |-> raw.payment_hashes,
             inline_descriptions |-> raw.inline_descriptions,
             description_hashes |-> raw.description_hashes,
             amount_pico_btc |-> raw.amount_pico_btc, payee |-> raw.payee,
             currency |-> raw.currency, timestamp |-> raw.timestamp,
             expiry |-> raw.expiry]
  <2>1. DOMAIN GoodRaw =
          {"signed", "payment_hashes", "inline_descriptions", "description_hashes",
           "amount_pico_btc", "payee", "currency", "timestamp", "expiry"}
    BY DEF GoodRaw
  <2> QED BY <2>1 DEF WorldInv, Edited
<1> QED
  BY <1>3, <1>4, <1>5, <1>6, <1>7, <1>8 DEF RawInvoices

\* So is the payload, and so are the terms.
LEMMA PayloadTyped ==
  ASSUME WorldInv
  PROVE  Payload \in TypedPayloads(Values) /\ IsTerms(TheTerms)
<1> DEFINE ext == accepted.extra
           acc2 == Payload.accepted
           ext2 == acc2.extra
<1>1. Payload = [accepted |-> acc2, preimage |-> preimage]
  BY DEF Payload
<1>2. acc2 = [accepted EXCEPT !.extra = [ext EXCEPT !.invoice = invoice]]
  BY DEF Payload
<1>3. /\ accepted = [scheme |-> accepted.scheme, network |-> accepted.network,
                     amount |-> accepted.amount, asset |-> accepted.asset,
                     pay_to |-> accepted.pay_to,
                     max_timeout_seconds |-> accepted.max_timeout_seconds,
                     extra |-> ext]
      /\ ext = [assetTransferMethod |-> ext.assetTransferMethod,
                paymentFlow |-> ext.paymentFlow, requestHash |-> ext.requestHash,
                requestBindingProfile |-> ext.requestBindingProfile,
                requestBindingParams |-> ext.requestBindingParams,
                invoice |-> ext.invoice]
  <2>1. /\ DOMAIN TheOffer = {"scheme", "network", "amount", "asset", "pay_to",
                              "max_timeout_seconds", "extra"}
        /\ DOMAIN TheOffer.extra =
             {"assetTransferMethod", "paymentFlow", "requestHash",
              "requestBindingProfile", "requestBindingParams", "invoice"}
    BY DEF TheOffer, requirements
  <2>2. accepted = [f \in DOMAIN TheOffer |-> accepted[f]]
    BY DEF WorldInv, Edited
  <2>3. ext = [f \in DOMAIN TheOffer.extra |-> ext[f]]
    BY DEF WorldInv, Edited
  <2>4. accepted = [scheme |-> accepted.scheme, network |-> accepted.network,
                     amount |-> accepted.amount, asset |-> accepted.asset,
                     pay_to |-> accepted.pay_to,
                     max_timeout_seconds |-> accepted.max_timeout_seconds,
                     extra |-> accepted.extra]
    BY <2>1, <2>2
  <2> HIDE DEF ext
  <2>5. ext = [assetTransferMethod |-> ext.assetTransferMethod,
                paymentFlow |-> ext.paymentFlow, requestHash |-> ext.requestHash,
                requestBindingProfile |-> ext.requestBindingProfile,
                requestBindingParams |-> ext.requestBindingParams,
                invoice |-> ext.invoice]
    BY <2>1, <2>3
  <2> QED BY <2>4, <2>5 DEF ext
<1>4. acc2 = [scheme |-> accepted.scheme, network |-> accepted.network,
              amount |-> accepted.amount, asset |-> accepted.asset,
              pay_to |-> accepted.pay_to,
              max_timeout_seconds |-> accepted.max_timeout_seconds,
              extra |-> [assetTransferMethod |-> ext.assetTransferMethod,
                         paymentFlow |-> ext.paymentFlow,
                         requestHash |-> ext.requestHash,
                         requestBindingProfile |-> ext.requestBindingProfile,
                         requestBindingParams |-> ext.requestBindingParams,
                         invoice |-> invoice]]
  <2> DEFINE e2 == [ext EXCEPT !.invoice = invoice]
  <2>1. e2 = [assetTransferMethod |-> ext.assetTransferMethod,
              paymentFlow |-> ext.paymentFlow, requestHash |-> ext.requestHash,
              requestBindingProfile |-> ext.requestBindingProfile,
              requestBindingParams |-> ext.requestBindingParams,
              invoice |-> invoice]
    <3> HIDE DEF ext
    <3> QED BY <1>3
  <2>2. acc2 = [accepted EXCEPT !.extra = e2]
    BY <1>2
  <2> HIDE DEF e2, ext, acc2
  <2>3. acc2 = [scheme |-> accepted.scheme, network |-> accepted.network,
                amount |-> accepted.amount, asset |-> accepted.asset,
                pay_to |-> accepted.pay_to,
                max_timeout_seconds |-> accepted.max_timeout_seconds,
                extra |-> e2]
    BY <1>3, <2>2
  <2> QED BY <2>1, <2>3
<1>5. /\ accepted.scheme \in Values /\ accepted.network \in Values
      /\ accepted.amount \in Values /\ accepted.asset \in Values
      /\ accepted.pay_to \in Values /\ accepted.max_timeout_seconds \in Values
  <2>1. \A f \in DOMAIN EditsOfAccepted : accepted[f] \in Values
    BY FieldOfEdited DEF WorldInv, Values
  <2>2. DOMAIN EditsOfAccepted =
          {"scheme", "network", "amount", "asset", "pay_to", "max_timeout_seconds"}
    BY DEF EditsOfAccepted
  <2> QED BY <2>1, <2>2
<1>6. /\ ext.assetTransferMethod \in Values /\ ext.paymentFlow \in Values
      /\ ext.requestHash \in Values /\ ext.requestBindingProfile \in Values
      /\ ext.requestBindingParams \in Values
  <2>1. \A f \in DOMAIN EditsOfExtra : ext[f] \in Values
    BY FieldOfEdited DEF WorldInv, Values
  <2>2. DOMAIN EditsOfExtra =
          {"assetTransferMethod", "paymentFlow", "requestHash",
           "requestBindingProfile", "requestBindingParams"}
    BY DEF EditsOfExtra
  <2> HIDE DEF ext
  <2> QED BY <2>1, <2>2
<1>7. invoice \in InvoiceValues(Values)
  <2>1. Absent \in JsonValues(Values) /\ NonString \in JsonValues(Values)
    BY DEF JsonValues
  <2>2. EmptyString \in JsonValues(Values) /\ Text("garbage") \in JsonValues(Values)
    <3>1. "garbage" \in Values /\ <<>> \in Values
      BY DEF Values
    <3> QED BY <3>1 DEF JsonValues, EmptyString
  <2> QED BY <2>1, <2>2, RawTyped DEF WorldInv, InvoiceValues
<1>8. preimage \in JsonValues(Values)
  <2>1. /\ "ABCD" \in Values /\ <<>> \in Values /\ Secret \in Values /\ Guess \in Values
        /\ 0 \in Nat /\ 62 \in Nat /\ 64 \in Nat
    BY DEF Values
  <2>2. preimage \in {Absent, NonString, Text("ABCD"), Hex(0, <<>>), Hex(62, Secret),
                      Hex(64, Guess), Hex(64, Secret)}
    BY DEF WorldInv, EditsOfPreimage, EmptyString
  <2> QED BY <2>1, <2>2 DEF JsonValues
<1>9. Payload \in TypedPayloads(Values)
  <2> HIDE DEF ext, acc2
  <2> QED BY <1>1, <1>4, <1>5, <1>6, <1>7, <1>8 DEF TypedPayloads
<1>10. IsTerms(TheTerms)
  <2>1. is_valid_http_params(http_params(BOUND_HEADERS))
    BY DEF is_valid_http_params, http_params, BOUND_HEADERS
  <2> QED BY <2>1, MCLnbtcAssumption, LnbtcAssumption DEF IsTerms, TheTerms
<1> QED BY <1>9, <1>10

-----------------------------------------------------------------------------
(* The properties. *)

\* In this world only Secret and Guess can open the invoice, and it is the one
\* invoice that the payload can hold.
LEMMA ExactInWorld ==
  ASSUME WorldInv
  PROVE  VerifyIsExact
<1> DEFINE Valid(r, p) == ValidProof(Payload, r, p, TheTerms, now)
<1>1. Verdict = Ok <=> \E r \in RawInvoices(Values), p \in Values : Valid(r, p)
  BY VerifyExact, PayloadTyped DEF Verdict, WorldInv
<1>2. Verdict = Ok <=> Accepts(Payload, TheTerms, now)
  BY VerifyAccepts DEF Verdict
<1>3. ASSUME NEW r \in RawInvoices(Values), NEW p \in Values, Valid(r, p)
      PROVE  r = raw /\ p \in {Secret, Guess}
  <2>1. EchoesOffer(Payload.accepted, requirements(TheTerms, Bolt11(r)))
    BY <1>3 DEF ValidProof
  <2>2. Payload.accepted.extra.invoice = invoice
    <3>1. accepted.extra = [f \in DOMAIN TheOffer.extra |-> accepted.extra[f]]
      BY DEF WorldInv, Edited
    <3>2. accepted = [f \in DOMAIN TheOffer |-> accepted[f]]
      BY DEF WorldInv, Edited
    <3>3. "extra" \in DOMAIN TheOffer /\ "invoice" \in DOMAIN TheOffer.extra
      BY DEF TheOffer, requirements
    <3> QED BY <3>1, <3>2, <3>3 DEF Payload
  <2>3. Payload.accepted.extra.invoice = Bolt11(r)
    BY <2>1, OfferedInvoice
  <2>4. r = raw
    BY <2>2, <2>3 DEF WorldInv, Bolt11, Absent, NonString, EmptyString, Text, Hex
  <2>5. raw.payment_hashes = <<Sha256(p)>>
    BY <1>3, <2>4 DEF ValidProof
  <2>6. <<Sha256(p)>> \in {<<Sha256(Secret)>>, <<Sha256(Guess)>>}
    <3>1. Len(<<Sha256(p)>>) = 1 /\ Len(<<>>) = 0
          /\ Len(<<Sha256(Secret), Sha256(Guess)>>) = 2
      OBVIOUS
    <3> QED BY <2>5, <3>1, RawFields
  <2>7. p \in {Secret, Guess}
    <3>1. Sha256(p) \in {Sha256(Secret), Sha256(Guess)}
      BY <2>6
    <3> QED BY <3>1 DEF Sha256
  <2> QED BY <2>4, <2>7
<1>4. raw \in RawInvoices(Values) /\ Secret \in Values /\ Guess \in Values
  BY RawTyped DEF Values
<1> HIDE DEF Valid
<1>5. Verdict = Ok <=> \E p \in {Secret, Guess} : Valid(raw, p)
  BY <1>1, <1>3, <1>4
<1> QED BY <1>2, <1>5 DEF VerifyIsExact, Valid

\* verify accepts exactly the valid proofs, however many fields of a good one
\* were changed, and Accepts is whether it does.
THEOREM VerifyExactInWorld == Spec => []VerifyIsExact
  BY WorldIsEdited, ExactInWorld, PTL

LEMMA ToldApartInWorld ==
  ASSUME WorldInv
  PROVE  BindingReasonsToldApart
<1> DEFINE extra == Payload.accepted.extra
           wellFormed ==
             /\ \E v \in {Request, Other} : extra.requestHash = Hex(64, v)
             /\ extra.requestBindingProfile = Text("http:1")
             /\ extra.requestBindingParams \in {Params(<<>>, 0), Params(<<Token(1)>>, 0)}
<1>1. /\ Verdict = "request_binding" => ~ BindingWellFormed(extra)
      /\ Verdict = "request_mismatch" => BindingWellFormed(extra)
  BY BindingVerdicts DEF Verdict
<1>2. \A f \in DOMAIN EditsOfExtra : extra[f] \in {TheOffer.extra[f]} \cup EditsOfExtra[f]
  <2>1. accepted = [f \in DOMAIN TheOffer |-> accepted[f]]
    BY DEF WorldInv, Edited
  <2>2. "extra" \in DOMAIN TheOffer /\ "invoice" \notin DOMAIN EditsOfExtra
    BY DEF TheOffer, requirements, EditsOfExtra
  <2>3. extra = [accepted.extra EXCEPT !["invoice"] = invoice]
    BY <2>1, <2>2 DEF Payload
  <2>4. DOMAIN EditsOfExtra \subseteq DOMAIN accepted.extra
    BY DEF WorldInv, Edited, TheOffer, requirements, EditsOfExtra
  <2> HIDE DEF extra
  <2> QED BY <2>2, <2>3, <2>4 DEF WorldInv, Edited
<1> HIDE DEF extra
<1>3. /\ extra.requestHash \in {Hex(64, Request), Absent, NonString, Text("ABCD"),
                                EmptyString, Hex(62, Request), Hex(64, Other)}
      /\ extra.requestBindingParams
           \in {Params(<<>>, 0), Absent, NonString, <<"object", Absent, 0>>,
                Params(<<>>, 1), Params(<<Token(1)>>, 0),
                Params(<<Token(3), Token(1)>>, 0),
                Params(<<PAYMENT_SIGNATURE>>, 0), Params(<<Text("Accept")>>, 0)}
  <2>1. "requestHash" \in DOMAIN EditsOfExtra /\ "requestBindingParams" \in DOMAIN EditsOfExtra
    BY DEF EditsOfExtra
  <2>2. /\ extra.requestHash \in {TheOffer.extra.requestHash} \cup EditsOfExtra.requestHash
        /\ extra.requestBindingParams
             \in {TheOffer.extra.requestBindingParams} \cup EditsOfExtra.requestBindingParams
    BY <1>2, <2>1
  <2>3. /\ TheOffer.extra.requestHash = Hex(64, Request)
        /\ TheOffer.extra.requestBindingParams = Params(<<>>, 0)
    BY DEF TheOffer, requirements, TheTerms, http_params, BOUND_HEADERS, Params
  <2>4. /\ EditsOfExtra.requestHash = {Absent, NonString, Text("ABCD"), EmptyString,
                                       Hex(62, Request), Hex(64, Other)}
        /\ EditsOfExtra.requestBindingParams =
             {Absent, NonString, <<"object", Absent, 0>>,
              Params(<<>>, 1), Params(<<Token(1)>>, 0),
              Params(<<Token(3), Token(1)>>, 0),
              Params(<<PAYMENT_SIGNATURE>>, 0), Params(<<Text("Accept")>>, 0)}
    BY DEF EditsOfExtra
  <2> QED BY <2>2, <2>3, <2>4
<1>4. IsHex(extra.requestHash) /\ extra.requestHash[2] = 64
        <=> \E v \in {Request, Other} : extra.requestHash = Hex(64, v)
  BY <1>3 DEF IsHex, Hex, Absent, NonString, Text, EmptyString
<1>5. is_valid_http_params(extra.requestBindingParams)
        <=> extra.requestBindingParams \in {Params(<<>>, 0), Params(<<Token(1)>>, 0)}
  <2>1. /\ is_valid_http_params(Params(<<>>, 0))
        /\ is_valid_http_params(Params(<<Token(1)>>, 0))
    BY DEF is_valid_http_params, is_lowercase_token, Params, Token, PAYMENT_SIGNATURE
  <2>2. ~ is_valid_http_params(Absent) /\ ~ is_valid_http_params(NonString)
    BY DEF is_valid_http_params, Absent, NonString
  <2>3. ~ is_valid_http_params(<<"object", Absent, 0>>)
    BY DEF is_valid_http_params, Absent
  <2>4. ~ is_valid_http_params(Params(<<>>, 1))
    BY DEF is_valid_http_params, Params
  <2>5. ~ is_valid_http_params(Params(<<Token(3), Token(1)>>, 0))
    <3> DEFINE names == <<Token(3), Token(1)>>
    <3>1. Params(names, 0)[2][2] = names /\ 2 \in 2 .. Len(names)
          /\ names[2 - 1] = Token(3) /\ names[2] = Token(1)
      BY DEF Params
    <3>2. ~ (Token(3)[2] < Token(1)[2])
      BY DEF Token
    <3> DEFINE params == Params(names, 0)
    <3>3. is_valid_http_params(params)
            => \A i \in 2 .. Len(params[2][2]) :
                 params[2][2][i - 1][2] < params[2][2][i][2]
      <4> HIDE DEF params
      <4> QED BY DEF is_valid_http_params
    <3> HIDE DEF names, params
    <3>4. ~ is_valid_http_params(params)
      BY <3>1, <3>2, <3>3 DEF params
    <3> QED BY <3>4 DEF names, params
  <2>6. ~ is_valid_http_params(Params(<<PAYMENT_SIGNATURE>>, 0))
    BY DEF is_valid_http_params, Params
  <2>7. ~ is_valid_http_params(Params(<<Text("Accept")>>, 0))
    BY DEF is_valid_http_params, is_lowercase_token, Params, Text
  <2> QED BY <1>3, <2>1, <2>2, <2>3, <2>4, <2>5, <2>6, <2>7
<1>6. BindingWellFormed(extra) <=> wellFormed
  BY <1>4, <1>5 DEF BindingWellFormed, HTTP_PROFILE
<1> HIDE DEF wellFormed
<1>7. /\ Verdict = "request_mismatch" => wellFormed
      /\ Verdict = "request_binding" => ~ wellFormed
  BY <1>1, <1>6
<1> QED BY <1>7 DEF BindingReasonsToldApart, wellFormed, extra

\* A malformed binding and a well-formed but different one are told apart,
\* whatever else was changed.
THEOREM ReasonsToldApartInWorld == Spec => []BindingReasonsToldApart
  BY WorldIsEdited, ToldApartInWorld, PTL

LEMMA SettlesInWorld ==
  ASSUME WorldInv
  PROVE  IssuedChallengeSettles
<1> DEFINE inv == decode(Bolt11(raw))
<1> SUFFICES ASSUME IssuedInvoiceOk(Bolt11(raw), TheTerms, now)
             PROVE  /\ Len(raw.payment_hashes) = 1
                    /\ \A later \in now .. MaxTime, p \in {Secret, Guess} :
                         (/\ Sha256(p) = raw.payment_hashes[1]
                          /\ later <= raw.timestamp + 2 + TheTerms.clock_skew_secs)
                         => Accepts(HonestPayload(requirements(TheTerms, Bolt11(raw)), p),
                                    TheTerms, later)
  BY DEF IssuedChallengeSettles
<1>1. Len(raw.payment_hashes) = 1
  BY IssuedFacts DEF Decodes, Bolt11
<1>2. /\ TheTerms.clock_skew_secs = 1 /\ TheTerms.max_timeout_secs = 2
      /\ TheTerms.binding_params = http_params(BOUND_HEADERS)
  BY DEF TheTerms
<1>3. inv.created = raw.timestamp /\ inv.expiry = 2
  BY <1>2, IssuedFacts DEF decode, Bolt11
<1>4. UMax \in Nat /\ MaxTime \in 0 .. UMax /\ raw.timestamp \in 0 .. UMax /\ now \in Nat
  BY RawTyped, MCLnbtcAssumption, LnbtcAssumption DEF RawInvoices, WorldInv
<1>5. ASSUME NEW later \in now .. MaxTime, NEW p \in {Secret, Guess},
             Sha256(p) = raw.payment_hashes[1], later <= raw.timestamp + 2 + 1
      PROVE  Accepts(HonestPayload(requirements(TheTerms, Bolt11(raw)), p),
                     TheTerms, later)
  <2>1. raw.payment_hashes = <<Sha256(p)>>
    BY <1>1, <1>5, RawFields
  <2>2. last_valid(inv, TheTerms)
          = saturating_add(saturating_add(raw.timestamp, 2), 1)
    BY <1>2, <1>3 DEF last_valid, end
  <2>3. later \in Nat /\ now <= later /\ later <= UMax
    BY <1>4
  <2>4. later <= last_valid(inv, TheTerms)
    <3> DEFINE made == raw.timestamp
    <3> HIDE DEF made, inv
    <3>1. later <= saturating_add(saturating_add(made, 2), 1)
      BY <1>4, <1>5, <2>3 DEF saturating_add, made
    <3> QED BY <2>2, <3>1 DEF made
  <2>5. raw.timestamp \in Nat /\ TheTerms.clock_skew_secs \in Nat
    BY <1>2, <1>4
  <2> QED BY <1>2, <1>4, <2>1, <2>3, <2>4, <2>5, CheckedInvoicesSettle
<1> QED BY <1>1, <1>2, <1>5

\* A challenge that passed check_issued_invoice is settled by the honest payment
\* of its invoice at every later time up to expiry plus skew, whatever was
\* changed in the invoice before the check.
THEOREM ChallengesSettleInWorld == Spec => []IssuedChallengeSettles
  BY WorldIsEdited, SettlesInWorld, PTL
=============================================================================
