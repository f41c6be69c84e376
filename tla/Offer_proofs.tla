---------------------------- MODULE Offer_proofs ----------------------------
(***************************************************************************)
(* That /x402 honours its offers and loses no accepted payment but in a    *)
(* crash, for every value of the constants of X402.                        *)
(***************************************************************************)
EXTENDS X402_proofs, Lnbtc_proofs

\* unix_now() is a u64.
ClockFits == MaxTime <= UMax

-----------------------------------------------------------------------------
(* The invariant OfferInv. *)

\* A handler that has LND's answer after a step had it before, or has just got it.
LEMMA IssuedOrigin ==
  ASSUME TypeOK, DownIsIdle, [Next]_vars,
         NEW r \in Handlers, Stage(r)' = "issued"
  PROVE  \/ handler'[r] = handler[r] /\ config' = config
         \/ Issue(r)
<1> USE DEF Stage
<1>1. DOMAIN handler = Handlers
  BY DEF TypeOK
<1>2. CASE UNCHANGED <<handler, config>>
  BY <1>2
<1>3. ASSUME NEW s \in Handlers, NEW t, Becomes(s, t), t.stage # "issued",
             UNCHANGED config
      PROVE  handler'[r] = handler[r]
  BY <1>1, <1>3 DEF Becomes
<1>4. /\ Idle.stage # "issued"
      /\ \A q : Issuing(q).stage # "issued"
      /\ \A q, h : Settled(q, h).stage # "issued"
      /\ \A q, h, now, until : Settling(q, h, now, until).stage # "issued"
  BY DEF Idle, Issuing, Settled, Settling
<1>5. ASSUME NEW s \in Handlers, NEW q \in Requests, Receive(s, q) \/ Present(s, q)
      PROVE  handler'[r] = handler[r] /\ config' = config
  <2>1. UNCHANGED config /\ \E t : Becomes(s, t) /\ t.stage # "issued"
    BY <1>4, <1>5 DEF Receive, Present, HandlerFrame
  <2> QED BY <1>3, <2>1
<1>6. ASSUME NEW s \in Handlers, HandlerStep(s), ~ Issue(s)
      PROVE  handler'[r] = handler[r] /\ config' = config
  <2>1. UNCHANGED config /\ \E t : Becomes(s, t) /\ t.stage # "issued"
    BY <1>4, <1>6 DEF HandlerStep, HandlerFrame, IssueFails, SendChallenge, Settle,
                      Duplicate, StoreFails, Serve
  <2> QED BY <1>3, <2>1
<1>7. ASSUME NEW s \in Handlers, Issue(s), s # r
      PROVE  handler'[r] = handler[r] /\ config' = config
  BY <1>1, <1>7 DEF Issue, Becomes, HandlerFrame
<1>8. CASE Crash
  BY <1>4, <1>8 DEF Crash
<1>9. ASSUME NEW c \in Configs, Restart(c)
      PROVE  FALSE
  BY <1>4, <1>9 DEF Restart, DownIsIdle
<1> QED
  BY <1>2, <1>5, <1>6, <1>7, <1>8, <1>9
     DEF Next, vars, HandlerFrame, PrunerFrame, ClockFrame, PruneTick, Prune,
         PruneFails, Pay, Tick, StepBack, FortuneIssue

\* A handler that has LND's answer has the invoice it asked for.
LEMMA IssuedStep ==
  TypeOK /\ DownIsIdle /\ IssuedInv /\ [Next]_vars => IssuedInv'
<1> SUFFICES ASSUME TypeOK, DownIsIdle, IssuedInv, [Next]_vars,
                    NEW r \in Handlers, Stage(r)' = "issued"
             PROVE  \E p \in Preimages, t \in Nat :
                      handler'[r].raw = LndInvoice(config', handler'[r].request, p, t)
  BY DEF IssuedInv
<1>1. CASE handler'[r] = handler[r] /\ config' = config
  BY <1>1 DEF IssuedInv, Stage
<1>2. CASE Issue(r)
  <2>1. PICK p \in Preimages, t \in 0 .. MaxTime + Drift :
          LET raw == LndInvoice(config, handler[r].request, p, t)
          IN  Becomes(r, Issued(handler[r].request, raw))
    BY <1>2 DEF Issue
  <2>2. /\ handler'[r].request = handler[r].request
        /\ handler'[r].raw = LndInvoice(config, handler[r].request, p, t)
    BY <2>1 DEF Becomes, Issued, TypeOK
  <2>3. t \in Nat
    BY X402Assumption
  <2> QED BY <1>2, <2>2, <2>3 DEF Issue, HandlerFrame
<1> QED
  BY <1>1, <1>2, IssuedOrigin

\* Only invoices that passed the checks go out in offers.
LEMMA OffersStep ==
  TypeOK /\ IssuedInv /\ OffersChecked /\ [Next]_vars => OffersChecked'
<1> SUFFICES ASSUME TypeOK, IssuedInv, OffersChecked, [Next]_vars
             PROVE  OffersChecked'
  OBVIOUS
<1>1. CASE UNCHANGED offered
  BY <1>1 DEF OffersChecked
<1>2. ASSUME NEW r \in Handlers, SendChallenge(r), ~ UNCHANGED offered
      PROVE  OffersChecked'
  <2> DEFINE q == handler[r].request
             invoice == Bolt11(handler[r].raw)
  <2>1. /\ IssuedInvoiceOk(invoice, terms(q), clock)
        /\ offered' = offered \cup {requirements(terms(q), invoice)}
    BY <1>2 DEF SendChallenge
  <2>2. PICK p \in Preimages, t \in Nat : handler[r].raw = LndInvoice(config, q, p, t)
    BY <1>2 DEF IssuedInv, SendChallenge
  <2>3. config \in Configs /\ q \in Requests
    BY <1>2, HandlerFields DEF TypeOK, SendChallenge, Stage
  <2>4. decode(invoice).created = t
    BY <2>2 DEF decode, Bolt11, LndInvoice
  <2>5. t \in 0 .. UMax
    <3>1. t <= saturating_add(clock, terms(q).clock_skew_secs)
      BY <2>1, <2>4, IssuedFacts
    <3>2. clock \in Nat /\ terms(q).clock_skew_secs \in Nat
      BY <2>3, SkewType DEF TypeOK, terms, TermsOf
    <3>3. saturating_add(clock, terms(q).clock_skew_secs) \in 0 .. UMax
      BY <3>2, SaturatingAdd
    <3> QED BY <3>1, <3>3, LnbtcAssumption
  <2>6. requirements(terms(q), invoice).extra.invoice = invoice /\ Decodes(invoice)
    BY <2>1 DEF requirements, IssuedInvoiceOk
  <2>7. requirements(terms(q), invoice)
          = requirements(TermsOf(config, q), Bolt11(LndInvoice(config, q, p, t)))
    BY <2>2 DEF terms
  <2> QED BY <2>1, <2>3, <2>5, <2>6, <2>7 DEF OffersChecked
<1>3. UNCHANGED offered \/ \E r \in Handlers : SendChallenge(r)
  BY DEF Next, vars, HandlerStep, HandlerFrame, PrunerFrame, ClockFrame,
         Receive, Present, Issue, IssueFails, Settle, Duplicate, StoreFails, Serve,
         PruneTick, Prune, PruneFails, Crash, Restart, Pay, Tick, StepBack,
         FortuneIssue
<1> QED
  BY <1>1, <1>2, <1>3

\* A row is inserted with the acceptance of its payment.
LEMMA KeysSpentStep ==
  TypeOK /\ KeysAreSpent /\ [Next]_vars => KeysAreSpent'
<1> SUFFICES ASSUME TypeOK, KeysAreSpent, [Next]_vars
             PROVE  KeysAreSpent'
  OBVIOUS
<1>1. CASE consumed' \subseteq consumed /\ UNCHANGED spends
  BY <1>1 DEF KeysAreSpent
<1>2. ASSUME NEW r \in Handlers, Settle(r)
      PROVE  KeysAreSpent'
  <2>1. handler[r].hash \in Hashes
    BY <1>2, HandlerFields DEF TypeOK, Settle, Stage
  <2>2. /\ spends' = [spends EXCEPT ![handler[r].hash] = @ + 1]
        /\ \A row \in consumed' : row \in consumed \/ row.key = ReplayKey(r)
    BY <1>2 DEF Settle, Consume
  <2>3. \A h \in Hashes : spends'[h] > 0 <=> spends[h] > 0 \/ h = handler[r].hash
    BY <2>1, <2>2 DEF TypeOK
  <2>4. \A n, h : ReplayKey(r) = key(n, h) => h = handler[r].hash
    BY KeyInjective DEF ReplayKey
  <2> QED BY <2>2, <2>3, <2>4 DEF KeysAreSpent
<1>3. (consumed' \subseteq consumed /\ UNCHANGED spends) \/ \E r \in Handlers : Settle(r)
  BY DEF Next, vars, salesVars, HandlerStep, HandlerFrame, PrunerFrame, ClockFrame,
         Receive, Present, Issue, IssueFails, SendChallenge, Duplicate, Conflict,
         StoreFails, Serve, PruneTick, Prune, prune, PruneFails, Crash, Restart, Pay,
         Tick, StepBack, FortuneIssue
<1> QED
  BY <1>1, <1>2, <1>3

LEMMA OfferInvariant == Spec => [](TypeOK /\ OfferInv)
<1>1. Init => DownIsIdle /\ OfferInv
  BY DEF Init, StoreInit, DownIsIdle, OfferInv, IssuedInv, OffersChecked,
         KeysAreSpent, Stage, Idle
<1>2. TypeOK /\ DownIsIdle /\ OfferInv /\ [Next]_vars => OfferInv'
  BY IssuedStep, OffersStep, KeysSpentStep DEF OfferInv
<1> QED
  BY <1>1, <1>2, TypeInit, TypeStep, DownStep, PTL DEF Spec

-----------------------------------------------------------------------------
\* What the requirements of a challenge tell about the terms behind them.
LEMMA SameRequirements ==
  ASSUME NEW s, NEW t, NEW i, NEW j, requirements(s, i) = requirements(t, j)
  PROVE  /\ s.network = t.network /\ s.amount_msat = t.amount_msat
         /\ s.pay_to = t.pay_to /\ s.max_timeout_secs = t.max_timeout_secs
         /\ s.request_hash = t.request_hash
<1>1. /\ requirements(s, i).network = requirements(t, j).network
      /\ requirements(s, i).amount = requirements(t, j).amount
      /\ requirements(s, i).pay_to = requirements(t, j).pay_to
      /\ requirements(s, i).max_timeout_seconds = requirements(t, j).max_timeout_seconds
      /\ requirements(s, i).extra.requestHash = requirements(t, j).extra.requestHash
  OBVIOUS
<1>2. /\ caip2(s.network) = caip2(t.network)
      /\ Dec(s.amount_msat) = Dec(t.amount_msat)
      /\ Pubkey(s.pay_to) = Pubkey(t.pay_to)
      /\ s.max_timeout_secs = t.max_timeout_secs
      /\ Hex(64, s.request_hash) = Hex(64, t.request_hash)
  BY <1>1 DEF requirements
<1> QED
  BY <1>2 DEF caip2, Dec, Pubkey, Hex

\* An offer whose terms are still the server's, made for whatever configuration
\* and request, is accepted from its payer in time.
LEMMA OfferAccepted ==
  ASSUME ClockFits, TypeOK, OffersChecked,
         NEW o \in offered, NEW q \in Requests, NEW pre \in Preimages,
         o = requirements(terms(q), o.extra.invoice),
         decode(o.extra.invoice).payment_hash = Sha256(pre),
         decode(o.extra.invoice).created <= clock + config.clock_skew_secs,
         clock <= decode(o.extra.invoice).created + decode(o.extra.invoice).expiry
                    + config.clock_skew_secs
  PROVE  Accepts(HonestPayload(o, pre), terms(q), clock)
<1>1. PICK c \in Configs, q0 \in Requests, p \in Preimages, t \in 0 .. UMax :
        /\ o = requirements(TermsOf(c, q0), Bolt11(LndInvoice(c, q0, p, t)))
        /\ Decodes(o.extra.invoice)
  BY DEF OffersChecked
<1> DEFINE raw == LndInvoice(c, q0, p, t)
           inv == decode(Bolt11(raw))
<1>2. o.extra.invoice = Bolt11(raw)
  BY <1>1 DEF requirements
<1> HIDE DEF raw
<1>3. /\ inv.description_hash = <<request_hash(c, q0)>>
      /\ inv.payee = c.pay_to
      /\ inv.currency = currency(c.network)
      /\ inv.expiry = c.max_timeout_secs
      /\ inv.created = t
      /\ raw.amount_pico_btc = <<10 * c.amount_msat>>
  BY DEF raw, decode, Bolt11, LndInvoice
<1>4. inv.amount_msat = <<c.amount_msat>>
  <2>1. inv.amount_msat = [i \in {1} |-> (10 * c.amount_msat) \div 10]
    BY <1>3 DEF decode, Bolt11
  <2>2. c.amount_msat \in Nat
    BY X402Assumption, IMaxAssumption
  <2>3. (10 * c.amount_msat) \div 10 = c.amount_msat
    BY <2>2
  <2> QED BY <2>1, <2>3
<1> HIDE DEF inv
<1>5. /\ c.network = config.network /\ c.amount_msat = config.amount_msat
      /\ c.pay_to = config.pay_to /\ c.max_timeout_secs = config.max_timeout_secs
      /\ request_hash(c, q0) = request_hash(config, q)
  <2>1. requirements(TermsOf(c, q0), Bolt11(raw)) = requirements(terms(q), Bolt11(raw))
    BY <1>1, <1>2 DEF raw
  <2> QED BY <2>1, SameRequirements DEF terms, TermsOf
<1>6. /\ config.clock_skew_secs \in Nat /\ clock \in 0 .. UMax /\ t \in 0 .. UMax
      /\ c.max_timeout_secs \in Nat
  BY SkewType, X402Assumption, LnbtcAssumption, IMaxAssumption DEF TypeOK, ClockFits
<1>7. inv.created <= saturating_add(clock, config.clock_skew_secs)
  BY <1>2, <1>3, <1>6, LnbtcAssumption DEF saturating_add, inv
<1>8. clock <= last_valid(inv, config)
  <2>1. clock <= t + c.max_timeout_secs + config.clock_skew_secs
    BY <1>2, <1>3 DEF inv
  <2> QED BY <1>3, <1>6, <2>1, LnbtcAssumption DEF last_valid, end, saturating_add
<1>9. /\ terms(q).binding_params = http_params(BOUND_HEADERS)
      /\ terms(q).clock_skew_secs = config.clock_skew_secs
      /\ terms(q).network = config.network /\ terms(q).amount_msat = config.amount_msat
      /\ terms(q).pay_to = config.pay_to
      /\ terms(q).max_timeout_secs = config.max_timeout_secs
      /\ terms(q).request_hash = request_hash(config, q)
  BY DEF terms, TermsOf
<1>10. clock <= last_valid(inv, terms(q))
  BY <1>8, <1>9 DEF last_valid
<1>11. Accepts(HonestPayload(requirements(terms(q), Bolt11(raw)), pre), terms(q), clock)
  BY <1>1, <1>2, <1>3, <1>4, <1>5, <1>7, <1>9, <1>10, HonestAccepted DEF inv
<1> QED
  BY <1>2, <1>11

\* An offer on the server's present terms is honoured until its invoice's expiry
\* plus the skew, across restarts, new configurations and clocks that disagree.
THEOREM OffersAreHonoured == ASSUME ClockFits PROVE Spec => []OfferHonoured
<1>1. TypeOK /\ OfferInv => OfferHonoured
  <2> SUFFICES ASSUME TypeOK, OfferInv, NEW o \in offered, NEW q \in Requests,
                      NEW p \in Preimages,
                      o = requirements(terms(q), o.extra.invoice),
                      decode(o.extra.invoice).payment_hash = Sha256(p),
                      spends[Sha256(p)] = 0,
                      decode(o.extra.invoice).created
                        <= clock + config.clock_skew_secs,
                      clock <= decode(o.extra.invoice).created
                                 + decode(o.extra.invoice).expiry
                                 + config.clock_skew_secs
               PROVE  /\ Accepts(HonestPayload(o, p), terms(q), clock)
                      /\ ~ HasKey(key(config.network, Sha256(p)))
    BY DEF OfferHonoured
  <2>1. Accepts(HonestPayload(o, p), terms(q), clock)
    BY OfferAccepted DEF OfferInv
  <2>2. Sha256(p) \in Hashes /\ config.network \in Network
    BY SkewType DEF Hashes, TypeOK
  <2>3. ~ HasKey(key(config.network, Sha256(p)))
    BY <2>2 DEF OfferInv, KeysAreSpent, HasKey
  <2> QED BY <2>1, <2>3
<1> QED
  BY <1>1, OfferInvariant, PTL

-----------------------------------------------------------------------------
(* Payments made in time. *)

\* What clients were sent is what LND issued.
LEMMA SentWereIssued ==
  ASSUME TypeOK, NEW i \in SentInvoices
  PROVE  \E raw \in invoices : i = Bolt11(raw)
<1>1. CASE \E o \in offered : i = o.extra.invoice
  <2>1. PICK o \in offered : i = o.extra.invoice
    BY <1>1
  <2>2. PICK c \in Configs, q \in Requests, raw \in invoices :
          o = requirements(TermsOf(c, q), Bolt11(raw))
    BY DEF TypeOK
  <2>3. o.extra.invoice = Bolt11(raw)
    BY <2>2 DEF requirements
  <2> QED BY <2>1, <2>3
<1>2. CASE \E raw \in invoices : i = Bolt11(raw)
  BY <1>2
<1> QED BY <1>1, <1>2 DEF SentInvoices

\* What decode reads of an invoice that LND made.
LEMMA LndFields ==
  ASSUME NEW raw, ByLnd(raw)
  PROVE  /\ raw.payment_hashes = <<decode(Bolt11(raw)).payment_hash>>
         /\ decode(Bolt11(raw)).created \in Nat
         /\ decode(Bolt11(raw)).expiry \in Nat
<1>1. PICK c \in Configs, p \in Preimages, t \in 0 .. MaxTime + Drift :
        \/ \E q \in Requests : raw = LndInvoice(c, q, p, t)
        \/ raw = FortuneInvoice(c, p, t)
  BY DEF ByLnd
<1>2. /\ raw.payment_hashes = <<Sha256(p)>> /\ raw.timestamp = t
      /\ raw.expiry = <<c.max_timeout_secs>>
  BY <1>1 DEF LndInvoice, FortuneInvoice
<1>3. /\ decode(Bolt11(raw)).payment_hash = Sha256(p)
      /\ decode(Bolt11(raw)).created = t
      /\ decode(Bolt11(raw)).expiry = c.max_timeout_secs
  <2>1. /\ decode(Bolt11(raw)).payment_hash = raw.payment_hashes[1]
        /\ decode(Bolt11(raw)).created = raw.timestamp
        /\ decode(Bolt11(raw)).expiry = IF raw.expiry = <<>>
                                        THEN DEFAULT_INVOICE_EXPIRY_SECS
                                        ELSE raw.expiry[1]
    BY DEF decode, Bolt11
  <2>2. raw.expiry # <<>> /\ raw.expiry[1] = c.max_timeout_secs
    BY <1>2
  <2> QED BY <1>2, <2>1, <2>2
<1>4. t \in Nat /\ c.max_timeout_secs \in Nat
  BY X402Assumption
<1> QED BY <1>2, <1>3, <1>4

\* A payment of an invoice that one challenge offered is one of that challenge,
\* since LND does not repeat a payment hash, and then it came in time.
LEMMA PaidStep ==
  ASSUME ClockFits, TypeOK, FreshHashes, OffersChecked, [Next]_vars,
         NEW h \in paid' \ paid, NEW o \in offered, NEW q \in Requests,
         NEW p \in Preimages, h = Sha256(p),
         decode(o.extra.invoice).payment_hash = h,
         o = requirements(terms(q), o.extra.invoice),
         Drift <= config.clock_skew_secs,
         decode(o.extra.invoice).created <= clock + Drift
  PROVE  Accepts(HonestPayload(o, p), terms(q), clock)
<1> DEFINE inv == decode(o.extra.invoice)
<1>1. PICK g \in Hashes : Pay(g)
  BY DEF Next, vars, envVars, HandlerStep, HandlerFrame, PrunerFrame, ClockFrame, Receive,
         Present, Issue, IssueFails, SendChallenge, Settle, Duplicate, StoreFails,
         Serve, PruneTick, Prune, PruneFails, Crash, Restart, Tick, StepBack,
         FortuneIssue
<1>2. PICK i \in SentInvoices : decode(i).payment_hash = h /\ clock <= end(decode(i)) + Drift
  <2>1. g = h
    BY <1>1 DEF Pay
  <2> QED BY <1>1, <2>1 DEF Pay
<1>3. PICK raw \in invoices : i = Bolt11(raw)
  BY SentWereIssued
<1>4. PICK other \in invoices : o.extra.invoice = Bolt11(other)
  <2>1. o.extra.invoice \in SentInvoices
    BY DEF SentInvoices
  <2> QED BY <2>1, SentWereIssued
<1>5. ByLnd(raw) /\ ByLnd(other)
  BY DEF TypeOK
<1>6. raw = other
  BY <1>2, <1>3, <1>4, <1>5, LndFields DEF FreshHashes
<1>7. inv.created \in Nat /\ inv.expiry \in Nat
  BY <1>4, <1>5, LndFields
<1>8. clock <= end(inv) + Drift
  BY <1>2, <1>3, <1>4, <1>6
<1> HIDE DEF inv
<1>9. config.clock_skew_secs \in Nat /\ clock \in Nat /\ Drift \in Nat
  BY SkewType, X402Assumption DEF TypeOK
<1>10. end(inv) \in Nat /\ end(inv) <= inv.created + inv.expiry
  BY <1>7, LnbtcAssumption DEF end, saturating_add
<1>11. /\ inv.created <= clock + config.clock_skew_secs
       /\ clock <= inv.created + inv.expiry + config.clock_skew_secs
  BY <1>7, <1>8, <1>9, <1>10 DEF inv
<1> QED BY <1>11, OfferAccepted DEF inv

\* Whoever pays an offer on the server's present terms while LND takes the
\* payment can claim at that moment, if the skew covers the clocks' difference.
THEOREM PaymentsInTimeAreClaimable ==
  ASSUME ClockFits PROVE Spec => PaidInTimeIsClaimable
<1>1. TypeOK /\ FreshHashes /\ OfferInv /\ [Next]_vars
        => [\A h \in paid' \ paid, o \in offered, q \in Requests, p \in Preimages :
              LET inv == decode(o.extra.invoice)
              IN  /\ h = Sha256(p) /\ inv.payment_hash = h
                  /\ o = requirements(terms(q), o.extra.invoice)
                  /\ Drift <= config.clock_skew_secs /\ inv.created <= clock + Drift
                  => Accepts(HonestPayload(o, p), terms(q), clock)]_vars
  BY PaidStep DEF OfferInv
<1>2. Init => FreshHashes
  BY DEF Init, FreshHashes
<1> QED
  BY <1>1, <1>2, OfferInvariant, FreshStep, PTL DEF Spec, PaidInTimeIsClaimable

-----------------------------------------------------------------------------
(* Accepted payments. *)

\* Only its own response or the end of the process moves a settled handler on.
LEMMA SettledStays ==
  ASSUME TypeOK, [Next]_vars,
         NEW r \in Handlers, Stage(r) = "settled", ~ Serve(r), ~ Crash
  PROVE  handler'[r] = handler[r]
<1>1. CASE UNCHANGED handler
  BY <1>1
<1>2. ASSUME NEW s \in Handlers, NEW t, Becomes(s, t), s # r
      PROVE  handler'[r] = handler[r]
  BY <1>2 DEF Becomes, TypeOK
<1>3. ASSUME NEW s \in Handlers, NEW q \in Requests, Receive(s, q) \/ Present(s, q)
      PROVE  handler'[r] = handler[r]
  <2>1. s # r /\ \E t : Becomes(s, t)
    BY <1>3 DEF Receive, Present
  <2> QED BY <1>2, <2>1
<1>4. ASSUME NEW s \in Handlers, HandlerStep(s), ~ Serve(s)
      PROVE  handler'[r] = handler[r]
  <2>1. s # r
    BY <1>4 DEF HandlerStep, Issue, IssueFails, SendChallenge, Settle, Duplicate,
                StoreFails
  <2>2. \E t : Becomes(s, t)
    BY <1>4 DEF HandlerStep, Issue, IssueFails, SendChallenge, Settle, Duplicate,
                StoreFails
  <2> QED BY <1>2, <2>1, <2>2
<1>5. ASSUME NEW s \in Handlers, Serve(s)
      PROVE  handler'[r] = handler[r]
  BY <1>2, <1>5 DEF Serve
<1> QED
  BY <1>1, <1>3, <1>4, <1>5
     DEF Next, vars, PrunerFrame, ClockFrame, PruneTick, Prune, PruneFails, Restart,
         Pay, Tick, StepBack, FortuneIssue, HandlerFrame

\* A step that leaves an accepted payment without its handler ends the process.
LEMMA LostStep ==
  RetentionBudget /\ IndInv /\ [Next]_vars
    => \A h \in Hashes : Lost(h)' => Lost(h) \/ ~ up'
<1> SUFFICES ASSUME RetentionBudget, IndInv, [Next]_vars,
                    NEW h \in Hashes, Lost(h)', ~ Lost(h), ~ Crash
             PROVE  FALSE
  BY DEF Crash
<1> USE DEF IndInv
<1>1. ASSUME Owed(h), NEW r \in Handlers, Serve(r), handler[r].hash = h
      PROVE  FALSE
  <2>1. spends[h] = 1 /\ dispensed[h] = 0
    BY <1>1 DEF Serve, SettledInv
  <2>2. spends'[h] = 1 /\ dispensed'[h] = 1
    BY <1>1, <2>1 DEF Serve, TypeOK
  <2> QED BY <2>2 DEF Lost, Owed
<1>2. CASE Owed(h)
  <2>1. PICK r \in Handlers : Stage(r) = "settled" /\ handler[r].hash = h
    BY <1>2 DEF Lost
  <2>2. ~ Serve(r)
    BY <1>1, <1>2, <2>1
  <2>3. handler'[r] = handler[r]
    BY <2>1, <2>2, SettledStays
  <2> QED BY <2>1, <2>3 DEF Lost, Stage
<1>3. CASE ~ Owed(h)
  <2>1. PICK r \in Handlers : Settle(r) \/ Serve(r)
    BY <1>3
       DEF Lost, Owed, Next, vars, salesVars, HandlerStep, PrunerFrame, ClockFrame,
           Receive, Present, Issue, IssueFails, SendChallenge, Duplicate,
           StoreFails, PruneTick, Prune, PruneFails, Crash, Restart, Pay, Tick,
           StepBack, FortuneIssue
  <2>2. CASE Settle(r)
    <3>1. handler'[r] = Settled(handler[r].request, handler[r].hash)
      BY <2>2 DEF Settle, Becomes, TypeOK
    <3>2. Stage(r)' = "settled" /\ handler'[r].hash = handler[r].hash
      BY <3>1 DEF Settled, Stage
    <3>3. handler[r].hash # h
      BY <3>2 DEF Lost
    <3>4. spends'[h] = spends[h] /\ dispensed'[h] = dispensed[h]
      BY <2>2, <3>3 DEF Settle, TypeOK
    <3> QED BY <1>3, <3>4 DEF Lost, Owed
  <2>3. CASE Serve(r)
    <3>1. spends' = spends /\ dispensed'[h] \in Nat /\ dispensed'[h] >= dispensed[h]
      BY <2>3 DEF Serve, TypeOK
    <3>2. dispensed[h] \in Nat /\ spends[h] \in Nat
      BY DEF TypeOK
    <3> QED BY <1>3, <3>1, <3>2 DEF Lost, Owed
  <2> QED BY <2>1, <2>2, <2>3
<1> QED BY <1>2, <1>3

\* Between the INSERT and the response a payment is lost only with the process,
\* under any schedule of requests, disconnects, store failures and prunes.
THEOREM AcceptedPaymentsAreServed ==
  ASSUME RetentionBudget PROVE Spec => SettledIsServed
<1>1. RetentionBudget /\ IndInv /\ [Next]_vars
        => [\A h \in Hashes : Lost(h)' => Lost(h) \/ ~ up']_vars
  BY LostStep
<1> QED
  BY <1>1, Inductive, PTL DEF Spec, SettledIsServed
=============================================================================
