---------------------------- MODULE X402_proofs ----------------------------
(***************************************************************************)
(* Theorems about X402, for every value of its constants.                  *)
(***************************************************************************)
EXTENDS X402, TLAPS

-----------------------------------------------------------------------------
(* The operators the model is built from. *)

\* Distinct networks have distinct currencies.
LEMMA CurrencyInjective ==
  ASSUME NEW m \in Network, NEW n \in Network, currency(m) = currency(n)
  PROVE  m = n
  BY DEF Network, currency

\* A replay key determines its network and its payment hash.
LEMMA KeyInjective ==
  ASSUME NEW m, NEW n, NEW g, NEW h, key(m, g) = key(n, h)
  PROVE  m = n /\ g = h
  BY DEF key, caip2, Hex

\* Sha256 is injective, as the model assumes.
LEMMA Sha256Injective ==
  ASSUME NEW x, NEW y, Sha256(x) = Sha256(y)
  PROVE  x = y
  BY DEF Sha256

\* A saturating sum is a u64 that is at most the true sum.
LEMMA SaturatingAdd ==
  ASSUME NEW a \in Nat, NEW b \in Nat
  PROVE  /\ saturating_add(a, b) \in 0 .. UMax
         /\ saturating_add(a, b) <= a + b
         /\ saturating_add(a, b) < UMax => saturating_add(a, b) = a + b
  BY LnbtcAssumption DEF saturating_add

\* What decoding an LND invoice yields.
LEMMA DecodeLnd ==
  ASSUME NEW c \in Configs, NEW p, NEW t, NEW raw,
         (\E q : raw = LndInvoice(c, q, p, t)) \/ raw = FortuneInvoice(c, p, t)
  PROVE  LET inv == decode(Bolt11(raw))
         IN  /\ raw.payment_hashes = <<Sha256(p)>>
             /\ inv.payment_hash = Sha256(p)
             /\ inv.created = t
             /\ inv.expiry = c.max_timeout_secs
             /\ inv.currency = currency(c.network)
  BY DEF decode, Bolt11, LndInvoice, FortuneInvoice

\* Every issued invoice has the fields LND gave it.
LEMMA IssuedFields ==
  ASSUME TypeOK, NEW raw \in invoices
  PROVE  LET inv == decode(Bolt11(raw))
         IN  /\ raw.payment_hashes = <<inv.payment_hash>>
             /\ inv.payment_hash \in Hashes
             /\ inv.created \in Nat
             /\ inv.expiry \in Nat
             /\ \E c \in Configs : inv.currency = currency(c.network)
<1>1. PICK c \in Configs, p \in Preimages, t \in 0 .. MaxTime + Drift :
        (\E q : raw = LndInvoice(c, q, p, t)) \/ raw = FortuneInvoice(c, p, t)
  BY DEF TypeOK, ByLnd
<1>2. Sha256(p) \in Hashes
  BY DEF Hashes
<1>3. c.max_timeout_secs \in Nat /\ t \in Nat
  BY X402Assumption, IMaxAssumption
<1> QED
  BY <1>1, <1>2, <1>3, DecodeLnd

\* The last valid second is a u64 and at most the true sum; what the key is
\* retained until is the true sum unless it saturates.
LEMMA Retention ==
  ASSUME NEW inv, inv.created \in Nat, inv.expiry \in Nat,
         NEW t, t.clock_skew_secs \in Nat
  PROVE  /\ last_valid(inv, t) \in 0 .. UMax
         /\ last_valid(inv, t) <= inv.created + inv.expiry + t.clock_skew_secs
         /\ retain_until(inv, t) \in 0 .. UMax
         /\ retain_until(inv, t) < UMax
              => retain_until(inv, t) = inv.created + inv.expiry
                                        + t.clock_skew_secs + REPLAY_RETENTION_SECS
  BY LnbtcAssumption, Z3 DEF last_valid, retain_until, end, saturating_add

\* A row is pruned only when the pruner's reading is past the true end of its
\* retention: neither saturation nor the clamp to i64 lets it go earlier.
LEMMA PrunedLate ==
  ASSUME NEW inv, inv.created \in Nat, inv.expiry \in Nat,
         NEW t, t.clock_skew_secs \in Nat, NEW now \in Nat,
         to_sql_time(retain_until(inv, t)) < to_sql_time(now)
  PROVE  now > inv.created + inv.expiry + t.clock_skew_secs + REPLAY_RETENTION_SECS
<1>1. retain_until(inv, t) \in 0 .. UMax
  BY Retention
<1>2. retain_until(inv, t) < IMax /\ retain_until(inv, t) < now
  BY <1>1, LnbtcAssumption, IMaxAssumption DEF to_sql_time
<1>3. retain_until(inv, t) < UMax
  BY <1>1, <1>2, X402Assumption, LnbtcAssumption, IMaxAssumption
<1> QED
  BY <1>1, <1>2, <1>3, Retention

\* The clamp keeps a u64 time in i64.
LEMMA SqlTimeType ==
  ASSUME NEW secs \in Nat
  PROVE  to_sql_time(secs) \in 0 .. IMax
  BY IMaxAssumption DEF to_sql_time

\* The skew of a configuration is a u64.
LEMMA SkewType ==
  ASSUME NEW c \in Configs
  PROVE  c.clock_skew_secs \in Nat /\ c.network \in Network
  BY X402Assumption, LnbtcAssumption

\* What verify has established when it accepts a client's payload.
LEMMA AcceptedFacts ==
  ASSUME TypeOK, NEW q \in Requests, NEW payload \in Payloads(q),
         Accepts(payload, terms(q), clock)
  PROVE  \E raw \in invoices :
           LET inv == decode(Bolt11(raw))
           IN  /\ payload.accepted.extra.invoice = Bolt11(raw)
               /\ inv.payment_hash \in paid
               /\ inv.description_hash = <<request_hash(config, q)>>
               /\ inv.amount_msat = <<config.amount_msat>>
               /\ inv.payee = config.pay_to
               /\ inv.currency = currency(config.network)
               /\ clock <= last_valid(inv, config)
               /\ retain_until(inv, terms(q)) = retain_until(inv, config)
<1>1. PICK a, w : /\ payload = [accepted |-> a, preimage |-> w]
                  /\ a \in offered \cup {requirements(terms(q), i) :
                                            i \in SentInvoices}
                  /\ w \in {Absent} \cup {Hex(64, p) : p \in KnownPreimages}
  BY DEF Payloads
<1>2. a.extra.invoice \in SentInvoices
  BY <1>1 DEF requirements, SentInvoices
<1>3. PICK raw \in invoices : a.extra.invoice = Bolt11(raw)
  BY <1>2 DEF SentInvoices, TypeOK, requirements
<1> DEFINE inv == decode(Bolt11(raw))
<1>4. /\ Passes(InvoiceChecks(inv, terms(q), clock))
      /\ Passes(PreimageChecks(w, inv))
      /\ Passes(ExpiryChecks(inv, terms(q), clock))
  BY <1>1, <1>3 DEF Accepts
<1>5. /\ inv.description_hash = <<terms(q).request_hash>>
      /\ inv.payee = terms(q).pay_to
      /\ inv.currency = currency(terms(q).network)
      /\ inv.amount_msat = <<terms(q).amount_msat>>
  <2> DEFINE checks == InvoiceChecks(inv, terms(q), clock)
  <2> HIDE DEF inv
  <2>1. \A i \in 1 .. 7 : checks[i] = Ok
    BY <1>4 DEF Passes, InvoiceChecks
  <2>2. checks[2] = Ok /\ checks[3] = Ok /\ checks[4] = Ok /\ checks[5] = Ok
    BY <2>1
  <2> QED BY <2>2 DEF InvoiceChecks, Check, Ok
<1>6. clock <= last_valid(inv, terms(q))
  <2> HIDE DEF inv
  <2> QED BY <1>4 DEF Passes, ExpiryChecks, Check, Ok
<1>7. /\ w # Absent
      /\ IsHex(w) => Sha256(w[3]) = inv.payment_hash
  <2> HIDE DEF inv
  <2> QED BY <1>4 DEF Passes, PreimageChecks, Check, Ok, IsHex
<1>8. inv.payment_hash \in paid
  <2>1. PICK p \in KnownPreimages : w = Hex(64, p)
    BY <1>1, <1>7
  <2>2. IsHex(w) /\ w[3] = p
    BY <2>1 DEF IsHex, Hex
  <2> QED BY <1>7, <2>1, <2>2 DEF KnownPreimages
<1>9. /\ terms(q).request_hash = request_hash(config, q)
      /\ terms(q).pay_to = config.pay_to
      /\ terms(q).network = config.network
      /\ terms(q).amount_msat = config.amount_msat
      /\ terms(q).clock_skew_secs = config.clock_skew_secs
  BY DEF terms, TermsOf
<1>10. /\ last_valid(inv, terms(q)) = last_valid(inv, config)
       /\ retain_until(inv, terms(q)) = retain_until(inv, config)
  BY <1>9 DEF last_valid, retain_until
<1> QED
  BY <1>1, <1>3, <1>5, <1>6, <1>8, <1>9, <1>10

-----------------------------------------------------------------------------
(* Type correctness. *)

\* A well-formed handler stays so when LND issues more invoices.
LEMMA HandlerOKMonotone ==
  ASSUME NEW s, NEW issued, NEW more, issued \subseteq more, HandlerOK(s, issued)
  PROVE  HandlerOK(s, more)
  BY DEF HandlerOK

\* What a well-formed handler holds at each of its stages.
LEMMA HandlerFields ==
  ASSUME NEW s, NEW issued, HandlerOK(s, issued)
  PROVE  /\ s.stage \in {"idle", "issuing", "issued", "settling", "settled"}
         /\ s.stage = "idle" => s = Idle
         /\ s.stage # "idle" => s.request \in Requests
         /\ s.stage = "issued" => s.raw \in issued
         /\ s.stage \in {"settling", "settled"} => s.hash \in Hashes
         /\ s.stage = "settling" => s.now \in 0 .. MaxTime /\ s.until \in 0 .. UMax
  BY DEF HandlerOK, Idle, Issuing, Issued, Settling, Settled

\* Updating one handler to a well-formed state keeps them all well formed.
LEMMA HandlerUpdate ==
  ASSUME NEW f, DOMAIN f = Handlers, NEW issued, NEW more, issued \subseteq more,
         \A r \in Handlers : HandlerOK(f[r], issued),
         NEW r \in Handlers, NEW s, HandlerOK(s, more)
  PROVE  LET g == [f EXCEPT ![r] = s]
         IN  DOMAIN g = Handlers /\ \A x \in Handlers : HandlerOK(g[x], more)
  BY HandlerOKMonotone

\* Each step keeps the state well formed.
LEMMA TypeStep == TypeOK /\ [Next]_vars => TypeOK'
<1> SUFFICES ASSUME TypeOK, [Next]_vars
             PROVE  TypeOK'
  OBVIOUS
<1> USE DEF HandlerFrame, PrunerFrame, ClockFrame, envVars, salesVars
<1>1. ASSUME NEW r \in Handlers, NEW q \in Requests, Receive(r, q)
      PROVE  TypeOK'
  <2>1. HandlerOK(Issuing(q), invoices)
    BY DEF HandlerOK
  <2> QED BY <1>1, <2>1, HandlerUpdate DEF Receive, Becomes, TypeOK
<1>2. ASSUME NEW r \in Handlers, NEW q \in Requests, Present(r, q)
      PROVE  TypeOK'
  <2>1. PICK payload \in Payloads(q) :
          LET inv == decode(payload.accepted.extra.invoice)
          IN  \/ /\ Accepts(payload, terms(q), clock)
                 /\ Becomes(r, Settling(q, inv.payment_hash, clock,
                                        retain_until(inv, terms(q))))
              \/ Becomes(r, Issuing(q))
    BY <1>2 DEF Present
  <2> DEFINE inv == decode(payload.accepted.extra.invoice)
  <2>2. CASE Becomes(r, Issuing(q))
    <3>1. HandlerOK(Issuing(q), invoices)
      BY DEF HandlerOK
    <3> QED BY <1>2, <2>2, <3>1, HandlerUpdate DEF Present, Becomes, TypeOK
  <2>3. CASE /\ Accepts(payload, terms(q), clock)
             /\ Becomes(r, Settling(q, inv.payment_hash, clock,
                                    retain_until(inv, terms(q))))
    <3>1. PICK raw \in invoices :
            /\ payload.accepted.extra.invoice = Bolt11(raw)
            /\ retain_until(inv, terms(q)) = retain_until(inv, config)
      BY <2>3, AcceptedFacts
    <3>2. inv.payment_hash \in Hashes /\ inv.created \in Nat /\ inv.expiry \in Nat
      BY <3>1, IssuedFields
    <3>3. config.clock_skew_secs \in Nat
      BY SkewType DEF TypeOK
    <3>4. retain_until(inv, terms(q)) \in 0 .. UMax
      <4> HIDE DEF inv
      <4> QED BY <3>1, <3>2, <3>3, Retention
    <3>5. HandlerOK(Settling(q, inv.payment_hash, clock,
                             retain_until(inv, terms(q))), invoices)
      <4> HIDE DEF inv
      <4> QED BY <3>2, <3>4 DEF HandlerOK, TypeOK
    <3> HIDE DEF inv
    <3> QED BY <1>2, <2>3, <3>5, HandlerUpdate DEF Present, Becomes, TypeOK
  <2> QED BY <2>1, <2>2, <2>3
<1>3. ASSUME NEW r \in Handlers, Issue(r)
      PROVE  TypeOK'
  <2>1. PICK p \in Preimages, t \in 0 .. MaxTime + Drift :
          LET raw == LndInvoice(config, handler[r].request, p, t)
          IN  /\ invoices' = invoices \cup {raw}
              /\ Becomes(r, Issued(handler[r].request, raw))
    BY <1>3 DEF Issue
  <2> DEFINE q   == handler[r].request
             raw == LndInvoice(config, q, p, t)
  <2>2. q \in Requests
    BY <1>3, HandlerFields DEF TypeOK, Issue, Stage
  <2>3. config \in Configs
    BY DEF TypeOK
  <2>4. /\ invoices \subseteq invoices'
        /\ \A other \in invoices' : ByLnd(other)
    BY <2>1, <2>2, <2>3 DEF TypeOK, ByLnd
  <2>5. HandlerOK(Issued(q, raw), invoices')
    <3> HIDE DEF q, raw
    <3> QED BY <2>1, <2>2 DEF HandlerOK, q, raw
  <2>6. /\ DOMAIN handler' = Handlers
        /\ \A x \in Handlers : HandlerOK(handler'[x], invoices')
    <3>1. handler' = [handler EXCEPT ![r] = Issued(q, raw)]
      BY <2>1 DEF Becomes
    <3> HIDE DEF q, raw
    <3> QED BY <2>4, <2>5, <3>1, HandlerUpdate DEF TypeOK
  <2>7. UNCHANGED <<clock, high, up, config, pruner, consumed, offered, paid,
                    spends, dispensed>>
    BY <1>3 DEF Issue
  <2>8. \A o \in offered' :
          \E c \in Configs, s \in Requests, other \in invoices' :
            o = requirements(TermsOf(c, s), Bolt11(other))
    BY <2>4, <2>7 DEF TypeOK
  <2> HIDE DEF q, raw
  <2> QED BY <2>4, <2>6, <2>7, <2>8 DEF TypeOK
<1>4. ASSUME NEW r \in Handlers, IssueFails(r)
      PROVE  TypeOK'
  <2>1. HandlerOK(Idle, invoices)
    BY DEF HandlerOK
  <2> QED BY <1>4, <2>1, HandlerUpdate DEF IssueFails, Becomes, TypeOK
<1>5. ASSUME NEW r \in Handlers, SendChallenge(r)
      PROVE  TypeOK'
  <2>1. HandlerOK(Idle, invoices)
    BY DEF HandlerOK
  <2>2. /\ handler[r].request \in Requests
        /\ handler[r].raw \in invoices
    BY <1>5, HandlerFields DEF TypeOK, SendChallenge, Stage
  <2>3. \A o \in offered' :
          \E c \in Configs, q \in Requests, raw \in invoices :
            o = requirements(TermsOf(c, q), Bolt11(raw))
    <3>1. \A o \in offered' :
            \/ o \in offered
            \/ o = requirements(TermsOf(config, handler[r].request),
                                Bolt11(handler[r].raw))
      BY <1>5 DEF SendChallenge, terms
    <3> QED BY <2>2, <3>1 DEF TypeOK
  <2> QED BY <1>5, <2>1, <2>3, HandlerUpdate DEF SendChallenge, Becomes, TypeOK
<1>6. ASSUME NEW r \in Handlers, Settle(r)
      PROVE  TypeOK'
  <2>1. /\ handler[r].request \in Requests
        /\ handler[r].hash \in Hashes
        /\ handler[r].until \in 0 .. UMax
    BY <1>6, HandlerFields DEF TypeOK, Settle, Stage
  <2>2. HandlerOK(Settled(handler[r].request, handler[r].hash), invoices)
    BY <2>1 DEF HandlerOK
  <2>3. \A row \in consumed' :
          /\ row.retain_until \in 0 .. IMax
          /\ \E n \in Network, h \in Hashes :
               row = [key |-> key(n, h), retain_until |-> row.retain_until]
    <3>1. to_sql_time(handler[r].until) \in 0 .. IMax
      BY <2>1, SqlTimeType, LnbtcAssumption
    <3>2. config.network \in Network
      BY SkewType DEF TypeOK
    <3>3. consumed' = consumed \cup
            {[key |-> key(config.network, handler[r].hash),
              retain_until |-> to_sql_time(handler[r].until)]}
      BY <1>6 DEF Settle, Consume, ReplayKey
    <3> QED BY <2>1, <3>1, <3>2, <3>3 DEF TypeOK
  <2>4. spends' \in [Hashes -> Nat]
    BY <1>6, <2>1 DEF Settle, TypeOK
  <2> QED BY <1>6, <2>2, <2>3, <2>4, HandlerUpdate DEF Settle, Becomes, TypeOK
<1>7. ASSUME NEW r \in Handlers, Duplicate(r)
      PROVE  TypeOK'
  <2>1. handler[r].request \in Requests
    BY <1>7, HandlerFields DEF TypeOK, Duplicate, Stage
  <2>2. HandlerOK(Issuing(handler[r].request), invoices)
    BY <2>1 DEF HandlerOK
  <2> QED BY <1>7, <2>2, HandlerUpdate DEF Duplicate, Conflict, Becomes, TypeOK
<1>8. ASSUME NEW r \in Handlers, StoreFails(r)
      PROVE  TypeOK'
  <2>1. HandlerOK(Idle, invoices)
    BY DEF HandlerOK
  <2> QED BY <1>8, <2>1, HandlerUpdate DEF StoreFails, Becomes, TypeOK
<1>9. ASSUME NEW r \in Handlers, Serve(r)
      PROVE  TypeOK'
  <2>1. HandlerOK(Idle, invoices)
    BY DEF HandlerOK
  <2>2. dispensed' \in [Hashes -> Nat]
    <3>1. handler[r].hash \in Hashes
      BY <1>9, HandlerFields DEF TypeOK, Serve, Stage
    <3> QED BY <1>9, <3>1 DEF Serve, TypeOK
  <2> QED BY <1>9, <2>1, <2>2, HandlerUpdate DEF Serve, Becomes, TypeOK
<1>10. CASE PruneTick
  BY <1>10 DEF PruneTick, TypeOK
<1>11. CASE Prune
  <2>1. consumed' \subseteq consumed
    BY <1>11 DEF Prune, prune
  <2> QED BY <1>11, <2>1 DEF Prune, TypeOK
<1>12. CASE PruneFails
  BY <1>12 DEF PruneFails, TypeOK
<1>13. CASE Crash
  <2>1. HandlerOK(Idle, invoices)
    BY DEF HandlerOK
  <2> QED BY <1>13, <2>1 DEF Crash, TypeOK
<1>14. ASSUME NEW c \in Configs, Restart(c)
       PROVE  TypeOK'
  BY <1>14 DEF Restart, TypeOK
<1>15. ASSUME NEW h \in Hashes, Pay(h)
       PROVE  TypeOK'
  BY <1>15 DEF Pay, TypeOK
<1>16. CASE Tick
  <2>1. clock' \in 0 .. MaxTime /\ high' \in 0 .. MaxTime
    BY <1>16, X402Assumption DEF Tick, TypeOK
  <2> QED BY <1>16, <2>1 DEF Tick, TypeOK
<1>17. CASE StepBack
  BY <1>17 DEF StepBack, TypeOK
<1>18. CASE FortuneIssue
  <2>1. PICK p \in Preimages, t \in 0 .. MaxTime + Drift :
          invoices' = invoices \cup {FortuneInvoice(config, p, t)}
    BY <1>18 DEF FortuneIssue
  <2>2. /\ invoices \subseteq invoices'
        /\ \A other \in invoices' : ByLnd(other)
    BY <2>1 DEF TypeOK, ByLnd
  <2>3. UNCHANGED <<clock, high, up, config, handler, pruner, consumed, offered,
                    paid, spends, dispensed>>
    BY <1>18 DEF FortuneIssue
  <2>4. \A x \in Handlers : HandlerOK(handler'[x], invoices')
    BY <2>2, <2>3, HandlerOKMonotone DEF TypeOK
  <2> QED BY <2>2, <2>3, <2>4 DEF TypeOK
<1>19. CASE UNCHANGED vars
  BY <1>19 DEF vars, TypeOK
<1> QED
  BY <1>1, <1>2, <1>3, <1>4, <1>5, <1>6, <1>7, <1>8, <1>9, <1>10, <1>11, <1>12,
     <1>13, <1>14, <1>15, <1>16, <1>17, <1>18, <1>19 DEF Next, HandlerStep

\* The initial state is well formed.
LEMMA TypeInit == Init => TypeOK
<1> SUFFICES ASSUME Init
             PROVE  TypeOK
  OBVIOUS
<1>1. HandlerOK(Idle, invoices)
  BY DEF HandlerOK
<1> QED
  BY <1>1, X402Assumption DEF Init, StoreInit, TypeOK

\* Every reachable state is well formed: in particular every offer and every
\* handler speaks of an invoice that LND issued under some configuration.
THEOREM TypeCorrect == Spec => []TypeOK
  BY TypeInit, TypeStep, PTL DEF Spec

-----------------------------------------------------------------------------
(* The inductive invariant. *)

\* The clock stays within MaxBack of its highest value, and the pruner's
\* reading is never ahead of that.
LEMMA ClocksStep ==
  TypeOK /\ ClocksAgree /\ [Next]_vars => ClocksAgree'
<1> SUFFICES ASSUME TypeOK, ClocksAgree, [Next]_vars
             PROVE  ClocksAgree'
  OBVIOUS
<1>1. clock \in Nat /\ high \in Nat /\ MaxBack \in Nat
  BY X402Assumption DEF TypeOK
<1>2. CASE UNCHANGED <<clock, high, pruner>>
  BY <1>2 DEF ClocksAgree
<1>3. CASE PruneTick
  BY <1>1, <1>3 DEF PruneTick, PrunerFrame, ClocksAgree
<1>4. CASE pruner' = <<>> /\ UNCHANGED <<clock, high>>
  BY <1>4 DEF ClocksAgree
<1>5. CASE Tick
  <2>1. pruner' = pruner /\ clock' = clock + 1
        /\ high' = IF clock' > high THEN clock' ELSE high
    BY <1>5 DEF Tick, ClockFrame
  <2>2. clock' <= high' /\ high' <= clock' + MaxBack /\ high <= high'
        /\ high' \in Nat
    BY <1>1, <2>1 DEF ClocksAgree
  <2>3. \A i \in DOMAIN pruner : pruner[i] \in Nat
    BY DEF TypeOK
  <2> QED BY <1>1, <2>1, <2>2, <2>3 DEF ClocksAgree
<1>6. CASE StepBack
  BY <1>1, <1>6 DEF StepBack, ClockFrame, ClocksAgree
<1> QED
  BY <1>2, <1>3, <1>4, <1>5, <1>6
     DEF Next, vars, HandlerStep, HandlerFrame, PrunerFrame, Receive, Present,
         Issue, IssueFails, SendChallenge, Settle, Duplicate, StoreFails, Serve,
         Prune, PruneFails, Crash, Restart, Pay, FortuneIssue

\* A process that is down has no handler and no pruner at work.
LEMMA DownStep ==
  TypeOK /\ DownIsIdle /\ [Next]_vars => DownIsIdle'
<1> SUFFICES ASSUME TypeOK, DownIsIdle, [Next]_vars, ~ up'
             PROVE  pruner' = <<>> /\ \A r \in Handlers : handler'[r] = Idle
  BY DEF DownIsIdle
<1>1. CASE Crash
  BY <1>1 DEF Crash
<1>2. CASE ~ up
  <2>1. pruner = <<>> /\ \A r \in Handlers : handler[r] = Idle
    BY <1>2 DEF DownIsIdle
  <2>2. \A r \in Handlers : Stage(r) = "idle"
    BY <2>1 DEF Stage, Idle
  <2>3. UNCHANGED <<pruner, handler>>
    BY <1>1, <1>2, <2>1, <2>2
       DEF Next, vars, HandlerStep, ClockFrame, Receive, Present, Issue,
           IssueFails, SendChallenge, Settle, Duplicate, StoreFails, Serve,
           PruneTick, Prune, PruneFails, Crash, Restart, Pay, Tick, StepBack,
           FortuneIssue
  <2> QED BY <2>1, <2>3
<1>3. CASE up /\ ~ Crash
  BY <1>3
     DEF Next, vars, HandlerStep, HandlerFrame, PrunerFrame, ClockFrame, Receive,
         Present, Issue, IssueFails, SendChallenge, Settle, Duplicate, StoreFails,
         Serve, PruneTick, Prune, PruneFails, Restart, Pay, Tick, StepBack,
         FortuneIssue
<1> QED BY <1>1, <1>2, <1>3

\* Invoices are only added, the high-water mark of the clock only rises.
LEMMA Grows ==
  ASSUME TypeOK, [Next]_vars
  PROVE  invoices \subseteq invoices' /\ high <= high' /\ high' \in Nat
<1>1. clock \in Nat /\ high \in Nat
  BY DEF TypeOK
<1>2. CASE UNCHANGED <<invoices, high>>
  BY <1>1, <1>2
<1>3. CASE Tick
  BY <1>1, <1>3 DEF Tick, ClockFrame, envVars
<1>4. ASSUME NEW r \in Handlers, Issue(r)
      PROVE  invoices \subseteq invoices' /\ UNCHANGED high
  BY <1>4 DEF Issue, HandlerFrame
<1>5. CASE FortuneIssue
  BY <1>1, <1>5 DEF FortuneIssue, HandlerFrame
<1> QED
  BY <1>1, <1>2, <1>3, <1>4, <1>5
     DEF Next, vars, envVars, HandlerStep, HandlerFrame, PrunerFrame, ClockFrame,
         Receive, Present, IssueFails, SendChallenge, Settle, Duplicate,
         StoreFails, Serve, PruneTick, Prune, PruneFails, Crash, Restart, Pay,
         StepBack

\* LND gives every invoice a payment hash of its own.
LEMMA FreshStep ==
  TypeOK /\ FreshHashes /\ [Next]_vars => FreshHashes'
<1> SUFFICES ASSUME TypeOK, FreshHashes, [Next]_vars
             PROVE  FreshHashes'
  OBVIOUS
<1>1. CASE UNCHANGED invoices
  BY <1>1 DEF FreshHashes
<1>2. ASSUME NEW r \in Handlers, Issue(r)
      PROVE  FreshHashes'
  <2>1. PICK raw : /\ \A other \in invoices : other.payment_hashes # raw.payment_hashes
                   /\ invoices' = invoices \cup {raw}
    BY <1>2 DEF Issue, IsFresh
  <2> QED BY <2>1 DEF FreshHashes
<1>3. CASE FortuneIssue
  <2>1. PICK raw : /\ \A other \in invoices : other.payment_hashes # raw.payment_hashes
                   /\ invoices' = invoices \cup {raw}
    BY <1>3 DEF FortuneIssue, IsFresh
  <2> QED BY <2>1 DEF FreshHashes
<1> QED
  BY <1>1, <1>2, <1>3
     DEF Next, vars, envVars, HandlerStep, HandlerFrame, PrunerFrame, ClockFrame,
         Receive, Present, IssueFails, SendChallenge, Settle, Duplicate,
         StoreFails, Serve, PruneTick, Prune, PruneFails, Crash, Restart, Pay,
         Tick, StepBack

\* While an invoice can pass validation under the present configuration, at a
\* time not long before the latest reading, its key is in the table if it was
\* spent.  This is where the retention has to cover the budget.
LEMMA KeyPresent ==
  ASSUME RetentionBudget, TypeOK, FreshHashes, SpentInv,
         NEW raw \in invoices, NEW h \in Hashes, NEW now \in Nat,
         decode(Bolt11(raw)).payment_hash = h,
         decode(Bolt11(raw)).currency = currency(config.network),
         now <= last_valid(decode(Bolt11(raw)), config),
         high <= now + Lag,
         spends[h] > 0
  PROVE  HasKey(key(config.network, h))
<1> DEFINE inv == decode(Bolt11(raw))
<1>1. PICK other \in invoices, c \in Configs :
        LET o == decode(Bolt11(other))
        IN  /\ o.payment_hash = h
            /\ o.currency = currency(c.network)
            /\ \/ \E row \in consumed :
                    /\ row.key = key(c.network, h)
                    /\ row.retain_until = to_sql_time(retain_until(o, c))
               \/ high > o.created + o.expiry + c.clock_skew_secs
                           + REPLAY_RETENTION_SECS
  BY DEF SpentInv
<1>2. other = raw
  <2>1. raw.payment_hashes = <<h>> /\ other.payment_hashes = <<h>>
    BY <1>1, IssuedFields
  <2> QED BY <2>1 DEF FreshHashes
<1>3. config \in Configs
  BY DEF TypeOK
<1>4. c.network = config.network
  <2>1. currency(c.network) = currency(config.network)
    BY <1>1, <1>2
  <2> QED BY <1>3, <2>1, SkewType, CurrencyInjective
<1>5. ~ (high > inv.created + inv.expiry + c.clock_skew_secs
                  + REPLAY_RETENTION_SECS)
  <2>1. inv.created \in Nat /\ inv.expiry \in Nat
    BY IssuedFields
  <2>2. c.clock_skew_secs \in Nat /\ config.clock_skew_secs \in Nat
    BY <1>3, SkewType
  <2>3. last_valid(inv, config) \in Nat
        /\ last_valid(inv, config)
              <= inv.created + inv.expiry + config.clock_skew_secs
    <3> HIDE DEF inv
    <3> QED BY <2>1, <2>2, Retention, LnbtcAssumption
  <2>4. config.clock_skew_secs + Lag <= c.clock_skew_secs + REPLAY_RETENTION_SECS
    BY <1>3 DEF RetentionBudget
  <2>5. Lag \in Nat /\ high \in Nat /\ REPLAY_RETENTION_SECS \in Nat
    BY X402Assumption, LnbtcAssumption DEF Lag, Larger, TypeOK
  <2>6. now <= last_valid(inv, config)
    OBVIOUS
  <2> HIDE DEF inv
  <2> QED BY <2>1, <2>2, <2>3, <2>4, <2>5, <2>6
<1>6. PICK row \in consumed : row.key = key(c.network, h)
  BY <1>1, <1>2, <1>5
<1> QED
  BY <1>4, <1>6 DEF HasKey

\* A handler that is settling after a step was so before it, or has just had
\* its payload accepted by verify.
LEMMA SettlingOrigin ==
  ASSUME TypeOK, DownIsIdle, [Next]_vars,
         NEW r \in Handlers, Stage(r)' = "settling"
  PROVE  \/ /\ handler'[r] = handler[r] /\ config' = config
            /\ high' = high \/ high' <= Larger(high, handler[r].now + MaxStall)
         \/ /\ UNCHANGED <<clock, high, config, invoices>>
            /\ \E q \in Requests : \E payload \in Payloads(q) :
                 LET inv == decode(payload.accepted.extra.invoice)
                 IN  /\ Accepts(payload, terms(q), clock)
                     /\ handler'[r] = Settling(q, inv.payment_hash, clock,
                                               retain_until(inv, terms(q)))
<1> USE DEF Stage
<1>1. DOMAIN handler = Handlers
  BY DEF TypeOK
<1>2. CASE UNCHANGED <<handler, config, high>>
  BY <1>2
<1>3. ASSUME NEW s \in Handlers, NEW t, Becomes(s, t), t.stage # "settling",
             UNCHANGED <<config, high>>
      PROVE  handler'[r] = handler[r]
  BY <1>1, <1>3 DEF Becomes
<1>4. ASSUME NEW s \in Handlers, NEW q \in Requests, Present(s, q)
      PROVE  \/ handler'[r] = handler[r] /\ UNCHANGED <<config, high>>
             \/ /\ UNCHANGED <<clock, high, config, invoices>>
                /\ \E payload \in Payloads(q) :
                     LET inv == decode(payload.accepted.extra.invoice)
                     IN  /\ Accepts(payload, terms(q), clock)
                         /\ handler'[r] = Settling(q, inv.payment_hash, clock,
                                                   retain_until(inv, terms(q)))
  <2>1. UNCHANGED <<clock, high, config, invoices>>
    BY <1>4 DEF Present, HandlerFrame, envVars
  <2>2. CASE Becomes(s, Issuing(q))
    BY <1>3, <2>1, <2>2 DEF Issuing
  <2>3. CASE \E payload \in Payloads(q) :
               LET inv == decode(payload.accepted.extra.invoice)
               IN  /\ Accepts(payload, terms(q), clock)
                   /\ Becomes(s, Settling(q, inv.payment_hash, clock,
                                          retain_until(inv, terms(q))))
    BY <1>1, <2>1, <2>3 DEF Becomes
  <2> QED BY <1>4, <2>2, <2>3 DEF Present
<1>5. ASSUME NEW s \in Handlers, NEW q \in Requests, Receive(s, q)
      PROVE  handler'[r] = handler[r] /\ UNCHANGED <<config, high>>
  BY <1>3, <1>5 DEF Receive, HandlerFrame, Issuing
<1>6. ASSUME NEW s \in Handlers, HandlerStep(s)
      PROVE  handler'[r] = handler[r] /\ UNCHANGED <<config, high>>
  <2>1. UNCHANGED <<config, high>>
    BY <1>6 DEF HandlerStep, HandlerFrame, Issue, IssueFails, SendChallenge, Settle,
                Duplicate, StoreFails, Serve
  <2>2. \E t : Becomes(s, t) /\ t.stage # "settling"
    <3>1. Idle.stage # "settling"
      BY DEF Idle
    <3>2. \A q : Issuing(q).stage # "settling"
      BY DEF Issuing
    <3>3. \A q, raw : Issued(q, raw).stage # "settling"
      BY DEF Issued
    <3>4. \A q, h : Settled(q, h).stage # "settling"
      BY DEF Settled
    <3>5. CASE Issue(s)
      BY <3>3, <3>5 DEF Issue
    <3> QED BY <1>6, <3>1, <3>2, <3>4, <3>5
               DEF HandlerStep, IssueFails, SendChallenge, Settle, Duplicate,
                   StoreFails, Serve
  <2> QED BY <1>3, <2>1, <2>2
<1>7. CASE Crash
  BY <1>7 DEF Crash, Idle
<1>8. ASSUME NEW c \in Configs, Restart(c)
      PROVE  FALSE
  BY <1>8 DEF Restart, DownIsIdle, Idle
<1>9. CASE Tick
  <2>1. handler' = handler /\ config' = config
    BY <1>9 DEF Tick, ClockFrame
  <2>2. clock < handler[r].now + MaxStall
    BY <1>9, <2>1 DEF Tick
  <2>3. handler[r].now \in Nat
    BY <2>1, HandlerFields DEF TypeOK
  <2>4. high' <= Larger(high, handler[r].now + MaxStall)
    BY <1>9, <2>2, <2>3, X402Assumption DEF Tick, TypeOK, Larger
  <2> QED BY <2>1, <2>4
<1> QED
  BY <1>2, <1>4, <1>5, <1>6, <1>7, <1>8, <1>9
     DEF Next, vars, HandlerFrame, PrunerFrame, ClockFrame, PruneTick, Prune,
         PruneFails, Pay, StepBack, FortuneIssue

\* Settling handlers keep to issued, currently valid invoices.
LEMMA SettlingStep ==
  /\ TypeOK /\ ClocksAgree /\ DownIsIdle /\ SettlingInv
  /\ [Next]_vars
  => SettlingInv'
<1> SUFFICES ASSUME TypeOK, ClocksAgree, DownIsIdle, SettlingInv, [Next]_vars,
                    NEW r \in Handlers, Stage(r)' = "settling"
             PROVE  /\ high' <= handler'[r].now + Lag
                    /\ \E raw \in invoices' :
                         LET inv == decode(Bolt11(raw))
                         IN  /\ inv.payment_hash = handler'[r].hash
                             /\ inv.currency = currency(config'.network)
                             /\ handler'[r].now <= last_valid(inv, config')
                             /\ handler'[r].until = retain_until(inv, config')
  BY DEF SettlingInv, Lag, Larger
<1>1. invoices \subseteq invoices'
  BY Grows
<1>2. CASE /\ handler'[r] = handler[r] /\ config' = config
           /\ high' = high \/ high' <= Larger(high, handler[r].now + MaxStall)
  <2>1. Stage(r) = "settling"
    BY <1>2 DEF Stage
  <2>2. handler[r].now \in Nat
    BY <2>1, HandlerFields DEF TypeOK, Stage
  <2>3. high' <= handler[r].now + Lag
    <3>1. high <= handler[r].now + Lag
      BY <2>1 DEF SettlingInv
    <3>2. high \in Nat /\ high' \in Nat
      BY Grows DEF TypeOK
    <3> QED BY <1>2, <2>2, <3>1, <3>2, X402Assumption DEF Lag, Larger
  <2> QED BY <1>1, <1>2, <2>1, <2>3 DEF SettlingInv
<1>3. CASE /\ UNCHANGED <<clock, high, config, invoices>>
           /\ \E q \in Requests : \E payload \in Payloads(q) :
                LET inv == decode(payload.accepted.extra.invoice)
                IN  /\ Accepts(payload, terms(q), clock)
                    /\ handler'[r] = Settling(q, inv.payment_hash, clock,
                                              retain_until(inv, terms(q)))
  <2>0. PICK q \in Requests : \E payload \in Payloads(q) :
          LET inv == decode(payload.accepted.extra.invoice)
          IN  /\ Accepts(payload, terms(q), clock)
              /\ handler'[r] = Settling(q, inv.payment_hash, clock,
                                        retain_until(inv, terms(q)))
    BY <1>3
  <2>1. PICK payload \in Payloads(q) :
          LET inv == decode(payload.accepted.extra.invoice)
          IN  /\ Accepts(payload, terms(q), clock)
              /\ handler'[r] = Settling(q, inv.payment_hash, clock,
                                        retain_until(inv, terms(q)))
    BY <2>0
  <2>2. PICK raw \in invoices :
          LET inv == decode(Bolt11(raw))
          IN  /\ payload.accepted.extra.invoice = Bolt11(raw)
              /\ inv.currency = currency(config.network)
              /\ clock <= last_valid(inv, config)
              /\ retain_until(inv, terms(q)) = retain_until(inv, config)
    BY <2>1, AcceptedFacts
  <2>3. /\ handler'[r].hash = decode(Bolt11(raw)).payment_hash
        /\ handler'[r].now = clock
        /\ handler'[r].until = retain_until(decode(Bolt11(raw)), config)
    BY <2>1, <2>2 DEF Settling
  <2>4. high <= clock + Lag
    BY X402Assumption DEF ClocksAgree, TypeOK, Lag, Larger
  <2> QED BY <1>3, <2>2, <2>3, <2>4
<1> QED
  BY <1>2, <1>3, SettlingOrigin

\* A spent hash keeps its key until the clock is past the key's retention.
LEMMA SpentStep ==
  /\ TypeOK /\ ClocksAgree /\ SettlingInv /\ SpentInv
  /\ [Next]_vars
  => SpentInv'
<1> SUFFICES ASSUME TypeOK, ClocksAgree, SettlingInv, SpentInv, [Next]_vars,
                    NEW h \in Hashes, spends'[h] > 0
             PROVE  \E raw \in invoices', c \in Configs :
                      LET inv == decode(Bolt11(raw))
                      IN  /\ inv.payment_hash = h
                          /\ inv.currency = currency(c.network)
                          /\ \/ \E row \in consumed' :
                                  /\ row.key = key(c.network, h)
                                  /\ row.retain_until =
                                       to_sql_time(retain_until(inv, c))
                             \/ high' > inv.created + inv.expiry
                                          + c.clock_skew_secs
                                          + REPLAY_RETENTION_SECS
  BY DEF SpentInv
<1>1. invoices \subseteq invoices' /\ high <= high' /\ high \in Nat /\ high' \in Nat
  BY Grows DEF TypeOK
\* A hash that was spent before.
<1>2. ASSUME spends[h] > 0,
             NEW raw \in invoices, NEW c \in Configs,
             decode(Bolt11(raw)).payment_hash = h,
             decode(Bolt11(raw)).currency = currency(c.network),
             \/ \E row \in consumed' :
                  /\ row.key = key(c.network, h)
                  /\ row.retain_until =
                       to_sql_time(retain_until(decode(Bolt11(raw)), c))
             \/ high > decode(Bolt11(raw)).created + decode(Bolt11(raw)).expiry
                         + c.clock_skew_secs + REPLAY_RETENTION_SECS
             \/ high' > decode(Bolt11(raw)).created + decode(Bolt11(raw)).expiry
                         + c.clock_skew_secs + REPLAY_RETENTION_SECS
      PROVE  \E raw_1 \in invoices', c_1 \in Configs :
               LET inv == decode(Bolt11(raw_1))
               IN  /\ inv.payment_hash = h
                   /\ inv.currency = currency(c_1.network)
                   /\ \/ \E row \in consumed' :
                           /\ row.key = key(c_1.network, h)
                           /\ row.retain_until = to_sql_time(retain_until(inv, c_1))
                      \/ high' > inv.created + inv.expiry + c_1.clock_skew_secs
                                   + REPLAY_RETENTION_SECS
  <2> DEFINE inv == decode(Bolt11(raw))
             over == inv.created + inv.expiry + c.clock_skew_secs
                     + REPLAY_RETENTION_SECS
  <2>1. inv.created \in Nat /\ inv.expiry \in Nat
    BY IssuedFields
  <2>2. over \in Nat
    BY <2>1, SkewType, LnbtcAssumption
  <2>3. high > over => high' > over
    BY <1>1, <2>2
  <2> QED BY <1>1, <1>2, <2>3
<1>3. CASE spends[h] > 0 /\ consumed \subseteq consumed'
  <2>1. PICK raw \in invoices, c \in Configs :
          LET inv == decode(Bolt11(raw))
          IN  /\ inv.payment_hash = h
              /\ inv.currency = currency(c.network)
              /\ \/ \E row \in consumed :
                      /\ row.key = key(c.network, h)
                      /\ row.retain_until = to_sql_time(retain_until(inv, c))
                 \/ high > inv.created + inv.expiry + c.clock_skew_secs
                             + REPLAY_RETENTION_SECS
    BY <1>3 DEF SpentInv
  <2> QED BY <1>2, <1>3, <2>1
<1>4. CASE spends[h] > 0 /\ Prune
  <2>1. PICK raw \in invoices, c \in Configs :
          LET inv == decode(Bolt11(raw))
          IN  /\ inv.payment_hash = h
              /\ inv.currency = currency(c.network)
              /\ \/ \E row \in consumed :
                      /\ row.key = key(c.network, h)
                      /\ row.retain_until = to_sql_time(retain_until(inv, c))
                 \/ high > inv.created + inv.expiry + c.clock_skew_secs
                             + REPLAY_RETENTION_SECS
    BY <1>4 DEF SpentInv
  <2> DEFINE inv == decode(Bolt11(raw))
  <2>2. CASE \E row \in consumed' :
                 /\ row.key = key(c.network, h)
                 /\ row.retain_until = to_sql_time(retain_until(inv, c))
    BY <1>2, <1>4, <2>1, <2>2
  <2>3. CASE \E row \in consumed \ consumed' :
                 row.retain_until = to_sql_time(retain_until(inv, c))
    <3>1. pruner[1] \in Nat /\ pruner[1] <= high
      BY <1>4 DEF Prune, TypeOK, ClocksAgree
    <3>2. inv.created \in Nat /\ inv.expiry \in Nat /\ c.clock_skew_secs \in Nat
      BY IssuedFields, SkewType
    <3> HIDE DEF inv
    <3>3. retain_until(inv, c) \in Nat
      BY <3>2, Retention, LnbtcAssumption
    <3>4. to_sql_time(retain_until(inv, c)) < to_sql_time(pruner[1])
      <4>1. PICK row \in consumed \ consumed' :
                   row.retain_until = to_sql_time(retain_until(inv, c))
        BY <2>3
      <4>2. ~ (row.retain_until >= to_sql_time(pruner[1]))
        BY <1>4, <4>1 DEF Prune, prune
      <4>3. /\ to_sql_time(retain_until(inv, c)) \in Nat
            /\ to_sql_time(pruner[1]) \in Nat
        BY <3>1, <3>3, SqlTimeType, IMaxAssumption
      <4> QED BY <4>1, <4>2, <4>3
    <3>5. pruner[1] > inv.created + inv.expiry + c.clock_skew_secs
                       + REPLAY_RETENTION_SECS
      BY <3>1, <3>2, <3>4, PrunedLate
    <3>6. high > inv.created + inv.expiry + c.clock_skew_secs
                  + REPLAY_RETENTION_SECS
      BY <1>1, <3>1, <3>2, <3>5, LnbtcAssumption
    <3> QED BY <1>2, <1>4, <2>1, <3>6 DEF inv
  <2>4. CASE high > inv.created + inv.expiry + c.clock_skew_secs
                     + REPLAY_RETENTION_SECS
    BY <1>2, <1>4, <2>1, <2>4
  <2> QED BY <2>1, <2>2, <2>3, <2>4
<1>5. ASSUME NEW r \in Handlers, Settle(r), handler[r].hash = h
      PROVE  \E raw \in invoices', c \in Configs :
               LET inv == decode(Bolt11(raw))
               IN  /\ inv.payment_hash = h
                   /\ inv.currency = currency(c.network)
                   /\ \E row \in consumed' :
                        /\ row.key = key(c.network, h)
                        /\ row.retain_until = to_sql_time(retain_until(inv, c))
  <2>1. PICK raw \in invoices :
          LET inv == decode(Bolt11(raw))
          IN  /\ inv.payment_hash = h
              /\ inv.currency = currency(config.network)
              /\ handler[r].until = retain_until(inv, config)
    BY <1>5 DEF Settle, SettlingInv
  <2>2. [key |-> key(config.network, h),
         retain_until |-> to_sql_time(handler[r].until)] \in consumed'
    BY <1>5 DEF Settle, Consume, ReplayKey
  <2>3. config \in Configs
    BY DEF TypeOK
  <2> QED BY <1>1, <2>1, <2>2, <2>3
<1>6. ASSUME NEW r \in Handlers, Settle(r), handler[r].hash # h
      PROVE  spends[h] > 0 /\ consumed \subseteq consumed'
  BY <1>6 DEF Settle, Consume, TypeOK
<1>7. CASE UNCHANGED <<spends, consumed>>
  BY <1>3, <1>7
<1>8. CASE Prune
  BY <1>4, <1>8 DEF Prune, PrunerFrame, salesVars
<1> QED
  BY <1>3, <1>5, <1>6, <1>7, <1>8
     DEF Next, vars, salesVars, HandlerStep, HandlerFrame, PrunerFrame, ClockFrame,
         Receive, Present, Issue, IssueFails, SendChallenge, Duplicate, Conflict,
         StoreFails, Serve, PruneTick, PruneFails, Crash, Restart, Pay, Tick,
         StepBack, FortuneIssue

\* A handler that has settled after a step had done so before it, or has just
\* inserted its key.
LEMMA SettledOrigin ==
  ASSUME TypeOK, DownIsIdle, [Next]_vars,
         NEW r \in Handlers, Stage(r)' = "settled"
  PROVE  \/ handler'[r] = handler[r] /\ config' = config
         \/ Settle(r)
<1> USE DEF Stage
<1>1. DOMAIN handler = Handlers
  BY DEF TypeOK
<1>2. CASE UNCHANGED <<handler, config>>
  BY <1>2
<1>3. ASSUME NEW s \in Handlers, NEW t, Becomes(s, t), t.stage # "settled",
             UNCHANGED config
      PROVE  handler'[r] = handler[r]
  BY <1>1, <1>3 DEF Becomes
<1>4. /\ Idle.stage # "settled"
      /\ \A q : Issuing(q).stage # "settled"
      /\ \A q, raw : Issued(q, raw).stage # "settled"
      /\ \A q, h, now, until : Settling(q, h, now, until).stage # "settled"
  BY DEF Idle, Issuing, Issued, Settling
<1>5. ASSUME NEW s \in Handlers, NEW q \in Requests, Receive(s, q) \/ Present(s, q)
      PROVE  handler'[r] = handler[r] /\ config' = config
  <2>1. UNCHANGED config /\ \E t : Becomes(s, t) /\ t.stage # "settled"
    BY <1>4, <1>5 DEF Receive, Present, HandlerFrame
  <2> QED BY <1>3, <2>1
<1>6. ASSUME NEW s \in Handlers, HandlerStep(s), ~ Settle(s)
      PROVE  handler'[r] = handler[r] /\ config' = config
  <2>1. UNCHANGED config
    BY <1>6 DEF HandlerStep, HandlerFrame, Issue, IssueFails, SendChallenge,
                Duplicate, StoreFails, Serve
  <2>2. \E t : Becomes(s, t) /\ t.stage # "settled"
    <3>1. CASE Issue(s)
      BY <1>4, <3>1 DEF Issue
    <3> QED BY <1>4, <1>6, <3>1
               DEF HandlerStep, IssueFails, SendChallenge, Duplicate, StoreFails, Serve
  <2> QED BY <1>3, <2>1, <2>2
<1>7. ASSUME NEW s \in Handlers, Settle(s), s # r
      PROVE  handler'[r] = handler[r] /\ config' = config
  BY <1>1, <1>7 DEF Settle, Becomes, HandlerFrame
<1>8. CASE Crash
  BY <1>8, <1>4 DEF Crash
<1>9. ASSUME NEW c \in Configs, Restart(c)
      PROVE  FALSE
  BY <1>4, <1>9 DEF Restart, DownIsIdle
<1> QED
  BY <1>2, <1>5, <1>6, <1>7, <1>8, <1>9
     DEF Next, vars, HandlerFrame, PrunerFrame, ClockFrame, PruneTick, Prune,
         PruneFails, Pay, Tick, StepBack, FortuneIssue

\* A key that is not in the table when a handler inserts it is of a hash that
\* was never accepted.
LEMMA SettleIsFirst ==
  ASSUME RetentionBudget, TypeOK, FreshHashes, SettlingInv, SpentInv,
         NEW r \in Handlers, Settle(r)
  PROVE  handler[r].hash \in Hashes /\ spends[handler[r].hash] = 0
<1>1. /\ handler[r].hash \in Hashes
      /\ handler[r].now \in Nat
  BY HandlerFields DEF TypeOK, Settle, Stage
<1>2. PICK raw \in invoices :
        LET inv == decode(Bolt11(raw))
        IN  /\ inv.payment_hash = handler[r].hash
            /\ inv.currency = currency(config.network)
            /\ handler[r].now <= last_valid(inv, config)
  BY DEF Settle, SettlingInv
<1>3. high <= handler[r].now + Lag
  BY DEF Settle, SettlingInv
<1>4. ~ HasKey(key(config.network, handler[r].hash))
  BY DEF Settle, Consume, ReplayKey
<1>5. ~ (spends[handler[r].hash] > 0)
  BY <1>1, <1>2, <1>3, <1>4, KeyPresent
<1> QED
  BY <1>1, <1>5 DEF TypeOK

\* Each accepted hash belongs to one handler until its fortune is dispensed.
LEMMA SettledStep ==
  RetentionBudget /\ IndInv /\ [Next]_vars => SettledInv' /\ AtMostOnce'
<1> SUFFICES ASSUME RetentionBudget, IndInv, [Next]_vars
             PROVE  SettledInv' /\ AtMostOnce'
  OBVIOUS
<1> USE DEF IndInv
<1>1. CASE /\ UNCHANGED <<spends, dispensed>>
           /\ \A r \in Handlers : ~ Settle(r)
  <2>1. \A r \in Handlers : Stage(r)' = "settled" => handler'[r] = handler[r]
    BY <1>1, SettledOrigin
  <2>2. AtMostOnce'
    BY <1>1 DEF AtMostOnce
  <2>3. SettledInv'
    BY <1>1, <2>1 DEF SettledInv, Stage
  <2> QED BY <2>2, <2>3
<1>2. ASSUME NEW r \in Handlers, Settle(r)
      PROVE  SettledInv' /\ AtMostOnce'
  <2> DEFINE h == handler[r].hash
  <2>1. h \in Hashes /\ spends[h] = 0
    BY <1>2, SettleIsFirst
  <2>2. dispensed[h] = 0
    BY <2>1 DEF AtMostOnce, TypeOK
  <2>3. /\ spends' = [spends EXCEPT ![h] = 1]
        /\ dispensed' = dispensed
    BY <1>2, <2>1 DEF Settle, TypeOK
  <2>4. /\ handler'[r] = Settled(handler[r].request, h)
        /\ \A s \in Handlers \ {r} : handler'[s] = handler[s]
    BY <1>2 DEF Settle, Becomes, TypeOK
  <2>5. handler'[r].stage = "settled" /\ handler'[r].hash = h
    BY <2>4 DEF Settled
  <2>6. \A s \in Handlers \ {r} : Stage(s)' = "settled"
          => /\ handler[s].hash \in Hashes /\ handler[s].hash # h
             /\ spends[handler[s].hash] = 1 /\ dispensed[handler[s].hash] = 0
    <3> SUFFICES ASSUME NEW s \in Handlers \ {r}, Stage(s)' = "settled"
                 PROVE  /\ handler[s].hash \in Hashes /\ handler[s].hash # h
                        /\ spends[handler[s].hash] = 1
                        /\ dispensed[handler[s].hash] = 0
      OBVIOUS
    <3>1. Stage(s) = "settled"
      BY <2>4 DEF Stage
    <3>2. handler[s].hash \in Hashes
      BY <3>1, HandlerFields DEF TypeOK, Stage
    <3> QED BY <2>1, <3>1, <3>2 DEF SettledInv
  <2> HIDE DEF h
  <2>7. AtMostOnce'
    BY <2>1, <2>2, <2>3 DEF AtMostOnce, TypeOK
  <2>8. SettledInv'
    BY <2>1, <2>2, <2>3, <2>4, <2>5, <2>6 DEF SettledInv, Stage, TypeOK
  <2> QED BY <2>7, <2>8
<1>3. ASSUME NEW r \in Handlers, Serve(r)
      PROVE  SettledInv' /\ AtMostOnce'
  <2> DEFINE h == handler[r].hash
  <2>1. h \in Hashes
    BY <1>3, HandlerFields DEF Serve, TypeOK, Stage
  <2>2. spends[h] = 1 /\ dispensed[h] = 0
    BY <1>3 DEF Serve, SettledInv
  <2>3. /\ spends' = spends
        /\ dispensed' = [dispensed EXCEPT ![h] = 1]
    BY <1>3, <2>1, <2>2 DEF Serve, TypeOK
  <2>4. \A s \in Handlers : Stage(s)' = "settled"
          => s # r /\ handler'[s] = handler[s] /\ Stage(s) = "settled"
    BY <1>3 DEF Serve, Becomes, TypeOK, Stage, Idle
  <2>5. \A s \in Handlers : Stage(s)' = "settled" => handler[s].hash # h
    BY <1>3, <2>4 DEF SettledInv, Serve
  <2>6. \A s \in Handlers : Stage(s)' = "settled" => handler[s].hash \in Hashes
    BY <2>4, HandlerFields DEF TypeOK, Stage
  <2> HIDE DEF h
  <2>7. AtMostOnce'
    BY <2>1, <2>2, <2>3 DEF AtMostOnce, TypeOK
  <2>8. SettledInv'
    BY <2>1, <2>3, <2>4, <2>5, <2>6 DEF SettledInv, Stage, TypeOK
  <2> QED BY <2>7, <2>8
<1>4. UNCHANGED <<spends, dispensed>> \/ \E r \in Handlers : Settle(r) \/ Serve(r)
  BY DEF Next, vars, salesVars, HandlerStep, PrunerFrame, ClockFrame, Receive,
         Present, Issue, IssueFails, SendChallenge, Duplicate, StoreFails,
         PruneTick, Prune, PruneFails, Crash, Restart, Pay, Tick, StepBack,
         FortuneIssue
<1> QED BY <1>1, <1>2, <1>3, <1>4

-----------------------------------------------------------------------------
(* The theorems. *)

\* The inductive invariant holds at the start.
LEMMA IndInit == Init => IndInv
<1> SUFFICES ASSUME Init
             PROVE  IndInv
  OBVIOUS
<1>1. TypeOK
  BY TypeInit
<1>2. ClocksAgree /\ DownIsIdle /\ FreshHashes /\ SpentInv /\ AtMostOnce
  BY X402Assumption
     DEF Init, ClocksAgree, DownIsIdle, FreshHashes, SpentInv, AtMostOnce
<1>3. SettlingInv /\ SettledInv
  BY DEF Init, SettlingInv, SettledInv, Stage, Idle
<1> QED
  BY <1>1, <1>2, <1>3 DEF IndInv

\* Every step keeps the inductive invariant, given the retention budget.
LEMMA IndStep == RetentionBudget /\ IndInv /\ [Next]_vars => IndInv'
  BY TypeStep, ClocksStep, DownStep, FreshStep, SettlingStep, SpentStep, SettledStep
     DEF IndInv

\* If the retention covers the clock's slack and the widest change of skew,
\* every reachable state satisfies the inductive invariant.
THEOREM Inductive == ASSUME RetentionBudget PROVE Spec => []IndInv
  BY IndInit, IndStep, PTL DEF Spec

\* No schedule of requests, prunes, crashes, restarts and clock steps lets a
\* payment buy two fortunes, if the retention covers the budget.
THEOREM PaymentsBuyAtMostOnce == ASSUME RetentionBudget PROVE Spec => []AtMostOnce
<1>1. IndInv => AtMostOnce
  BY DEF IndInv
<1> QED
  BY <1>1, Inductive, PTL

\* Under the same budget the pruner never takes the key of a spent invoice that
\* could still pass validation.
THEOREM KeysAreKept == ASSUME RetentionBudget PROVE Spec => []KeysOutliveValidity
<1>1. IndInv => KeysOutliveValidity
  <2> SUFFICES ASSUME IndInv, NEW raw \in invoices, NEW h \in Hashes,
                      raw.payment_hashes = <<h>>, spends[h] > 0,
                      CanPassValidation(raw)
               PROVE  HasKey(key(config.network, h))
    BY DEF KeysOutliveValidity
  <2>1. decode(Bolt11(raw)).payment_hash = h
    BY IssuedFields DEF IndInv
  <2>2. clock \in Nat /\ high <= clock + Lag
    BY X402Assumption DEF IndInv, TypeOK, ClocksAgree, Lag, Larger
  <2> QED BY <2>1, <2>2, KeyPresent DEF IndInv, CanPassValidation
<1> QED
  BY <1>1, Inductive, PTL

-----------------------------------------------------------------------------
(* What is sold. *)

\* The raw fields of an issued invoice are the ones decoding finds.
LEMMA RawFields ==
  ASSUME TypeOK, NEW raw \in invoices
  PROVE  LET inv == decode(Bolt11(raw))
         IN  /\ raw.payment_hashes = <<inv.payment_hash>>
             /\ raw.description_hashes = inv.description_hash
             /\ raw.payee = <<inv.payee>>
             /\ raw.currency = inv.currency
             /\ \A n \in Nat : inv.amount_msat = <<n>> =>
                                raw.amount_pico_btc = <<10 * n>>
<1>1. PICK c \in Configs, p \in Preimages, t \in 0 .. MaxTime + Drift :
        (\E q : raw = LndInvoice(c, q, p, t)) \/ raw = FortuneInvoice(c, p, t)
  BY DEF TypeOK, ByLnd
<1>2. c.amount_msat \in Nat
  BY X402Assumption, IMaxAssumption
<1>3. raw.amount_pico_btc = <<10 * c.amount_msat>>
  BY <1>1 DEF LndInvoice, FortuneInvoice
<1>4. decode(Bolt11(raw)).amount_msat =
        [i \in {1} |-> (10 * c.amount_msat) \div 10]
  BY <1>3 DEF decode, Bolt11
<1>5. (10 * c.amount_msat) \div 10 = c.amount_msat
  BY <1>2
<1>6. \A n \in Nat : decode(Bolt11(raw)).amount_msat = <<n>> => n = c.amount_msat
  BY <1>4, <1>5
<1> QED
  BY <1>1, <1>3, <1>6 DEF decode, Bolt11, LndInvoice, FortuneInvoice

\* A step that accepts a payload or settles keeps the sale's terms.
LEMMA SoldStep ==
  TypeOK /\ DownIsIdle /\ SoldAsOffered /\ [Next]_vars => SoldAsOffered'
<1> DEFINE Sold(hash, q) ==
      /\ hash \in paid
      /\ \E raw \in invoices :
           /\ raw.payment_hashes = <<hash>>
           /\ raw.description_hashes = <<request_hash(config, q)>>
           /\ raw.amount_pico_btc = <<10 * config.amount_msat>>
           /\ raw.payee = <<config.pay_to>>
           /\ raw.currency = currency(config.network)
<1> SUFFICES ASSUME TypeOK, DownIsIdle, SoldAsOffered, [Next]_vars,
                    NEW r \in Handlers, Stage(r)' \in {"settling", "settled"}
             PROVE  Sold(handler[r].hash, handler[r].request)'
  BY DEF SoldAsOffered
<1>1. invoices \subseteq invoices' /\ paid \subseteq paid'
  <2>1. paid \subseteq paid'
    BY DEF Next, vars, envVars, HandlerStep, HandlerFrame, PrunerFrame, ClockFrame,
           Receive, Present, Issue, IssueFails, SendChallenge, Settle, Duplicate,
           StoreFails, Serve, PruneTick, Prune, PruneFails, Crash, Restart, Pay,
           Tick, StepBack, FortuneIssue
  <2> QED BY <2>1, Grows
<1>2. CASE /\ config' = config
           /\ Stage(r) \in {"settling", "settled"}
           /\ handler'[r].hash = handler[r].hash
           /\ handler'[r].request = handler[r].request
  BY <1>1, <1>2 DEF SoldAsOffered
<1>3. CASE Stage(r)' = "settled"
  <2>1. CASE handler'[r] = handler[r] /\ config' = config
    BY <1>2, <1>3, <2>1 DEF Stage
  <2>2. CASE Settle(r)
    <3>1. handler'[r] = Settled(handler[r].request, handler[r].hash)
      BY <2>2 DEF Settle, Becomes, TypeOK
    <3>2. config' = config
      BY <2>2 DEF Settle, HandlerFrame
    <3> QED BY <1>2, <2>2, <3>1, <3>2 DEF Settle, Settled
  <2> QED BY <1>3, <2>1, <2>2, SettledOrigin
<1>4. CASE Stage(r)' = "settling"
  <2>1. CASE handler'[r] = handler[r] /\ config' = config
    BY <1>2, <1>4, <2>1 DEF Stage
  <2>2. CASE /\ UNCHANGED <<clock, high, config, invoices>>
             /\ \E q \in Requests : \E payload \in Payloads(q) :
                  LET inv == decode(payload.accepted.extra.invoice)
                  IN  /\ Accepts(payload, terms(q), clock)
                      /\ handler'[r] = Settling(q, inv.payment_hash, clock,
                                                retain_until(inv, terms(q)))
    <3>1. PICK q \in Requests : \E payload \in Payloads(q) :
                  LET inv == decode(payload.accepted.extra.invoice)
                  IN  /\ Accepts(payload, terms(q), clock)
                      /\ handler'[r] = Settling(q, inv.payment_hash, clock,
                                                retain_until(inv, terms(q)))
      BY <2>2
    <3>2. PICK payload \in Payloads(q) :
                  LET inv == decode(payload.accepted.extra.invoice)
                  IN  /\ Accepts(payload, terms(q), clock)
                      /\ handler'[r] = Settling(q, inv.payment_hash, clock,
                                                retain_until(inv, terms(q)))
      BY <3>1
    <3>3. PICK raw \in invoices :
            LET inv == decode(Bolt11(raw))
            IN  /\ payload.accepted.extra.invoice = Bolt11(raw)
                /\ inv.payment_hash \in paid
                /\ inv.description_hash = <<request_hash(config, q)>>
                /\ inv.amount_msat = <<config.amount_msat>>
                /\ inv.payee = config.pay_to
                /\ inv.currency = currency(config.network)
      BY <3>2, AcceptedFacts
    <3> DEFINE h == decode(Bolt11(raw)).payment_hash
    <3>4. handler'[r].hash = h /\ handler'[r].request = q
      BY <3>2, <3>3 DEF Settling
    <3>5. config.amount_msat \in Nat
      BY X402Assumption, IMaxAssumption DEF TypeOK
    <3>6. Sold(h, q)
      BY <3>3, <3>5, RawFields
    <3> HIDE DEF h
    <3> QED BY <1>1, <2>2, <3>4, <3>6
  <2> QED BY <1>4, <2>1, <2>2, SettlingOrigin
<1> QED BY <1>3, <1>4

\* Whatever the client echoes, a payment is only ever accepted for the request,
\* price, payee and network its invoice was issued for, and after it was paid.
THEOREM SalesAreAsOffered == Spec => []SoldAsOffered
<1>1. Init => SoldAsOffered
  BY DEF Init, SoldAsOffered, Stage, Idle
<1>2. Init => DownIsIdle
  BY DEF Init, DownIsIdle
<1> QED
  BY <1>1, <1>2, TypeInit, TypeStep, DownStep, SoldStep, PTL DEF Spec

-----------------------------------------------------------------------------
(* Refinement. *)

\* Every step of the route is a step of the abstract sale, or leaves it alone.
LEMMA SaleStep ==
  RetentionBudget /\ IndInv /\ SoldAsOffered /\ [Next]_vars
    => [Sale!SaleNext]_Sale!saleVars
<1> SUFFICES ASSUME RetentionBudget, IndInv, SoldAsOffered, [Next]_vars
             PROVE  [Sale!SaleNext]_Sale!saleVars
  OBVIOUS
<1> USE DEF IndInv
<1>1. CASE UNCHANGED <<paid, spends, dispensed>>
  BY <1>1 DEF Sale!saleVars
<1>2. ASSUME NEW r \in Handlers, Settle(r)
      PROVE  Sale!SaleNext
  <2>1. handler[r].hash \in Hashes /\ spends[handler[r].hash] = 0
    BY <1>2, SettleIsFirst
  <2>2. handler[r].hash \in paid
    BY <1>2 DEF Settle, SoldAsOffered
  <2>3. Sale!Redeem(handler[r].hash)
    BY <1>2, <2>1, <2>2 DEF Settle, envVars, Sale!Redeem
  <2> QED BY <2>1, <2>3 DEF Sale!SaleNext
<1>3. ASSUME NEW r \in Handlers, Serve(r)
      PROVE  Sale!SaleNext
  <2>1. handler[r].hash \in Hashes
    BY <1>3, HandlerFields DEF Serve, TypeOK, Stage
  <2>2. spends[handler[r].hash] = 1 /\ dispensed[handler[r].hash] = 0
    BY <1>3 DEF Serve, SettledInv
  <2>3. Sale!Dispense(handler[r].hash)
    BY <1>3, <2>1, <2>2 DEF Serve, envVars, Sale!Dispense
  <2> QED BY <2>1, <2>3 DEF Sale!SaleNext
<1>4. ASSUME NEW h \in Hashes, Pay(h)
      PROVE  Sale!SaleNext
  BY <1>4 DEF Pay, salesVars, Sale!PayFor, Sale!SaleNext
<1> QED
  BY <1>1, <1>2, <1>3, <1>4
     DEF Next, vars, envVars, salesVars, HandlerStep, PrunerFrame, ClockFrame,
         Receive, Present, Issue, IssueFails, SendChallenge, Duplicate, StoreFails,
         PruneTick, Prune, PruneFails, Crash, Restart, Tick, StepBack, FortuneIssue

\* The route implements the abstract sale: a payment is redeemed once and after
\* it was paid, and each redemption serves one fortune.
THEOREM RouteImplementsSale == ASSUME RetentionBudget PROVE Spec => ImplementsSale
<1>1. Init => Sale!SaleInit
  BY DEF Init, Sale!SaleInit
<1>2. RetentionBudget /\ IndInv /\ SoldAsOffered /\ [Next]_vars
        => [Sale!SaleNext]_Sale!saleVars
  BY SaleStep
<1> QED
  BY <1>1, <1>2, Inductive, SalesAreAsOffered, PTL
     DEF Spec, ImplementsSale, Sale!SaleSpec
=============================================================================
