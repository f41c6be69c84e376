-------------------------------- MODULE X402 --------------------------------
(***************************************************************************)
(* The /x402 route of src/x402/handler.rs, with the replay store, the      *)
(* pruner task, process crashes and restarts under a new configuration,    *)
(* and a system clock that may also step back.                             *)
(*                                                                         *)
(* Request handlers run concurrently.  A handler gives up its thread, or   *)
(* can lose it, between these steps, which are therefore separate actions: *)
(* the await on LND; the checks of verify, made at the time unix_now()     *)
(* returned, and the INSERT, which first waits for the store's mutex; the  *)
(* INSERT and the response.  The pruner likewise reads the clock before it *)
(* waits for the mutex.                                                    *)
(*                                                                         *)
(* LND and the payers are modelled from how the code uses them: LND        *)
(* returns an invoice for what it was asked, stamped with its own clock,   *)
(* and reveals a preimage only to the payer of its invoice.                *)
(***************************************************************************)
EXTENDS Lnbtc, ReplayStore

CONSTANTS
  Handlers,   \* request handlers that may run at a time
  Requests,   \* records [method, target, body, headers]
  Configs,    \* what X402State::from_app may be started with
  Preimages,  \* LND's random preimages
  MaxTime,    \* the last clock reading
  MaxBack,    \* how far the clock may step back
  MaxStall,   \* how far it may advance between a handler's reading and INSERT
  Drift       \* how far LND's clock may be from the server's

ASSUME X402Assumption ==
  /\ MaxTime \in Nat /\ MaxBack \in Nat /\ MaxStall \in Nat /\ Drift \in Nat
  /\ IMax <= UMax
  /\ Configs # {}
  /\ \A c \in Configs :
       /\ c.network \in Network
       /\ c.amount_msat \in 1 .. IMax
       /\ c.max_timeout_secs \in 1 .. IMax
       /\ c.clock_skew_secs \in 0 .. UMax

VARIABLES
  clock,      \* what unix_now() returns
  high,       \* history: the highest value clock has had
  up,         \* whether the process is running
  config,     \* its configuration
  handler,    \* the progress of each request handler
  pruner,     \* <<>>, or <<now>> while the pruner waits for the mutex
  invoices,   \* the invoices LND has issued
  offered,    \* the requirements sent in challenges
  paid,       \* payment hashes whose preimage the payer has learnt
  spends,     \* history: times each payment hash was accepted by settle
  dispensed   \* history: fortunes each payment hash bought

envVars   == <<invoices, paid>>
salesVars == <<spends, dispensed>>
vars == <<clock, high, up, config, handler, pruner, consumed, invoices,
          offered, paid, spends, dispensed>>

-----------------------------------------------------------------------------
Hashes == {Sha256(p) : p \in Preimages}

Idle == [stage |-> "idle"]
Issuing(q)     == [stage |-> "issuing", request |-> q]
Issued(q, raw) == [stage |-> "issued", request |-> q, raw |-> raw]
Settling(q, h, now, until) ==
  [stage |-> "settling", request |-> q, hash |-> h, now |-> now, until |-> until]
Settled(q, h)  == [stage |-> "settled", request |-> q, hash |-> h]

Stage(r) == handler[r].stage
Becomes(r, state) == handler' = [handler EXCEPT ![r] = state]

\* get_fortune derives what is sold from the request and its own
\* configuration.  BOUND_HEADERS is empty, so this never fails.
request_hash(c, q) ==
  http_request_hash(q.method, c.public_url \o q.target, q.body,
                    BOUND_HEADERS, q.headers)

TermsOf(c, q) ==
  [network          |-> c.network,
   pay_to           |-> c.pay_to,
   amount_msat      |-> c.amount_msat,
   max_timeout_secs |-> c.max_timeout_secs,
   request_hash     |-> request_hash(c, q),
   binding_params   |-> http_params(BOUND_HEADERS),
   clock_skew_secs  |-> c.clock_skew_secs]

terms(q) == TermsOf(config, q)

\* The invoice LND makes for create_invoice_with_description_hash.
LndInvoice(c, q, p, timestamp) ==
  [signed              |-> TRUE,
   payment_hashes      |-> <<Sha256(p)>>,
   inline_descriptions |-> 0,
   description_hashes  |-> <<request_hash(c, q)>>,
   amount_pico_btc     |-> <<10 * c.amount_msat>>,
   payee               |-> <<c.pay_to>>,
   currency            |-> currency(c.network),
   timestamp           |-> timestamp,
   expiry              |-> <<c.max_timeout_secs>>]

\* The invoice LND makes for create_invoice, which /fortune calls: the same but
\* for a memo in the place of the commitment to a request.
FortuneInvoice(c, p, timestamp) ==
  [signed              |-> TRUE,
   payment_hashes      |-> <<Sha256(p)>>,
   inline_descriptions |-> 1,
   description_hashes  |-> <<>>,
   amount_pico_btc     |-> <<10 * c.amount_msat>>,
   payee               |-> <<c.pay_to>>,
   currency            |-> currency(c.network),
   timestamp           |-> timestamp,
   expiry              |-> <<c.max_timeout_secs>>]

\* LND does not repeat a payment hash, and its clock is near the server's.
IsFresh(raw) ==
  /\ \A other \in invoices : other.payment_hashes # raw.payment_hashes
  /\ clock <= raw.timestamp + Drift /\ raw.timestamp <= clock + Drift

\* A preimage that has been revealed is the one of a paid invoice.
KnownPreimages == {p \in Preimages : Sha256(p) \in paid}

\* The invoices clients have been sent, by either route.
SentInvoices ==
  {o.extra.invoice : o \in offered}
  \cup {Bolt11(raw) : raw \in {i \in invoices : i.inline_descriptions = 1}}

\* A client echoes a challenge it was sent, or what the server now asks of
\* request q with an invoice it was sent, and a preimage it knows or none.
Payloads(q) ==
  {[accepted |-> a, preimage |-> w] :
     a \in offered \cup {requirements(terms(q), i) : i \in SentInvoices},
     w \in {Absent} \cup {Hex(64, p) : p \in KnownPreimages}}

-----------------------------------------------------------------------------
Init ==
  /\ clock = 0 /\ high = 0
  /\ up = TRUE
  /\ config \in Configs
  /\ handler = [r \in Handlers |-> Idle]
  /\ pruner = <<>>
  /\ StoreInit
  /\ invoices = {} /\ offered = {} /\ paid = {}
  /\ spends = [h \in Hashes |-> 0]
  /\ dispensed = [h \in Hashes |-> 0]

HandlerFrame == UNCHANGED <<clock, high, up, config, pruner>>

\* get_fortune without a PAYMENT-SIGNATURE header goes on to challenge().  A
\* request answered 400 (a header that does not decode, another version)
\* changes nothing.
Receive(r, q) ==
  /\ up
  /\ Stage(r) = "idle"
  /\ Becomes(r, Issuing(q))
  /\ HandlerFrame /\ UNCHANGED <<consumed, offered, envVars, salesVars>>

\* get_fortune with a payload: settle's call of verify at unix_now().
Present(r, q) ==
  /\ up
  /\ Stage(r) = "idle"
  /\ \E payload \in Payloads(q) :
       LET inv == decode(payload.accepted.extra.invoice)
       IN  \/ /\ Accepts(payload, terms(q), clock)
              /\ Becomes(r, Settling(q, inv.payment_hash, clock,
                                     retain_until(inv, terms(q))))
           \/ /\ ~ Accepts(payload, terms(q), clock)
              /\ Becomes(r, Issuing(q))
  /\ HandlerFrame /\ UNCHANGED <<consumed, offered, envVars, salesVars>>

\* LND adds the invoice that challenge() awaits.
Issue(r) ==
  /\ Stage(r) = "issuing"
  /\ \E p \in Preimages, t \in 0 .. MaxTime + Drift :
       LET raw == LndInvoice(config, handler[r].request, p, t)
       IN  /\ IsFresh(raw)
           /\ invoices' = invoices \cup {raw}
           /\ Becomes(r, Issued(handler[r].request, raw))
  /\ HandlerFrame /\ UNCHANGED <<consumed, offered, paid, salesVars>>

\* LND adds the invoice of a challenge on /fortune.
FortuneIssue ==
  /\ up
  /\ \E p \in Preimages, t \in 0 .. MaxTime + Drift :
       LET raw == FortuneInvoice(config, p, t)
       IN  /\ IsFresh(raw)
           /\ invoices' = invoices \cup {raw}
  /\ HandlerFrame
  /\ UNCHANGED <<handler, consumed, offered, paid, salesVars>>

\* Mutant: an await between the INSERT and the response, where a disconnect
\* drops the handler.
IssueFails_DropsSettled(r) ==
  /\ Stage(r) \in {"issuing", "issued", "settled"}
  /\ Becomes(r, Idle)
  /\ HandlerFrame /\ UNCHANGED <<consumed, offered, envVars, salesVars>>

\* The await ends without an invoice: LND fails or its answer is lost (500),
\* or the client disconnects and the handler is dropped.
IssueFails(r) ==
  /\ Stage(r) \in {"issuing", "issued"}
  /\ Becomes(r, Idle)
  /\ HandlerFrame /\ UNCHANGED <<consumed, offered, envVars, salesVars>>

\* challenge() checks the invoice and sends it, or answers 500.
SendChallenge(r) ==
  /\ Stage(r) = "issued"
  /\ LET invoice == Bolt11(handler[r].raw)
         t       == terms(handler[r].request)
     IN  offered' = IF IssuedInvoiceOk(invoice, t, clock)
                    THEN offered \cup {requirements(t, invoice)}
                    ELSE offered
  /\ Becomes(r, Idle)
  /\ HandlerFrame /\ UNCHANGED <<consumed, envVars, salesVars>>

ReplayKey(r) == key(config.network, handler[r].hash)

\* Mutant: the key is kept from the time of the reading only.
Settle_NoRetention(r) ==
  /\ Stage(r) = "settling"
  /\ Consume(ReplayKey(r), handler[r].now)
  /\ spends' = [spends EXCEPT ![handler[r].hash] = @ + 1]
  /\ Becomes(r, Settled(handler[r].request, handler[r].hash))
  /\ HandlerFrame /\ UNCHANGED <<offered, envVars, dispensed>>

\* settle's consume inserts the key: the payment is accepted.
Settle(r) ==
  /\ Stage(r) = "settling"
  /\ Consume(ReplayKey(r), handler[r].until)
  /\ spends' = [spends EXCEPT ![handler[r].hash] = @ + 1]
  /\ Becomes(r, Settled(handler[r].request, handler[r].hash))
  /\ HandlerFrame /\ UNCHANGED <<offered, envVars, dispensed>>

\* The key was there: duplicate_settlement, and a fresh challenge.
Duplicate(r) ==
  /\ Stage(r) = "settling"
  /\ Conflict(ReplayKey(r))
  /\ Becomes(r, Issuing(handler[r].request))
  /\ HandlerFrame /\ UNCHANGED <<offered, envVars, salesVars>>

\* Mutant: the failing request leaves the key behind.
StoreFails_Consumes(r) ==
  /\ Stage(r) = "settling"
  /\ Consume(ReplayKey(r), handler[r].until)
  /\ Becomes(r, Idle)
  /\ HandlerFrame /\ UNCHANGED <<offered, envVars, salesVars>>

\* SettleError::Store: SQLite fails, nothing is consumed, the answer is 500.
StoreFails(r) ==
  /\ Stage(r) = "settling"
  /\ Becomes(r, Idle)
  /\ HandlerFrame /\ UNCHANGED <<consumed, offered, envVars, salesVars>>

\* The 200 response with the fortune.
Serve(r) ==
  /\ Stage(r) = "settled"
  /\ dispensed' = [dispensed EXCEPT ![handler[r].hash] = @ + 1]
  /\ Becomes(r, Idle)
  /\ HandlerFrame /\ UNCHANGED <<consumed, offered, envVars, spends>>

-----------------------------------------------------------------------------
PrunerFrame == UNCHANGED <<clock, high, up, config, handler, offered,
                           envVars, salesVars>>

\* Mutant: the clock is read once, when the task starts.
PruneTick_SpawnTime ==
  /\ up
  /\ pruner = <<>>
  /\ pruner' = <<0>>
  /\ PrunerFrame /\ UNCHANGED consumed

\* The pruner's interval ticks and it reads unix_now().
PruneTick ==
  /\ up
  /\ pruner = <<>>
  /\ pruner' = <<clock>>
  /\ PrunerFrame /\ UNCHANGED consumed

Prune ==
  /\ pruner # <<>>
  /\ prune(pruner[1])
  /\ pruner' = <<>>
  /\ PrunerFrame

\* The DELETE fails; the next tick tries again.
PruneFails ==
  /\ pruner # <<>>
  /\ pruner' = <<>>
  /\ PrunerFrame /\ UNCHANGED consumed

-----------------------------------------------------------------------------
\* The process dies.  Handlers and the pruner are lost; the table stays.
Crash ==
  /\ up
  /\ up' = FALSE
  /\ handler' = [r \in Handlers |-> Idle]
  /\ pruner' = <<>>
  /\ UNCHANGED <<clock, high, config, consumed, offered, envVars, salesVars>>

\* from_app on the same database, perhaps with another environment.
Restart(c) ==
  /\ ~ up
  /\ up' = TRUE
  /\ config' = c
  /\ UNCHANGED <<clock, high, handler, pruner, consumed, offered, envVars,
                 salesVars>>

\* LND settles a payment of an invoice its own clock says is unexpired.
Pay(h) ==
  /\ \E i \in SentInvoices :
       /\ decode(i).payment_hash = h
       /\ clock <= end(decode(i)) + Drift
  /\ h \notin paid
  /\ paid' = paid \cup {h}
  /\ UNCHANGED <<clock, high, up, config, handler, pruner, consumed, invoices,
                 offered, salesVars>>

ClockFrame == UNCHANGED <<up, config, handler, pruner, consumed, offered,
                          envVars, salesVars>>

Tick ==
  /\ clock < MaxTime
  /\ \A r \in Handlers :
       Stage(r) = "settling" => clock < handler[r].now + MaxStall
  /\ clock' = clock + 1
  /\ high' = IF clock' > high THEN clock' ELSE high
  /\ ClockFrame

StepBack ==
  /\ \E t \in 0 .. MaxTime :
       /\ t < clock
       /\ high <= t + MaxBack
       /\ clock' = t
  /\ UNCHANGED high
  /\ ClockFrame

-----------------------------------------------------------------------------
HandlerStep(r) ==
  \/ Issue(r) \/ IssueFails(r) \/ SendChallenge(r)
  \/ Settle(r) \/ Duplicate(r) \/ StoreFails(r) \/ Serve(r)

Next ==
  \/ \E r \in Handlers, q \in Requests : Receive(r, q) \/ Present(r, q)
  \/ \E r \in Handlers : HandlerStep(r)
  \/ FortuneIssue
  \/ PruneTick \/ Prune \/ PruneFails
  \/ Crash
  \/ \E c \in Configs : Restart(c)
  \/ \E h \in Hashes : Pay(h)
  \/ Tick
  \/ StepBack

Spec == Init /\ [][Next]_vars
-----------------------------------------------------------------------------
(***************************************************************************)
(* Fairness.  The service manager restarts a dead process, whose pruner    *)
(* ticks at once and then for ever.  A DELETE may fail, and a process may  *)
(* die before it, but not every time: hence strong fairness.               *)
(***************************************************************************)
Fairness ==
  /\ WF_vars(\E c \in Configs : Restart(c))
  /\ SF_vars(PruneTick) /\ SF_vars(Prune)

FairSpec == Spec /\ Fairness

-----------------------------------------------------------------------------
HandlerOK(s, issued) ==
  \/ s = Idle
  \/ \E q \in Requests : \/ s = Issuing(q)
                         \/ \E raw \in issued : s = Issued(q, raw)
                         \/ \E h \in Hashes : s = Settled(q, h)
                         \/ \E h \in Hashes, now \in 0 .. MaxTime,
                               until \in 0 .. UMax : s = Settling(q, h, now, until)

\* Whether raw is an invoice that LND can have made for this server.
ByLnd(raw) ==
  \E c \in Configs, p \in Preimages, t \in 0 .. MaxTime + Drift :
    \/ \E q \in Requests : raw = LndInvoice(c, q, p, t)
    \/ raw = FortuneInvoice(c, p, t)

\* The state is well formed: every invoice is one LND made for a challenge
\* under some configuration, every offer and every row is about such an
\* invoice, and a handler's locals have the types of its stage.
TypeOK ==
  /\ clock \in 0 .. MaxTime /\ high \in 0 .. MaxTime
  /\ up \in BOOLEAN
  /\ config \in Configs
  /\ DOMAIN handler = Handlers
  /\ \A r \in Handlers : HandlerOK(handler[r], invoices)
  /\ pruner = <<>> \/ \E now \in 0 .. MaxTime : pruner = <<now>>
  /\ \A row \in consumed :
       /\ row.retain_until \in 0 .. IMax
       /\ \E n \in Network, h \in Hashes :
            row = [key |-> key(n, h), retain_until |-> row.retain_until]
  /\ \A raw \in invoices : ByLnd(raw)
  /\ \A o \in offered :
       \E c \in Configs, q \in Requests, raw \in invoices :
         o = requirements(TermsOf(c, q), Bolt11(raw))
  /\ paid \subseteq Hashes
  /\ spends \in [Hashes -> Nat]
  /\ dispensed \in [Hashes -> Nat]

\* A payment buys at most one fortune, across concurrent requests, retries
\* with the same proof, pruning, crashes and restarts (ReplayStore's "each
\* one may only buy a single fortune"; settle's "Only after this succeeds").
AtMostOnce == \A h \in Hashes : dispensed[h] <= spends[h] /\ spends[h] <= 1

\* Whether the invoice can pass verify's checks of currency and expiry now.
CanPassValidation(raw) ==
  LET inv == decode(Bolt11(raw))
  IN  /\ inv.currency = currency(config.network)
      /\ clock <= last_valid(inv, config)

\* As long as a spent invoice can pass validation its key is in the table
\* (replay.rs: "Keys are only removed once the invoice they came from can no
\* longer pass validation"), whatever the pruner last read from the clock.
KeysOutliveValidity ==
  \A raw \in invoices : \A h \in Hashes :
    (raw.payment_hashes = <<h>> /\ spends[h] > 0 /\ CanPassValidation(raw))
      => HasKey(key(config.network, h))

\* A handler that sells against a payment hash holds a paid invoice that LND
\* issued for this very request, at the price, to the node and on the network
\* the server now runs with, whatever the client echoed (verify, check_extra);
\* in particular not an invoice that was paid on /fortune.
SoldAsOffered ==
  \A r \in Handlers : Stage(r) \in {"settling", "settled"} =>
    /\ handler[r].hash \in paid
    /\ \E raw \in invoices :
         /\ raw.payment_hashes = <<handler[r].hash>>
         /\ raw.description_hashes = <<request_hash(config, handler[r].request)>>
         /\ raw.amount_pico_btc = <<10 * config.amount_msat>>
         /\ raw.payee = <<config.pay_to>>
         /\ raw.currency = currency(config.network)

\* An offer whose terms are still the server's is honoured until its invoice's
\* expiry plus the clock skew: unless its payment was accepted before, the
\* payer's proof passes verify and its key is not in the table.
OfferHonoured ==
  \A o \in offered, q \in Requests, p \in Preimages :
    LET inv == decode(o.extra.invoice)
    IN  /\ o = requirements(terms(q), o.extra.invoice)
        /\ inv.payment_hash = Sha256(p) /\ spends[Sha256(p)] = 0
        /\ inv.created <= clock + config.clock_skew_secs
        /\ clock <= inv.created + inv.expiry + config.clock_skew_secs
        => /\ Accepts(HonestPayload(o, p), terms(q), clock)
           /\ ~ HasKey(key(config.network, Sha256(p)))

\* Whoever pays before the invoice expires on LND's clock can claim at that
\* moment, if the skew allowance covers the clocks' difference (verify: "a
\* payment that completed just before expiry may still be claimed within the
\* clock skew allowance").
PaidInTimeIsClaimable ==
  [][\A h \in paid' \ paid, o \in offered, q \in Requests, p \in Preimages :
       LET inv == decode(o.extra.invoice)
       IN  /\ h = Sha256(p) /\ inv.payment_hash = h
           /\ o = requirements(terms(q), o.extra.invoice)
           /\ Drift <= config.clock_skew_secs /\ inv.created <= clock + Drift
           => Accepts(HonestPayload(o, p), terms(q), clock)]_vars

Owed(h)  == dispensed[h] < spends[h]
Lost(h)  == Owed(h) /\ \A r \in Handlers : Stage(r) = "settled" => handler[r].hash # h

\* A payment whose key was inserted loses its fortune only with the process:
\* no disconnect, store failure or other request comes between the INSERT and
\* the response, which follow each other without an await (get_fortune).
SettledIsServed == [][\A h \in Hashes : Lost(h)' => Lost(h) \/ ~ up']_vars

Sale == INSTANCE FortuneSale
          WITH Payments <- Hashes, redeemed <- spends, served <- dispensed

\* The route implements the sale: whatever the schedule, a payment is redeemed
\* only after it was paid and only once, and each redemption serves one fortune.
ImplementsSale == Sale!SaleSpec

\* The table does not grow without bound: a key whose retention is over is
\* deleted, despite failed deletes and restarts, unless the clock steps back.
ExpiredKeysArePruned ==
  \A n \in Network, h \in Hashes :
    (\E row \in consumed : row.key = key(n, h) /\ row.retain_until < clock)
      ~> ~ (\E row \in consumed : row.key = key(n, h) /\ row.retain_until < clock)
-----------------------------------------------------------------------------
(***************************************************************************)
(* The inductive invariant behind AtMostOnce and KeysOutliveValidity.      *)
(***************************************************************************)
Larger(a, b) == IF a >= b THEN a ELSE b

\* How far the clock may have been ahead of a handler's reading.
Lag == Larger(MaxStall, MaxBack)

\* What the retention has to cover: the clock's slack, and a restart that
\* widens the skew after keys were inserted under a narrower one.
RetentionBudget ==
  \A c, d \in Configs :
    d.clock_skew_secs + Lag <= c.clock_skew_secs + REPLAY_RETENTION_SECS

ClocksAgree ==
  /\ clock <= high /\ high <= clock + MaxBack
  /\ \A i \in DOMAIN pruner : pruner[i] <= high

DownIsIdle ==
  ~ up => pruner = <<>> /\ \A r \in Handlers : handler[r] = Idle

FreshHashes ==
  \A a, b \in invoices : a.payment_hashes = b.payment_hashes => a = b

\* A handler about to insert a key took it from an issued invoice of this
\* network, and read a time at which that invoice was valid, not long ago.
SettlingInv ==
  \A r \in Handlers : Stage(r) = "settling" =>
    /\ high <= handler[r].now + Lag
    /\ \E raw \in invoices :
         LET inv == decode(Bolt11(raw))
         IN  /\ inv.payment_hash = handler[r].hash
             /\ inv.currency = currency(config.network)
             /\ handler[r].now <= last_valid(inv, config)
             /\ handler[r].until = retain_until(inv, config)

\* Once spent, a hash has its key in the table, or the clock has been past the
\* retention the key was inserted with.
SpentInv ==
  \A h \in Hashes : spends[h] > 0 =>
    \E raw \in invoices, c \in Configs :
      LET inv == decode(Bolt11(raw))
      IN  /\ inv.payment_hash = h
          /\ inv.currency = currency(c.network)
          /\ \/ \E row \in consumed :
                  /\ row.key = key(c.network, h)
                  /\ row.retain_until = to_sql_time(retain_until(inv, c))
             \/ high > inv.created + inv.expiry + c.clock_skew_secs
                         + REPLAY_RETENTION_SECS

\* A settled handler owns the one acceptance of its hash, not yet served.
SettledInv ==
  \A r \in Handlers : Stage(r) = "settled" =>
    /\ spends[handler[r].hash] = 1 /\ dispensed[handler[r].hash] = 0
    /\ \A s \in Handlers :
         Stage(s) = "settled" /\ handler[s].hash = handler[r].hash => s = r

\* The inductive invariant: how far every handler, the pruner and the table
\* are from accepting a payment a second time.
IndInv ==
  /\ TypeOK /\ ClocksAgree /\ DownIsIdle /\ FreshHashes
  /\ SettlingInv /\ SpentInv /\ SettledInv
  /\ AtMostOnce

\* Behind OfferHonoured: what LND answered is the invoice the handler asked for;
\* every offer carries such an invoice, checked under the offer's own terms; and
\* the table holds keys of accepted payments only.
IssuedInv ==
  \A r \in Handlers : Stage(r) = "issued" =>
    \E p \in Preimages, t \in Nat :
      handler[r].raw = LndInvoice(config, handler[r].request, p, t)

OffersChecked ==
  \A o \in offered :
    \E c \in Configs, q \in Requests, p \in Preimages, t \in 0 .. UMax :
      /\ o = requirements(TermsOf(c, q), Bolt11(LndInvoice(c, q, p, t)))
      /\ Decodes(o.extra.invoice)

KeysAreSpent ==
  \A row \in consumed, n \in Network, h \in Hashes :
    row.key = key(n, h) => spends[h] > 0

OfferInv == IssuedInv /\ OffersChecked /\ KeysAreSpent
=============================================================================
