# A verification of fortune-402

TLA+ models of the fortune-402 server, checked with TLC on small instances and
proved with TLAPS for all instances. This file says what the system consists
of, what is modelled and how the models correspond to the code, what every run
and every theorem shows, and what is left out and why. Paths are relative to
the repository's root; `replay.rs:33` stands for line 33 of `src/replay.rs`.

## 1. Inventory of the system

fortune-402 is one process, an axum server on a multi-threaded tokio runtime.
It sells fortunes for Lightning payments on two routes that share an LND node
and nothing else.

| component | source | state it keeps | operations |
|---|---|---|---|
| replay store | `src/replay.rs` | a SQLite table of (key, retain_until) behind a mutex, on disk | open, consume, prune |
| lnbtc scheme | `src/x402/lnbtc.rs` | none | requirements, Invoice::decode, check_issued_invoice, verify, settle |
| request binding | `src/x402/binding.rs` | none | http_request_hash, is_valid_http_params |
| x402 route | `src/x402/handler.rs` | its configuration; one task per request | get_fortune, challenge, from_app |
| replay pruner | `src/x402/handler.rs` | one background task | prune every ten minutes |
| x402 wire types | `src/x402/types.rs` | none | base64 and JSON of the headers |
| LND client | `src/lnd.rs` | a gRPC client behind a tokio mutex | connect, create_invoice, get_info |
| L402 route | `src/handlers.rs`, `src/l402.rs`, `src/token.rs` | the root key | mint a token, verify a token and preimage |
| configuration | `src/config.rs` | read once at start | from_env |
| process lifecycle | `src/main.rs`, `src/systemd.rs` | readiness, shutdown signal, watchdog task | start, serve, drain |
| health probe | `src/main.rs` | none; a process of its own | one GET against the server's own address |
| errors, fortunes | `src/error.rs`, `src/fortunes.rs` | none | error to status; a random choice |

How they interact. A request to `/x402` without a payment makes the handler
ask LND for an invoice whose description hash commits to the request; the
handler checks what comes back and offers it in a 402 challenge. A request
with a payment is verified against the terms the server would offer for this
very request now; if that succeeds `settle` inserts the payment's key into the
replay store, and only the handler whose INSERT took effect answers with a
fortune. All others get a fresh challenge. The pruner deletes keys whose
`retain_until` has passed. The table is the only state that survives the
process; the configuration may be different after every start. A request to
`/fortune` is answered with an invoice and an HMAC token over its payment
hash, and a token with the matching preimage buys a fortune any number of
times.

Both kinds of challenge call LND through one gRPC client behind one tokio
mutex, held across the call. `main` connects to LND, reads the node's
identity, binds the listener, starts the watchdog's pings, tells systemd READY
and serves. A signal makes the shutdown task tell systemd STOPPING; then the
server stops accepting, finishes the open requests, and `main` returns.

What is hard about it:

* **Concurrency.** Handlers of the same proof run at the same time; the
  store's mutex orders only the single statements. The clock is read before
  the mutex is acquired, by handlers (`handler.rs:202`) and by the pruner
  (`:137`).
* **Time.** Expiry, skew allowance and retention must fit together: an invoice
  must not pass validation after its key is gone. The system clock may step
  back, and LND's clock differs from the server's.
* **Restarts.** Invoices, payments and keys outlive the process and its
  configuration: price, URL, network and skew may change between the
  challenge, the payment and the claim.
* **Failures.** The process may die between INSERT and response; SQLite may
  fail on either statement; LND may fail, or never answer, while a handler
  holds the mutex that every challenge needs; clients leave at any await.
* **The process's own life.** Signals come at any point of the start; a stop
  waits for what is open; a ping task shares the runtime with the handlers.
* **Numbers.** Times are `u64` in the checks and `i64` in the table; prices
  come from the environment as `i64`, are multiplied by 1000 and are compared
  as `u64`.

What makes each component correct:

* *replay store, x402 route, pruner*: a payment buys at most one fortune; a
  key stays while its invoice can pass validation, and goes eventually after
  that.
* *scheme*: verify accepts exactly the proofs that the scheme means; whatever
  a challenge offers can later be settled; the reasons told apart are the
  documented ones.
* *binding*: the hash identifies the request, with its bound headers.
* *x402 route*: what is sold was paid for, for this request, at the present
  price, to the present node; an offer on present terms is honoured; between
  the acceptance of a payment and its fortune nothing comes but the end of the
  process.
* *LND client*: the lock passes on from every handler that ends, in the order
  of arrival; a hung LND blocks challenges, and a stop while one is open, and
  nothing else.
* *L402 route*: a token is good only with the preimage of its own invoice,
  under the key that signed it; neither route accepts the other's proof.
* *lifecycle*: READY is announced only by a process that listens; a process
  that reports success has finished its open requests; the watchdog kills a
  hung runtime and no other.
* *configuration*: whatever the server starts with is in the ranges that the
  route relies on, and its URLs are the ones that clients hash.
* *health probe*: it asks the server that was started with the same settings.

## 2. The modules

| module | what it is |
|---|---|
| `Binding` | wire values; requestBindingParams and the request hash (`binding.rs`) |
| `Lnbtc` | the pure part of the scheme (`lnbtc.rs`) |
| `ReplayStore` | the table and its statements (`replay.rs`) |
| `X402` | the route: handlers, pruner, crashes, restarts, LND, payers, clock (`handler.rs`); extends `Lnbtc` and `ReplayStore` |
| `FortuneSale` | the abstract specification of what `/x402` promises |
| `X402_proofs` | theorems about `X402` |
| `Lnbtc_proofs` | theorems about the checks of the scheme, and what `verify` accepts |
| `Offer_proofs` | theorems about what `/x402` owes to payers: offers, payments in time and fortunes |
| `L402` | tokens, root key and grants of `/fortune` (`token.rs`, `l402.rs`, `handlers.rs`) |
| `Server` | both routes over one LND in one process: composes `X402` and `L402` |
| `Server_proofs` | theorems about `Server` |
| `LndLock` | the FIFO mutex of the LND client (`handlers.rs:45`, `handler.rs:49`) |
| `Process` | the life of the process, its connections, and how they use the mutex (`main.rs`, `systemd.rs`); extends `LndLock` |
| `Service` | the abstract specification of what the process promises systemd and clients |
| `Process_proofs` | theorems about `Process` |
| `Config` | the settings: `from_env`, `from_app`, the probe's address (`config.rs`, `handler.rs:78-124`, `main.rs:123-130`); extends `Lnbtc` |
| `Config_proofs` | theorems about the settings, the request hash and the binding's parameters |
| `MCLnbtc_proofs`, `MCInputs_proofs` | the properties of `MCLnbtc` and `MCInputs` for any number of edits |
| `MCX402`, `MCLnbtc`, `MCServer`, `MCProcess`, `MCInputs` | instances for TLC |

### Data

SHA-256 is injective: `Sha256(x)` is a tagged value. A JSON value is a tagged
tuple that keeps what the checks can tell apart: missing, not a string, text,
decimal, or so many lower-case hex digits of something. A bolt11 string stands
for the raw invoice record signed in it. The record keeps how many payment
hashes, descriptions, amounts and expiries there are, because
`Invoice::decode` depends on that. URLs, bodies and node keys are opaque.
`X402` abstracts `i64::MAX` and `u64::MAX` to `IMax` and `UMax`, constants of
any size with `IMax <= UMax`, and keeps the clamp and the saturation.

### `X402`: state and actions

`handler[r]` is where request handler `r` is: `idle`, `issuing` (it awaits
LND), `issued` (LND has added the invoice), `settling` (verify succeeded at
the time `now`; it waits for the mutex), `settled` (the INSERT took effect).
`consumed` is the table. `invoices` is what LND issued, `offered` what went
out in challenges, `paid` the hashes whose preimage a payer has learnt, `high`
the largest clock reading so far. `spends` and `dispensed` count acceptances
and fortunes per payment hash; they are history and read by no action.

| action | code |
|---|---|
| `Receive` | `get_fortune` without a payment (`handler.rs:163-200`) |
| `Present` | `get_fortune` with one: terms, `unix_now`, all of `verify` (`:190-202`, `lnbtc.rs:315-380`) |
| `Issue`, `IssueFails`, `SendChallenge` | `challenge`: the await on LND, its failure, the check of the invoice and the answer (`:248-295`) |
| `Settle`, `Duplicate`, `StoreFails` | the three outcomes of `settle` (`lnbtc.rs:433-455`) and what `get_fortune` does with them |
| `FortuneIssue` | LND adds an invoice for a challenge on the other route (`handlers.rs:43-52`, `lnd.rs:33-54`) |
| `Serve` | the 200 response (`handler.rs:203-218`) |
| `PruneTick`, `Prune`, `PruneFails` | the pruner: the clock reading, the DELETE, its failure (`:131-143`) |
| `Crash`, `Restart` | the process dies at any point; `from_app` under any configuration |
| `Pay`, `Tick`, `StepBack` | the payer with LND; the system clock |

The inputs of `Present` are what a client of this server can send: an offer it
once received, or what the server now asks of the request with an invoice it
once received on either route, and a preimage it has paid for or none. Every
other malformation of a payload is the business of `MCLnbtc`, which has no
concurrency. `Present` is one action because verify reads no shared state, and
settle follows without an await, so that a client that disconnects cannot
cancel the handler between verify, INSERT and response. `IssueFails` covers
the cancellation during the only await. A handler that can no longer send its
response has sold a fortune that nobody receives; the model counts it as
served, and a crash before it as not served.

### `Server`: both routes

`Server` adds the root key and three actions to the steps of `X402`.
`FortuneChallenge` is `FortuneIssue` with the token minted for the new
invoice. `FortuneGrant` is a request with credentials that verify.
`RestartServer` is a restart that loads a root key, the configured one or a
random one. Clients may put any signature they were ever sent on any payment
hash, with any preimage they know. `tokens` and `granted` are history: the
server stores neither. Requests answered 401 change nothing. That `/fortune`
grants any number of times is no loss of state, so `granted` is a set. Every
step of `Server` is a step of `X402` or leaves its variables alone, which
carries the theorems about `X402` over.

### `Process`: state and actions

`main` and `shutdown` are where the main task and the shutdown task are,
`told` is what systemd was told last, `outcome` how the last process ended.
`conn[r]` is where connection `r` and its request are, from the kernel's
backlog to the response. `queue` is the LND mutex: the tasks that called
`lock()`, the first of which owns it. `quiet` counts the time since systemd
last heard a ping, and `hung` says that the runtime makes no progress for
good. A step of a task ends where it awaits.

| action | code |
|---|---|
| `StartProcess`, `Connected`, `InfoArrives`, `StartFails` | `main` up to the router (`main.rs:49-67`); `from_app` takes the mutex for `get_info` if `PUBLIC_URL` is set (`handler.rs:79-85`); every `?` on the way |
| `Bind`, `Announce`, `Serve` | the listener, watchdog and READY, and `axum::serve` (`main.rs:70-79`) |
| `Arm`, `Signal`, `NotifyStopping` | `shutdown_signal` is polled for the first time, a signal arrives, STOPPING is sent (`:89-114`) |
| `ClientConnects`, `Accept`, `Receive`, `CloseIdle`, `StopAccepting`, `Drained` | the kernel's backlog, and what `axum::serve` does with connections before and during a graceful shutdown |
| `Dispatch`, `CallLnd`, `LndAnswers`, `Reply`, `ClientLeaves` | a handler: to its `lock().await`, into the call of LND, out of it, to the response; dropped wherever it is (`handlers.rs:30-70`, `handler.rs:40-60`) |
| `Ping`, `Tick`, `WatchdogKills`, `Hang` | the ping task (`systemd.rs:36-56`), time, systemd's watchdog, and a runtime whose threads are all stuck |
| `Crash` | the process is killed or crashes |

A connection in `Buyers` asks for things that need an invoice; one that is not
is answered at once: index, health, credentials, good payments, bad headers.
The health probe is one of the latter. What is sold is left to `Server`:
`Process` is about who waits for whom.

### `Config`: settings

A step that can fail is a pair of operators: whether the code goes on, and the
value it then has. `FromEnvOk` and `from_env` are `Config::from_env`;
`PublicUrlOk` and `parse_public_url` are the checks on `PUBLIC_URL` and the
text that comes out; `FromAppOk`, `Enabled` and `from_app` are the error, the
`None` and the value of `X402State::from_app`. An environment variable is
unset, a decimal, a hex text, a socket address, a URL or some other text. A
URL is the record of what `http::Uri` tells the code about it, with its path
as the texts after each slash, so that trailing slashes are trailing empty
texts. `Sells` says that the server gets to serve `/x402`.

### Bounds of the environment

`MaxTime` ends the clock. `MaxBack` is how far it may be behind its own
maximum. `MaxStall` is how far it may advance between a handler's reading and
its INSERT (the time to acquire a mutex that is held for single statements),
`Drift` how far LND's clock may be off. Only `MaxTime` is an artefact of model
checking. The others are assumptions about the environment that appear in what
is proved.

### Fairness

`FairSpec` assumes weak fairness of `Restart` (the service manager restarts a
dead process, as the unit's `Restart=on-failure` does, or an operator starts
it) and strong fairness of `PruneTick` and `Prune`: the interval of the
pruner's task fires for ever as long as the process is up, and ignores failed
deletes (`handler.rs:139`). A delete may fail and a process may die before it,
but not every time; weak fairness would not do, as crashes disable these
actions. No fairness is assumed of clients, payers, LND or the clock.

`FairSpec` of `Process` assumes weak fairness of what the scheduler of the
runtime does with a task that can go on (`Bind`, `Announce`, `Serve`, `Arm`,
`NotifyStopping`, `Accept`, `CloseIdle`, `StopAccepting`, `Drained`, `CallLnd`,
`Reply`, `Ping`), of time, and of systemd's watchdog. All of them are disabled
when the runtime hangs, but for the last two. Nothing is assumed of
LND, of clients or of operators. Where a property needs that LND answers
(`LndAnswersAll`) or that a client who begins a request sends the rest of it
(`ClientsFinish`), the property has this as its hypothesis: the code has no
timeout that would enforce either.

## 3. The runs

| run | instance | what it checks |
|---|---|---|
| `replay` | 1 payment, 2 handlers, skews 0 and 1, retention 2, clock 0..6, steps back and stalls of 1 | `IndInv`, `AtMostOnce`, `KeysOutliveValidity`, `ImplementsSale` |
| `terms` | 1 payment, 2 handlers, 2 requests, restarts that change price, URL or network | `SoldAsOffered`, `OfferHonoured` |
| `payments` | 2 payments, 2 handlers, 2 requests | `AtMostOnce`, `SoldAsOffered`, `SettledIsServed` |
| `clocks` | LND's clock off by 1, skew 0 or 1 | `OfferHonoured`, `PaidInTimeIsClaimable` |
| `edges` | `IMax = 6`, `UMax = 10`, clock 0..9: retentions that fit, are clamped or saturate | `AtMostOnce`, `KeysOutliveValidity` |
| `prune_liveness` | 1 payment, 1 handler, `FairSpec` | `ExpiredKeysArePruned` |
| `verify` | a good payload with up to 2 changed fields, clock 1..6 | `VerifyIsExact`, `BindingReasonsToldApart`, `IssuedChallengeSettles` |
| `server` | both routes, 2 payments, 1 handler, 2 root keys, crashes | `ServerInv`, `RoutesAreSeparate`, `GrantsAreForOwnTokens` |
| `process` | 3 connections that need invoices and 1 that does not, both default dispositions of SIGTERM, watchdog 3, lateness 1, `FairSpec` | `ProcessInv`, `ReadyMeansListening`, `ImplementsService`, `OnlyHungIsKilled`, `HungIsKilled`, `ChallengesAreAnswered`, `LocalNeedsNoLnd`, `StopEnds` |
| `inputs` | an environment, a node, two requests and a params object with up to 3 changes, `IMax = 3000`, `UMax = 6001` | `StartedConfigsFitX402`, `PublicUrlIsTheClients`, `HashIdentifiesRequest`, `ValidParamsAreCanonical`, `ProbeFindsServer` |
| `early_sigterm` | 2 connections, SIGTERM kills by default | `StopIsGraceful`: violated |
| `skew_raise` | as `replay`, but a restart may raise the skew from 0 to 3 | `KeysOutliveValidity`: violated |

Why the bounds are enough. A double spend takes one payment and two handlers,
or one handler twice with the key pruned in between. For the latter the clock
has to pass issue (0), expiry (1), skew (1) and retention (2): 0 to 6 leaves
room for one step more in both directions. In `replay` the retention is
exactly what restarts (a skew difference of 1) and the clock (a slack of 1)
can use up; with a retention of 1 the run fails, so the case happens.
`payments` exists for confusion between two payments or requests, which needs
no long clock. In `edges` the two timeouts make the retention 4 (which fits),
9 (above `IMax`, clamped) or a sum that would pass `UMax` (saturated), and the
clock gets to where each of them matters. In `verify` two edits are enough to
put any pair of checks in conflict, which is what could change a reason; edits
include every branch of decode. `server` needs two payments, one for each
route, and two keys, one of them lost. In `process` one connection can call
LND, one wait at the head of the line and one behind it, so that a handler
leaves the queue from every position, while a fourth shows what does not queue;
the watchdog's interval of 1 and lateness of 1 is the largest that its timeout
of 3 allows. In `inputs` the products and sums that matter pass `IMax` and
`UMax` at small prices (an `IMax` of 3000 overflows from 4 sats on); two
changes make a pair of requests that differ in two ways or agree in a new one,
and a third changes the headers that bind both, so that any two forms of a
bound header are compared.

Symmetry is used over payments and over handlers in the runs without liveness
under fairness; no action or property distinguishes either.

### The findings

`skew_raise` is expected to be violated. `replay.rs:9-10` says "Keys are only
removed once the invoice they came from can no longer pass validation."
`retain_until` is computed with the skew of the configuration at settlement
(`lnbtc.rs:378`). `verify` uses the skew at present (`:371`). A restart that
raises `X402_CLOCK_SKEW_SECS` by more than the retention of an hour makes
invoices valid whose keys were pruned. The comment is right for a fixed
configuration and for raises up to the retention, which is theorem
`KeysAreKept`.

`early_sigterm` is expected to be violated. The repository's README says "`systemctl
stop` sends `SIGTERM`, which starts a graceful shutdown" (lines 113-114).
READY goes out at `main.rs:75`. The handlers of the signals are installed when
`shutdown_signal` is polled for the first time, in a task that `axum::serve`
spawns later (`:77-78`). A SIGTERM in between meets the default disposition
and ends the process at once, with what is in the backlog or already served;
as PID 1 of a container, where the default is to ignore it, the stop is lost
until a second signal or a kill. `process` has the same histories, as an
outcome of its own that `Service` allows only before STOPPING.

### What the pure checks are compared with

`verify` is a list of checks of which the first that fails names the reason.
`VerifyIsExact` compares it with `ValidProof` (`Lnbtc`), which mentions no
check: the payload is the server's offer of this invoice, in which only
`assetTransferMethod` may be missing; the preimage opens the invoice's one
hash; the invoice is signed, commits to the request and to nothing else, and
is for the price, node and network; and the time lies in its life, give or
take the skew. The sums in `InItsLife` do not saturate, and no reason is
named. `HashIdentifiesRequest` compares the request hash with `ReadsAs`
(`Binding`): the list of a header's values, however they are padded and spread
over lines, and whether it is there at all. The server binds no header
(`BOUND_HEADERS`), so what this says of headers is about the code that would
run if it did; of method, URL and body it is about every sale.
`ValidParamsAreCanonical` compares `is_valid_http_params` with the four forms
that the names of the instance allow.

## 4. The theorems

All are in the `_proofs` modules, for every value of the constants that
satisfies the named assumptions: any number of handlers, connections,
requests, configurations and payments, any clock bounds, any integer widths.

| theorem | statement |
|---|---|
| `TypeCorrect` | `Spec => []TypeOK` |
| `Inductive` | `RetentionBudget => (Spec => []IndInv)` |
| `PaymentsBuyAtMostOnce` | `RetentionBudget => (Spec => []AtMostOnce)` |
| `KeysAreKept` | `RetentionBudget => (Spec => []KeysOutliveValidity)` |
| `SalesAreAsOffered` | `Spec => []SoldAsOffered` |
| `RouteImplementsSale` | `RetentionBudget => (Spec => ImplementsSale)` |
| `VerifyExact` | `verify` returns `Ok` if and only if the payload is a `ValidProof` of some invoice and preimage, for every payload, terms and time |
| `VerifyAccepts` | `Accepts`, by which `X402` admits a payment, is `verify = Ok` |
| `BindingVerdicts` | `verify` says `request_binding` only of a malformed binding, `request_mismatch` only of a well-formed one that is not the terms' |
| `VerifyExactInWorld`, `ReasonsToldApartInWorld`, `ChallengesSettleInWorld` | `Spec => []VerifyIsExact`, `[]BindingReasonsToldApart`, `[]IssuedChallengeSettles`, of `MCLnbtc` |
| `CheckedInvoicesSettle` | an invoice that passed `check_issued_invoice` is accepted by `verify` from whoever echoes the challenge with its preimage, at any later time up to its end plus the skew |
| `OffersAreHonoured` | `ClockFits => (Spec => []OfferHonoured)` |
| `PaymentsInTimeAreClaimable` | `ClockFits => (Spec => PaidInTimeIsClaimable)` |
| `AcceptedPaymentsAreServed` | `RetentionBudget => (Spec => SettledIsServed)` |
| `ServerRunsTheRoute` | `ServerSpec => Spec` |
| `ServerSellsOnce` | `RetentionBudget => (ServerSpec => []AtMostOnce)` |
| `ServerInductive` | `ServerSpec => []ServerInv` |
| `RoutesStaySeparate` | `ServerSpec => []RoutesAreSeparate` |
| `GrantsUseOwnTokens` | `ServerSpec => GrantsAreForOwnTokens` |
| `ProcessInductive` | `Spec => []ProcessInv`, of `Process` |
| `ReadyListens` | `Spec => []ReadyMeansListening` |
| `WatchdogSparesLive` | `Spec => OnlyHungIsKilled` |
| `ProcessIsService` | `Spec => ImplementsService` |
| `StartedConfigsFit` | whatever `from_env` and `from_app` let through is in the ranges that `X402Assumption` asks of `Configs`, at 1000 times the configured price |
| `HashBindsRequest` | equal request hashes are of equal method, URL, body and bound names, and of headers with equal digests, present or absent alike |
| `HashIdentifies` | request hashes are equal if and only if method, URL, body and bound names are, and every bound header reads alike (`ReadsAs`) |
| `PublicUrlIsTrimmed` | the public URL of a server that sells is what is configured without the slashes at its end |
| `ValidParamsAreUnique` | two valid parameter objects that name the same headers are the same |
| `StartedConfigsFitInWorld`, `HashIdentifiesInWorld`, `PublicUrlInWorld`, `ParamsCanonicalInWorld`, `ProbeFindsServerInWorld` | `Spec => []P` for the five properties of `inputs`, of `MCInputs` |

The hypothesis `RetentionBudget` says that for any two configurations the skew
of one plus the larger of `MaxStall` and `MaxBack` is at most the skew of the
other plus `REPLAY_RETENTION_SECS`. With the code's hour, stalls, clock steps
and changes of skew within an hour are covered. `skew_raise` shows that
without it the conclusion is false.

The argument. `AtMostOnce` is not inductive. That a hash is spent at most once
depends on its key being in the table whenever a handler is about to insert
it, and the key may have been pruned. What has to be carried along is *why* it
is safe for it to be gone:

* `SpentInv`: the key of a spent hash is in the table, with the retention of
  the configuration under which it was inserted, or the clock has once
  (`high`) been past that retention;
* `SettlingInv`: a handler that is about to insert read a time `now` at which
  its invoice was valid, and `high` has not moved further than the lag from
  `now`.

If the key was gone, `high` would be past the invoice's end plus old skew plus
retention, and at most the invoice's end plus present skew plus lag: the
budget says these exclude each other, so the INSERT of a spent hash always
finds its key. `FreshHashes` (LND does not repeat a hash) makes both speak of
the same invoice; `ClocksAgree` bounds what the pruner may have read;
`SettledInv` gives each acceptance to one handler, from which `dispensed <=
spends`. Clamping to `i64` is handled by `IMaxAssumption` and by lemmas on
`to_sql_time` and `saturating_add`: the clamp can only lower a bound that the
clock, clamped alike, never passes.

For `RoutesAreSeparate` the invariant `ServerInv` traces everything back to
the invoice: each token was minted for an invoice with a memo
(`ServerTypeOK`), each granted hash has such a token and was paid
(`GrantedTokens`), each spent hash has an invoice that commits to a request
(`SpentCommitted`, from `SoldAsOffered`). LND never makes an invoice with
both, and never two with one hash.

For `OfferHonoured` the invariant `OfferInv` follows an offer back to its
making: a handler that has LND's answer has an invoice of LND's made for the
terms of its request (`IssuedInv`), an offer that went out passed
`check_issued_invoice` under the configuration of that time (`OffersChecked`),
and a key in the table was spent (`KeysAreSpent`). If the terms are the same
now, `HonestAccepted`, the lemma behind `CheckedInvoicesSettle`, says that
`verify` takes it, field by field; and an unspent hash has no key, so that the
INSERT takes effect. `ClockFits` says that times fit `u64`.
`PaidInTimeIsClaimable` is about the step `Pay`, which names an invoice by its
payment hash: by `FreshHashes` the invoice that LND settles is the one that
the offer carries, so that LND's clock bounds the server's by `Drift`, which
the skew covers, and the same lemma applies.
`SettledIsServed` needs `SettledInv` of `IndInv`: each acceptance that is not
served yet has one handler in stage `settled`, and no step but `Serve` and the
end of the process moves such a handler.

For `Process` the inductive invariant is `ProcessInv`. `LockIsExact` says that
the queue holds exactly the tasks that wait for LND or call it, once each, and
that who calls is its head: it carries the argument that no dropped handler
keeps the mutex, and rests on lemmas on what `Append` and removal at any place
do to an injective sequence. `ConnectionsFitMain` and `ShutdownFitsMain` tie
the connections and what systemd was told to where `main` is, which gives
`ReadyMeansListening` and the steps of the refinement: `Exit` of `Service`
asks that no request is open, and `Drained` that no connection exists.
`PingsAreInTime` bounds the silence of a live runtime by half the timeout plus
the lateness, which `ProcessAssumption` (`2 * MaxLate < WatchdogSec`) keeps
below the timeout. How late the scheduler runs a due task is an assumption
about the machine.

`StartedConfigsFit` discharges for the real start what `X402` assumes of its
constant `Configs`.

For `VerifyExact` the two sides are cut into the same parts. Lemmas on
`FirstFailure` say that it is `Ok` if all checks pass (`FirstFailureIs`), that
a later list counts only if an earlier one passes (`FailsInTurn`), and which
verdicts each stage can give (`StageVerdicts`, `ExtraVerdicts`); they rest on
the least number of a set (`LeastOf`), which follows from the well-foundedness
of `<` on the naturals. With them `VerifyAccepts` reduces `verify` to
`Passes` of six lists, and `EchoIs`, `PreimageOpens` and `DecodesFor` say of
one group of lists each that passing is one conjunct of `ValidProof`.
`DecodesFor` carries the arithmetic: an amount in pico-BTC is the price only if
division by 10 loses nothing, a missing expiry is the default, and a
saturated sum is compared with a time that is at most `UMax`. The hypothesis
`IsTerms` (the terms' numbers fit `u64` and their parameters are valid) is what
`StartedConfigsFit` and `BOUND_HEADERS` give to every sale.

`HashIdentifies` rests on the injectivity of `Sha256` and on sequences of equal
length being equal field by field; how the values of several lines are
flattened is a recursive definition that both sides share and that the proof
leaves unexpanded. `ValidParamsAreUnique` needs that two strictly
increasing sequences with the same elements are equal. That is an induction
over their length; it is done as an argument on the least place in which they
differ (`LeastOf` again), since the induction theorems of the library cannot be
used. `TrimDropsSlashes` finds the last text that is not blank in the same way.

The theorems about `MCLnbtc` and `MCInputs` hold for every `MaxEdits`, every
width of the integers and, in `MCLnbtc`, every `MaxTime` that fits. Their
inductive invariants (`WorldInv`, `InputsInv`) say that each field is as it was
or as some edit left it, hence of the types that the general theorems ask for.
What they add to the runs is that no combination of more edits matters.

Model-checked only: liveness, which is beyond TLAPS: `ExpiredKeysArePruned`,
`HungIsKilled`, `ChallengesAreAnswered`, `LocalNeedsNoLnd` and `StopEnds`.
Every other property of a passing run is the conclusion of a theorem. For the
same reason there is no theorem that `FairSpec` implements a fair `Service` or
`FortuneSale`: the abstract specifications state safety only.

## 5. What is not modelled, and the plan

Of the routes: the answers 400 and 401 (a header that does not decode or does
not verify changes no state); base64, JSON and the syntax of the L402 header;
CORS; a start without x402, after which only `/fortune` is served and nothing
happens to the state of `/x402` but that its clock goes on, as while it is
down. In `X402` a handler that waits for the LND mutex is `issuing`; the mutex
is the business of `Process`. Poisoning of the store's mutex does not occur:
nothing panics under it. That a crash of the machine keeps committed rows is
SQLite's promise.

Of the process: SIGINT, which is handled like SIGTERM; the panic if a signal
handler cannot be installed; a unit without a watchdog or with one too short
to ping, and a notification that fails to send, which are logged and change
nothing else. A response is assumed to fit the socket's buffer, so that a
client that does not read it does not hold the server. Three hazards have no
property because the code promises nothing about them: a response that is lost
on the way to its client is not repeated (`Serve` counts it as served);
connections that are still in the backlog when the listener is dropped are
reset; and a client that sends half a request holds a stop until systemd's
`TimeoutStopSec` (`ClientsFinish` is the hypothesis of `StopEnds` for that
reason).

Of the configuration: `LND_ADDRESS` and `INVOICE_MEMO`, which are passed on
unchecked, and the contents of the certificate and macaroon. Of the probe: its
timeout of five seconds, its reading of the status line, and port 0, which
only tests use. Errors, fortunes, packaging and CI keep no state.

What is left, in this order:

1. The steps of `X402` against `ValidProof`: that what `Present` lets through
   is a `ValidProof`, with `IsTerms` from `X402Assumption`, and the properties
   of offers for `Server` by way of `ServerRunsTheRoute`.
2. An abstract specification of the LND mutex (mutual exclusion in the order of
   arrival) that `Process` implements, with the refinement proved.
3. The probe as a process of its own: its verdict against the state of
   `Process`, with its timeout.
4. The syntax of the two payment headers, if a property beyond round trips
   can be stated about it.
