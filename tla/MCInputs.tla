------------------------------ MODULE MCInputs ------------------------------
(***************************************************************************)
(* The environment, the node and the requests a server may meet: a usual   *)
(* setup in which up to MaxEdits things are changed, among them two        *)
(* requests that differ in nothing at first.                               *)
(***************************************************************************)
EXTENDS Config, TLC

CONSTANT MaxEdits

VARIABLES base,      \* the URL that clients know, without trailing slashes
          env,       \* the environment, but for PUBLIC_URL
          public,    \* how PUBLIC_URL is set: "unset", slashes, or a bad text
          info,      \* what LND's get_info returns
          requests,  \* two requests, under the headers each is bound by
          params,    \* a requestBindingParams that a client echoes
          edits      \* how many things were changed

vars == <<base, env, public, info, requests, params, edits>>

UsualUrl == [ascii |-> TRUE, query |-> FALSE, scheme |-> "https",
             userinfo |-> FALSE, host |-> "host", path |-> <<>>]

\* A path does not end with a blank: what does is written with slashes.
Bases == {<<>>, <<"prefix">>, <<Blank, "prefix">>}

BadUrls == {Text(Blank), Url([UsualUrl EXCEPT !.ascii = FALSE]),
            Url([UsualUrl EXCEPT !.query = TRUE]),
            Url([UsualUrl EXCEPT !.scheme = "ftp"]),
            Url([UsualUrl EXCEPT !.scheme = Blank]),
            Url([UsualUrl EXCEPT !.host = Blank]),
            Url([UsualUrl EXCEPT !.userinfo = TRUE])}

PublicUrl ==
  IF public[1] = "unset" THEN Absent
  ELSE IF public[1] = "bad" THEN public[2]
  ELSE Url([UsualUrl EXCEPT !.path = base \o [i \in 1 .. public[2] |-> Blank]])

Env == [env EXCEPT !.PUBLIC_URL = PublicUrl]

EditsOfEnv ==
  [LND_CERT_PATH        |-> {Absent},
   LND_MACAROON_PATH    |-> {Absent},
   LISTEN_ADDR          |-> {Text("localhost:3402"), Socket(4, "loopback", 8080),
                             Socket(4, "other", 3402), Socket(6, "unspecified", 3402),
                             Socket(6, "other", 8080), Socket(4, "unspecified", 0)},
   INVOICE_AMOUNT_SATS  |-> {Dec(-IMax - 1), Dec(-1), Dec(0), Dec(3), Dec(4), Dec(7),
                             Dec(IMax), Dec(IMax + 1), Text("1.5")},
   INVOICE_EXPIRY_SECS  |-> {Dec(-1), Dec(0), Dec(1), Dec(IMax), Text("5m")},
   L402_ROOT_KEY        |-> {Hex(64, "key"), Hex(62, "key"), Text("key")},
   X402_CLOCK_SKEW_SECS |-> {Dec(-1), Dec(0), Dec(UMax), Dec(UMax + 1)}]

UsualInfo == [network |-> "mainnet", pubkey |-> Pubkey("node")]

Infos == {Absent, [UsualInfo EXCEPT !.network = "signet"],
          [UsualInfo EXCEPT !.network = "regtest"],
          [UsualInfo EXCEPT !.pubkey = Text("no key")]}

Line(ascii, padding, items) == [ascii |-> ascii, padding |-> padding, items |-> items]

\* Absent, empty, one value in two paddings, two values on one line and on
\* two, an empty value beside another, and one that is not ASCII.
HeaderEdits ==
  {<<>>, <<Line(TRUE, "none", <<"">>)>>, <<Line(TRUE, "none", <<"a">>)>>,
   <<Line(TRUE, "tab", <<"a">>)>>, <<Line(TRUE, "none", <<"a", "b">>)>>,
   <<Line(TRUE, "none", <<"a">>), Line(TRUE, "blank", <<"b">>)>>,
   <<Line(TRUE, "none", <<"a">>), Line(TRUE, "none", <<"">>)>>,
   <<Line(FALSE, "none", <<"caf">>)>>}

UsualRequest ==
  [method |-> "GET", target |-> <<"x402">>, body |-> <<>>, bound |-> <<>>,
   headers |-> [name \in {Token(1), Token(3)} |-> <<>>]]

EditsOfRequest ==
  [method |-> {"HEAD"}, target |-> {<<"x402", "?q">>}, body |-> {<<1>>},
   bound  |-> {<<Token(1)>>, <<Token(3)>>, <<Token(1), Token(3)>>}]

\* The list of bound headers is the server's, and changes with its version.
Bind(names) == requests' = [i \in {1, 2} |-> [requests[i] EXCEPT !.bound = names]]

Names == {Token(1), PAYMENT_SIGNATURE, Token(3), Text("Accept"), NonString}

Init ==
  /\ base = <<>>
  /\ env = [name \in DOMAIN EditsOfEnv \cup {"PUBLIC_URL"} |->
              IF name \in {"LND_CERT_PATH", "LND_MACAROON_PATH"}
              THEN Text("path") ELSE Absent]
  /\ public = <<"slashes", 0>>
  /\ info = UsualInfo
  /\ requests = <<UsualRequest, UsualRequest>>
  /\ params = http_params(<<>>)
  /\ edits = 0

Edit == edits < MaxEdits /\ edits' = edits + 1

EditBase ==
  /\ Edit
  /\ base' \in Bases \ {<<>>}
  /\ UNCHANGED <<env, public, info, requests, params>>

EditEnv ==
  /\ Edit
  /\ \E name \in DOMAIN EditsOfEnv : \E value \in EditsOfEnv[name] :
       env' = [env EXCEPT ![name] = value]
  /\ UNCHANGED <<base, public, info, requests, params>>

EditPublicUrl ==
  /\ Edit
  /\ public' \in {<<"unset">>, <<"slashes", 1>>, <<"slashes", 2>>}
                   \cup {<<"bad", text>> : text \in BadUrls}
  /\ UNCHANGED <<base, env, info, requests, params>>

EditNode ==
  /\ Edit
  /\ info' \in Infos
  /\ UNCHANGED <<base, env, public, requests, params>>

EditRequest ==
  /\ Edit
  /\ \/ \E i \in {1, 2} :
          \/ \E f \in DOMAIN EditsOfRequest : \E value \in EditsOfRequest[f] :
               requests' = [requests EXCEPT ![i][f] = value]
          \/ \E name \in {Token(1), Token(3)}, lines \in HeaderEdits :
               requests' = [requests EXCEPT ![i].headers[name] = lines]
     \/ \E names \in EditsOfRequest.bound : Bind(names)
  /\ UNCHANGED <<base, env, public, info, params>>

EditParams ==
  /\ Edit
  /\ \E headers \in UNION {[1 .. n -> Names] : n \in 0 .. 2}, others \in {0, 1} :
       params' \in {<<"object", <<"array", headers>>, others>>,
                    <<"object", Absent, others>>, NonString}
  /\ UNCHANGED <<base, env, public, info, requests>>

Next == EditBase \/ EditEnv \/ EditPublicUrl \/ EditNode \/ EditRequest \/ EditParams

Spec == Init /\ [][Next]_vars

-----------------------------------------------------------------------------
\* Whatever environment and node the server comes up with, the x402 settings it
\* then runs with are in the ranges the rest of the code relies on: the price is
\* the configured one in msat, and InvoiceIssuer::issue's conversions to i64
\* succeed.
StartedConfigsFitX402 ==
  Sells(Env, info) =>
    LET c == X402Of(Env, info)
    IN  /\ c.network \in Network
        /\ c.amount_msat \in 1 .. IMax
        /\ c.amount_msat = 1000 * Amount(Env)[2]
        /\ c.max_timeout_secs \in 1 .. IMax
        /\ c.clock_skew_secs \in U64

\* The hash a request is sold under is the one its client computes from the URL
\* it requested, however many slashes PUBLIC_URL ends with and whatever path the
\* server is mounted at ("it must match what clients use", config.rs:22).
PublicUrlIsTheClients ==
  Sells(Env, info) =>
    LET q == requests[1]
        clientUrl == <<"https", "host">> \o base \o q.target
        Hash(url) == http_request_hash(q.method, url, q.body, BOUND_HEADERS, q.headers)
    IN  Hash(X402Of(Env, info).public_url \o q.target) = Hash(clientUrl)

SameRequest(q, r) ==
  /\ q.method = r.method /\ q.target = r.target /\ q.body = r.body
  /\ q.bound = r.bound
  /\ \A i \in DOMAIN q.bound : ReadsAs(q.headers, q.bound[i]) = ReadsAs(r.headers, q.bound[i])

HashOf(q) == http_request_hash(q.method, q.target, q.body, q.bound, q.headers)

\* A proof paid for one request buys another only if they are the same in all
\* that is bound: an empty header is not an absent one, values may be spread
\* over lines, and headers that are not bound do not count (binding.rs).
HashIdentifiesRequest ==
  LET q == requests[1]
      r == requests[2]
  IN  ~ HasUnsupportedHeader(q.bound, q.headers)
      /\ ~ HasUnsupportedHeader(r.bound, r.headers)
      => (HashOf(q) = HashOf(r) <=> SameRequest(q, r))

\* There is one way to write each set of bound headers, and verify takes no
\* other (is_valid_http_params): no order, repetition, upper-case name or
\* further member gives a second form of the same parameters.
ValidParamsAreCanonical ==
  is_valid_http_params(params) <=>
    params \in {http_params(<<>>), http_params(<<Token(1)>>), http_params(<<Token(3)>>),
               http_params(<<Token(1), Token(3)>>)}

\* Whether a connection to an address reaches a server that listens on another
\* one: an unspecified address stands for all of its own family.
Reaches(addr, listen) ==
  /\ addr.ip # "unspecified"
  /\ addr.family = listen.family /\ addr.port = listen.port
  /\ listen.ip \in {"unspecified", addr.ip}

\* health-check finds the server that was started with the same environment, on
\* whatever address it listens, if LISTEN_ADDR does not leave the port to the
\* system ("It probes `/health` on the port from `LISTEN_ADDR`", README.md:175).
ProbeFindsServer ==
  Starts(Env, info) =>
    LET listen == from_env(Env).listen_addr
    IN  listen.port # 0 => Reaches(probe_addr(listen_addr_from_env(Env)), listen)
=============================================================================
