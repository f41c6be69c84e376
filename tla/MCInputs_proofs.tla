-------------------------- MODULE MCInputs_proofs --------------------------
(***************************************************************************)
(* The properties of MCInputs, for every width of the integers and number  *)
(* of edits: what TLC finds of the world of edited environments, requests  *)
(* and parameters is an instance of what Config_proofs shows of all.       *)
(***************************************************************************)
EXTENDS MCInputs, Config_proofs

-----------------------------------------------------------------------------
(* The inductive invariant: what the edits may leave. *)

ParamsValues ==
  {<<"object", <<"array", headers>>, others>> :
     headers \in UNION {[1 .. n -> Names] : n \in 0 .. 2}, others \in {0, 1}}
  \cup {<<"object", Absent, others>> : others \in {0, 1}} \cup {NonString}

BoundNames == {Token(1), Token(3)}

InputsInv ==
  /\ base \in Bases
  /\ DOMAIN env = DOMAIN EditsOfEnv \cup {"PUBLIC_URL"}
  /\ env.LISTEN_ADDR \in {Absent} \cup EditsOfEnv.LISTEN_ADDR
  /\ public \in {<<"unset">>} \cup {<<"slashes", n>> : n \in 0 .. 2}
                \cup {<<"bad", text>> : text \in BadUrls}
  /\ DOMAIN requests = {1, 2}
  /\ \A i \in {1, 2} : /\ DOMAIN requests[i] = DOMAIN UsualRequest
                       /\ requests[i].bound \in Seq(BoundNames)
  /\ params \in ParamsValues

\* An edit of a request leaves it bound by a list of names.
LEMMA RequestEdits ==
  ASSUME InputsInv, EditRequest
  PROVE  /\ DOMAIN requests' = {1, 2}
         /\ \A i \in {1, 2} : /\ DOMAIN requests'[i] = DOMAIN UsualRequest
                              /\ requests'[i].bound \in Seq(BoundNames)
<1>1. DOMAIN UsualRequest = {"method", "target", "body", "bound", "headers"}
  BY DEF UsualRequest
<1>2. DOMAIN EditsOfRequest = {"method", "target", "body", "bound"}
  BY DEF EditsOfRequest
<1>3. EditsOfRequest.bound \subseteq Seq(BoundNames)
  <2>1. Token(1) \in BoundNames /\ Token(3) \in BoundNames
    BY DEF BoundNames
  <2>2. /\ <<Token(1)>> \in Seq(BoundNames) /\ <<Token(3)>> \in Seq(BoundNames)
        /\ <<Token(1), Token(3)>> \in Seq(BoundNames)
    BY <2>1
  <2> QED BY <2>2 DEF EditsOfRequest
<1>4. ASSUME NEW i \in {1, 2}, NEW f \in DOMAIN EditsOfRequest,
             NEW value \in EditsOfRequest[f], requests' = [requests EXCEPT ![i][f] = value]
      PROVE  /\ DOMAIN requests' = {1, 2}
             /\ \A j \in {1, 2} : /\ DOMAIN requests'[j] = DOMAIN UsualRequest
                                  /\ requests'[j].bound \in Seq(BoundNames)
  <2>1. requests' = [requests EXCEPT ![i] = [requests[i] EXCEPT ![f] = value]]
    BY <1>4
  <2>2. requests'[i] = [requests[i] EXCEPT ![f] = value]
    BY <2>1 DEF InputsInv
  <2>3. \A j \in {1, 2} : j # i => requests'[j] = requests[j]
    BY <2>1 DEF InputsInv
  <2>4. DOMAIN requests'[i] = DOMAIN UsualRequest
    BY <2>2 DEF InputsInv
  <2>5. requests'[i].bound \in Seq(BoundNames)
    <3>1. CASE f = "bound"
      BY <1>1, <1>3, <2>2, <3>1 DEF InputsInv
    <3>2. CASE f # "bound"
      BY <1>1, <2>2, <3>2 DEF InputsInv
    <3> QED BY <3>1, <3>2
  <2> QED BY <2>1, <2>3, <2>4, <2>5 DEF InputsInv
<1>5. ASSUME NEW i \in {1, 2}, NEW name, NEW lines,
             requests' = [requests EXCEPT ![i].headers[name] = lines]
      PROVE  /\ DOMAIN requests' = {1, 2}
             /\ \A j \in {1, 2} : /\ DOMAIN requests'[j] = DOMAIN UsualRequest
                                  /\ requests'[j].bound \in Seq(BoundNames)
  <2> DEFINE headers == [requests[i].headers EXCEPT ![name] = lines]
  <2>1. requests' = [requests EXCEPT ![i] = [requests[i] EXCEPT !.headers = headers]]
    BY <1>5
  <2> HIDE DEF headers
  <2>2. requests'[i] = [requests[i] EXCEPT !.headers = headers]
    BY <2>1 DEF InputsInv
  <2>3. \A j \in {1, 2} : j # i => requests'[j] = requests[j]
    BY <2>1 DEF InputsInv
  <2>4. /\ DOMAIN requests'[i] = DOMAIN UsualRequest
        /\ requests'[i].bound = requests[i].bound
    BY <1>1, <2>2 DEF InputsInv
  <2> QED BY <2>1, <2>3, <2>4 DEF InputsInv
<1>6. ASSUME NEW names \in EditsOfRequest.bound, Bind(names)
      PROVE  /\ DOMAIN requests' = {1, 2}
             /\ \A j \in {1, 2} : /\ DOMAIN requests'[j] = DOMAIN UsualRequest
                                  /\ requests'[j].bound \in Seq(BoundNames)
  <2>1. \A j \in {1, 2} : requests'[j] = [requests[j] EXCEPT !.bound = names]
    BY <1>6 DEF Bind
  <2>2. \A j \in {1, 2} : /\ DOMAIN requests'[j] = DOMAIN UsualRequest
                           /\ requests'[j].bound = names
    BY <1>1, <2>1 DEF InputsInv
  <2>3. DOMAIN requests' = {1, 2}
    BY <1>6 DEF Bind
  <2> QED BY <1>3, <2>2, <2>3
<1>7. \/ \E i \in {1, 2} :
           \/ \E f \in DOMAIN EditsOfRequest : \E value \in EditsOfRequest[f] :
                requests' = [requests EXCEPT ![i][f] = value]
           \/ \E name \in {Token(1), Token(3)}, lines \in HeaderEdits :
                requests' = [requests EXCEPT ![i].headers[name] = lines]
      \/ \E names \in EditsOfRequest.bound : Bind(names)
  BY DEF EditRequest
<1> QED BY <1>4, <1>5, <1>6, <1>7

\* InputsInv is an invariant of the world of edited inputs.
LEMMA InputsAreEdited == Spec => []InputsInv
<1>1. Init => InputsInv
  <2> SUFFICES ASSUME Init PROVE InputsInv
    OBVIOUS
  <2>1. base \in Bases
    BY DEF Init, Bases
  <2>2. /\ DOMAIN env = DOMAIN EditsOfEnv \cup {"PUBLIC_URL"}
        /\ env.LISTEN_ADDR \in {Absent} \cup EditsOfEnv.LISTEN_ADDR
    <3>1. "LISTEN_ADDR" \in DOMAIN EditsOfEnv
      BY DEF EditsOfEnv
    <3>2. env = [name \in DOMAIN EditsOfEnv \cup {"PUBLIC_URL"} |->
                   IF name \in {"LND_CERT_PATH", "LND_MACAROON_PATH"}
                   THEN Text("path") ELSE Absent]
      BY DEF Init
    <3> QED BY <3>1, <3>2
  <2>3. public \in {<<"slashes", n>> : n \in 0 .. 2}
    BY DEF Init
  <2>4. /\ DOMAIN requests = {1, 2}
        /\ \A i \in {1, 2} : /\ DOMAIN requests[i] = DOMAIN UsualRequest
                             /\ requests[i].bound \in Seq(BoundNames)
    <3>1. requests = <<UsualRequest, UsualRequest>>
      BY DEF Init
    <3>2. UsualRequest.bound = <<>> /\ <<>> \in Seq(BoundNames)
      BY DEF UsualRequest
    <3>3. DOMAIN requests = {1, 2} /\ \A i \in {1, 2} : requests[i] = UsualRequest
      <4> HIDE DEF UsualRequest
      <4> QED BY <3>1
    <3> QED BY <3>2, <3>3
  <2>5. params \in ParamsValues
    <3>1. <<>> \in [1 .. 0 -> Names]
      OBVIOUS
    <3>2. <<>> \in UNION {[1 .. n -> Names] : n \in 0 .. 2}
      BY <3>1
    <3>3. params = <<"object", <<"array", <<>>>>, 0>>
      BY DEF Init, http_params
    <3> DEFINE lists == UNION {[1 .. n -> Names] : n \in 0 .. 2}
    <3>4. <<>> \in lists /\ 0 \in {0, 1}
      BY <3>2
    <3> HIDE DEF lists
    <3>5. \E headers \in lists, others \in {0, 1} :
            params = <<"object", <<"array", headers>>, others>>
      BY <3>3, <3>4
    <3>6. params \in {<<"object", <<"array", headers>>, others>> :
                      headers \in lists, others \in {0, 1}}
      BY <3>5
    <3> QED BY <3>6 DEF ParamsValues, lists
  <2> QED BY <2>1, <2>2, <2>3, <2>4, <2>5 DEF InputsInv
<1>2. InputsInv /\ [Next]_vars => InputsInv'
  <2> SUFFICES ASSUME InputsInv, [Next]_vars PROVE InputsInv'
    OBVIOUS
  <2>1. CASE EditBase
    BY <2>1 DEF EditBase, InputsInv
  <2>2. CASE EditEnv
    <3>1. PICK name \in DOMAIN EditsOfEnv : \E value \in EditsOfEnv[name] :
            env' = [env EXCEPT ![name] = value]
      BY <2>2 DEF EditEnv
    <3>2. PICK value \in EditsOfEnv[name] : env' = [env EXCEPT ![name] = value]
      BY <3>1
    <3>3. "LISTEN_ADDR" \in DOMAIN EditsOfEnv
      BY DEF EditsOfEnv
    <3>4. /\ DOMAIN env' = DOMAIN env
          /\ env'.LISTEN_ADDR \in {env.LISTEN_ADDR} \cup EditsOfEnv.LISTEN_ADDR
      BY <3>2, <3>3 DEF InputsInv
    <3> QED BY <2>2, <3>4 DEF EditEnv, InputsInv
  <2>3. CASE EditPublicUrl
    <3>1. public' \in {<<"unset">>} \cup {<<"slashes", n>> : n \in 0 .. 2}
                        \cup {<<"bad", text>> : text \in BadUrls}
      BY <2>3 DEF EditPublicUrl
    <3> QED BY <2>3, <3>1 DEF EditPublicUrl, InputsInv
  <2>4. CASE EditNode
    BY <2>4 DEF EditNode, InputsInv
  <2>5. CASE EditRequest
    BY <2>5, RequestEdits DEF EditRequest, InputsInv
  <2>6. CASE EditParams
    BY <2>6 DEF EditParams, InputsInv, ParamsValues
  <2>7. CASE UNCHANGED vars
    BY <2>7 DEF vars, InputsInv
  <2> QED BY <2>1, <2>2, <2>3, <2>4, <2>5, <2>6, <2>7 DEF Next
<1> QED BY <1>1, <1>2, PTL DEF Spec

-----------------------------------------------------------------------------
(* The properties. *)

\* The settings and the price are in the ranges the rest of the code relies on
\* in every state, which the environments and nodes of this world need not be
\* known for.
THEOREM StartedConfigsFitInWorld == Spec => []StartedConfigsFitX402
<1>1. StartedConfigsFitX402
  BY StartedConfigsFit DEF StartedConfigsFitX402, U64
<1> QED BY <1>1, PTL

\* The two requests have the same hash if and only if they are the same in all
\* that is bound.
THEOREM HashIdentifiesInWorld == Spec => []HashIdentifiesRequest
<1>1. InputsInv => HashIdentifiesRequest
  <2> SUFFICES ASSUME InputsInv PROVE HashIdentifiesRequest
    OBVIOUS
  <2> DEFINE q == requests[1]
             r == requests[2]
  <2>1. q.bound \in Seq(BoundNames) /\ r.bound \in Seq(BoundNames)
    BY DEF InputsInv
  <2> HIDE DEF q, r
  <2>2. HashOf(q) = HashOf(r) <=> SameRequest(q, r)
    BY <2>1, HashIdentifies DEF HashOf, SameRequest
  <2> QED BY <2>2 DEF HashIdentifiesRequest, q, r
<1> QED BY <1>1, InputsAreEdited, PTL

\* None of the malformed URLs is taken.
LEMMA BadUrlsFail ==
  ASSUME NEW value \in BadUrls
  PROVE  ~ PublicUrlOk(value)
<1>1. \A u : Url(u)[1] = "url" /\ Url(u)[2] = u
  BY DEF Url
<1>2. Text(Blank)[1] # "url"
  BY DEF Text
<1>3. Blank \notin {"http", "https"} /\ "ftp" \notin {"http", "https"}
  BY Zenon DEF Blank
<1>4. /\ ~ [UsualUrl EXCEPT !.ascii = FALSE].ascii
      /\ [UsualUrl EXCEPT !.query = TRUE].query
      /\ [UsualUrl EXCEPT !.scheme = "ftp"].scheme = "ftp"
      /\ [UsualUrl EXCEPT !.scheme = Blank].scheme = Blank
      /\ [UsualUrl EXCEPT !.host = Blank].host = Blank
      /\ [UsualUrl EXCEPT !.userinfo = TRUE].userinfo
  BY DEF UsualUrl
<1>5. CASE value = Text(Blank)
  BY <1>2, <1>5 DEF PublicUrlOk
<1>6. ASSUME NEW u, value = Url(u),
             ~ u.ascii \/ u.query \/ u.scheme \notin {"http", "https"}
             \/ u.host = Blank \/ u.userinfo
      PROVE  ~ PublicUrlOk(value)
  BY <1>1, <1>6 DEF PublicUrlOk
<1> QED
  <2> HIDE DEF UsualUrl
  <2>1. CASE value = Url([UsualUrl EXCEPT !.ascii = FALSE])
    BY <1>4, <1>6, <2>1
  <2>2. CASE value = Url([UsualUrl EXCEPT !.query = TRUE])
    BY <1>4, <1>6, <2>2
  <2>3. CASE value = Url([UsualUrl EXCEPT !.scheme = "ftp"])
    BY <1>3, <1>4, <1>6, <2>3
  <2>4. CASE value = Url([UsualUrl EXCEPT !.scheme = Blank])
    BY <1>3, <1>4, <1>6, <2>4
  <2>5. CASE value = Url([UsualUrl EXCEPT !.host = Blank])
    BY <1>4, <1>6, <2>5
  <2>6. CASE value = Url([UsualUrl EXCEPT !.userinfo = TRUE])
    BY <1>4, <1>6, <2>6
  <2> QED BY <1>5, <2>1, <2>2, <2>3, <2>4, <2>5, <2>6 DEF BadUrls

\* The hash a request is sold under is the one its client computes.
THEOREM PublicUrlInWorld == Spec => []PublicUrlIsTheClients
<1>1. InputsInv => PublicUrlIsTheClients
  <2> SUFFICES ASSUME InputsInv, Sells(Env, info)
               PROVE  LET q == requests[1]
                          clientUrl == <<"https", "host">> \o base \o q.target
                          Hash(url) == http_request_hash(q.method, url, q.body,
                                                         BOUND_HEADERS, q.headers)
                      IN  Hash(X402Of(Env, info).public_url \o q.target) = Hash(clientUrl)
    BY DEF PublicUrlIsTheClients
  <2>1. Env.PUBLIC_URL = PublicUrl
    BY DEF InputsInv, Env
  <2>2. Env.PUBLIC_URL # Absent
    BY DEF Sells, Enabled, from_env
  <2>3. PublicUrlOk(Env.PUBLIC_URL)
    BY <2>2 DEF Sells, Starts, FromEnvOk
  <2>4. PICK n \in 0 .. 2 : public = <<"slashes", n>>
    <3>1. public # <<"unset">>
      BY <2>1, <2>2 DEF PublicUrl
    <3>2. ASSUME NEW text \in BadUrls PROVE public # <<"bad", text>>
      BY <2>1, <2>3, <3>2, BadUrlsFail DEF PublicUrl
    <3> QED BY <3>1, <3>2 DEF InputsInv
  <2> DEFINE slashes == [i \in 1 .. n |-> Blank]
             path    == base \o slashes
             u       == [UsualUrl EXCEPT !.path = path]
  <2>5. Env.PUBLIC_URL = Url(u)
    BY <2>1, <2>4 DEF PublicUrl
  <2>6. u.path = path /\ u.scheme = "https" /\ u.host = "host"
    <3> HIDE DEF path
    <3> QED BY DEF UsualUrl
  <2>7. base \in Seq({Blank, "prefix"}) /\ (base # <<>> => base[Len(base)] # Blank)
    <3>1. Blank # "prefix"
      BY Zenon DEF Blank
    <3>2. base \in Bases
      BY DEF InputsInv
    <3>3. CASE base = <<>>
      BY <3>3
    <3>4. CASE base = <<"prefix">>
      <4>1. base \in Seq({Blank, "prefix"}) /\ Len(base) = 1 /\ base[1] = "prefix"
        BY <3>4
      <4> QED BY <3>1, <4>1
    <3>5. CASE base = <<Blank, "prefix">>
      <4>1. base \in Seq({Blank, "prefix"}) /\ Len(base) = 2 /\ base[2] = "prefix"
        BY <3>5
      <4> QED BY <3>1, <4>1
    <3> QED BY <3>2, <3>3, <3>4, <3>5 DEF Bases
  <2>8. /\ slashes \in Seq({Blank, "prefix"})
        /\ \A i \in 1 .. Len(slashes) : slashes[i] = Blank
    OBVIOUS
  <2> HIDE DEF slashes, path, u
  <2>9. X402Of(Env, info).public_url = <<u.scheme, u.host>> \o base
    BY <2>5, <2>6, <2>7, <2>8, PublicUrlIsTrimmed DEF path
  <2> QED BY <2>6, <2>9
<1> QED BY <1>1, InputsAreEdited, PTL

\* The valid parameters are the one form of each set of names.
THEOREM ParamsCanonicalInWorld == Spec => []ValidParamsAreCanonical
<1>1. InputsInv => ValidParamsAreCanonical
  <2> SUFFICES ASSUME InputsInv PROVE ValidParamsAreCanonical
    OBVIOUS
  <2> DEFINE forms == {http_params(<<>>), http_params(<<Token(1)>>),
                       http_params(<<Token(3)>>), http_params(<<Token(1), Token(3)>>)}
  <2>1. ASSUME is_valid_http_params(params) PROVE params \in forms
    <3>1. Len(params) = 3 /\ Len(params[2]) = 2
      BY <2>1 DEF is_valid_http_params
    <3>2. params # NonString
      BY <3>1 DEF NonString
    <3>3. \A others : params # <<"object", Absent, others>>
      BY <3>1 DEF Absent
    <3>4. PICK n \in 0 .. 2 : \E headers \in [1 .. n -> Names], others \in {0, 1} :
                                params = <<"object", <<"array", headers>>, others>>
      BY <3>2, <3>3 DEF InputsInv, ParamsValues
    <3>5. PICK headers \in [1 .. n -> Names], others \in {0, 1} :
            params = <<"object", <<"array", headers>>, others>>
      BY <3>4
    <3>6. params[2][2] = headers /\ params[3] = others
      BY <3>5
    <3>7. /\ others = 0
          /\ \A i \in 1 .. n : is_lowercase_token(headers[i]) /\ headers[i] # PAYMENT_SIGNATURE
          /\ \A i \in 2 .. Len(headers) : headers[i - 1][2] < headers[i][2]
      BY <2>1, <3>6 DEF is_valid_http_params
    <3>8. \A i \in 1 .. n : headers[i] \in {Token(1), Token(3)}
      <4>1. \A name \in Names : is_lowercase_token(name) /\ name # PAYMENT_SIGNATURE
                                => name \in {Token(1), Token(3)}
        BY DEF Names, is_lowercase_token, Text, NonString
      <4> QED BY <3>7, <4>1
    <3>9. params = http_params(headers)
      BY <3>5, <3>7 DEF http_params
    <3>10. CASE n = 0
      <4>1. headers = <<>>
        BY <3>10
      <4> QED BY <3>9, <4>1
    <3>11. CASE n = 1
      <4>1. headers = <<headers[1]>> /\ headers[1] \in {Token(1), Token(3)}
        BY <3>8, <3>11
      <4> QED BY <3>9, <4>1
    <3>12. CASE n = 2
      <4>1. headers = <<headers[1], headers[2]>>
        BY <3>12
      <4>2. headers[1] \in {Token(1), Token(3)} /\ headers[2] \in {Token(1), Token(3)}
        BY <3>8, <3>12
      <4>3. headers[1][2] < headers[2][2]
        <5>1. Len(headers) = 2 /\ 2 \in 2 .. Len(headers) /\ 2 - 1 = 1
          BY <3>12
        <5> QED BY <3>7, <5>1
      <4>4. Token(1)[2] = 1 /\ Token(3)[2] = 3
        BY DEF Token
      <4>5. headers[1] = Token(1) /\ headers[2] = Token(3)
        BY <4>2, <4>3, <4>4
      <4> QED BY <3>9, <4>1, <4>5
    <3> QED BY <3>10, <3>11, <3>12
  <2>2. ASSUME params \in forms PROVE is_valid_http_params(params)
    <3>1. ASSUME NEW headers \in {<<>>, <<Token(1)>>, <<Token(3)>>, <<Token(1), Token(3)>>}
          PROVE  is_valid_http_params(http_params(headers))
      <4>1. \A i \in DOMAIN headers : headers[i] \in {Token(1), Token(3)}
        BY <3>1
      <4>2. \A i \in DOMAIN headers : /\ is_lowercase_token(headers[i])
                                      /\ headers[i] # PAYMENT_SIGNATURE
        BY <4>1 DEF is_lowercase_token, Token, PAYMENT_SIGNATURE
      <4>3. \A i \in 2 .. Len(headers) : headers[i - 1][2] < headers[i][2]
        BY <3>1 DEF Token
      <4> DEFINE p == http_params(headers)
      <4>4. /\ Len(p) = 3 /\ p[1] = "object" /\ Len(p[2]) = 2 /\ p[2][1] = "array"
            /\ p[3] = 0 /\ p[2][2] = headers
        BY DEF http_params
      <4> HIDE DEF p
      <4>5. is_valid_http_params(p)
        BY <4>2, <4>3, <4>4 DEF is_valid_http_params
      <4> QED BY <4>5 DEF p
    <3> QED BY <2>2, <3>1
  <2> QED BY <2>1, <2>2 DEF ValidParamsAreCanonical
<1> QED BY <1>1, InputsAreEdited, PTL

\* health-check connects to an address that reaches the server.
THEOREM ProbeFindsServerInWorld == Spec => []ProbeFindsServer
<1>1. InputsInv => ProbeFindsServer
  <2> SUFFICES ASSUME InputsInv, Starts(Env, info), from_env(Env).listen_addr.port # 0
               PROVE  Reaches(probe_addr(listen_addr_from_env(Env)),
                              from_env(Env).listen_addr)
    BY DEF ProbeFindsServer
  <2> DEFINE listen == from_env(Env).listen_addr
             value  == VarOr(Env.LISTEN_ADDR, DEFAULT_LISTEN_ADDR)
  <2>1. listen = listen_addr_from_env(Env) /\ listen = value[2]
    BY DEF from_env, listen_addr_from_env
  <2>2. value[1] = "socket"
    BY DEF Starts, FromEnvOk
  <2>3. Env.LISTEN_ADDR = env.LISTEN_ADDR
    BY DEF Env, InputsInv, EditsOfEnv
  <2>4. \E family, ip, port : value = Socket(family, ip, port)
    <3> DEFINE IsSocket(v) == \E family, ip, port : v = Socket(family, ip, port)
    <3>1. \A family, ip, port : IsSocket(Socket(family, ip, port))
      OBVIOUS
    <3> HIDE DEF IsSocket
    <3>2. \A v \in EditsOfEnv.LISTEN_ADDR : v = Text("localhost:3402") \/ IsSocket(v)
      <4>1. EditsOfEnv.LISTEN_ADDR =
              {Text("localhost:3402"), Socket(4, "loopback", 8080),
               Socket(4, "other", 3402), Socket(6, "unspecified", 3402),
               Socket(6, "other", 8080), Socket(4, "unspecified", 0)}
        BY DEF EditsOfEnv
      <4> QED BY <3>1, <4>1
    <3>3. value \in {DEFAULT_LISTEN_ADDR} \cup EditsOfEnv.LISTEN_ADDR
      BY <2>3 DEF InputsInv, VarOr
    <3>4. value # Text("localhost:3402")
      <4>1. Text("localhost:3402")[1] # "socket"
        BY Zenon DEF Text
      <4> HIDE DEF value
      <4> QED BY <2>2, <4>1
    <3>5. IsSocket(DEFAULT_LISTEN_ADDR)
      BY <3>1 DEF DEFAULT_LISTEN_ADDR
    <3> HIDE DEF value
    <3>6. IsSocket(value)
      BY <3>2, <3>3, <3>4, <3>5
    <3> QED BY <3>6 DEF IsSocket
  <2>5. PICK family, ip, port : listen = [family |-> family, ip |-> ip, port |-> port]
    <3>1. \A f, i, p : Socket(f, i, p)[2] = [family |-> f, ip |-> i, port |-> p]
      BY DEF Socket
    <3> HIDE DEF listen, value
    <3>2. PICK f, i, p : value = Socket(f, i, p)
      BY <2>4
    <3>3. listen = [family |-> f, ip |-> i, port |-> p]
      BY <2>1, <3>1, <3>2
    <3> QED BY <3>3
  <2> HIDE DEF listen
  <2>6. Reaches(probe_addr(listen), listen)
    BY <2>5 DEF Reaches, probe_addr
  <2> QED BY <2>1, <2>6 DEF listen
<1> QED BY <1>1, InputsAreEdited, PTL
=============================================================================
