---------------------------- MODULE Config_proofs ----------------------------
(***************************************************************************)
(* What the rest of the model takes for granted about its inputs: the      *)
(* ranges of the settings, which are X402's assumption on Configs, and     *)
(* that a request's hash identifies the request.                           *)
(***************************************************************************)
EXTENDS Config, Lnbtc_proofs

\* Every configuration that from_env and from_app let through satisfies what
\* X402Assumption asks of Configs, at the configured price in msat, for every
\* environment, node and width of the integers.
THEOREM StartedConfigsFit ==
  ASSUME NEW env, NEW info, Sells(env, info)
  PROVE  LET c == X402Of(env, info)
         IN  /\ c.network \in Network
             /\ c.amount_msat \in 1 .. IMax
             /\ c.amount_msat = 1000 * Amount(env)[2]
             /\ c.max_timeout_secs \in 1 .. IMax
             /\ c.clock_skew_secs \in 0 .. UMax
<1> DEFINE config == from_env(env)
           sats   == Amount(env)[2]
           expiry == Expiry(env)[2]
           skew   == Skew(env)[2]
<1>1. config.x402 # <<>> /\ info.network \in Network
  BY DEF Sells, Enabled
<1>2. /\ amount_msat(config) # <<>> /\ amount_msat(config)[1] > 0
      /\ config.invoice_expiry_secs > 0
  BY <1>1 DEF Sells, Starts, FromAppOk
<1>3. /\ config.invoice_amount_sats = sats
      /\ config.invoice_expiry_secs = expiry
  BY DEF from_env
<1>4. env.PUBLIC_URL # Absent /\ config.x402[1].clock_skew_secs = skew
  <2>1. env.PUBLIC_URL # Absent
    BY <1>1 DEF from_env
  <2> QED BY <2>1 DEF from_env
<1>5. sats \in I64 /\ expiry \in I64 /\ skew \in U64
  BY <1>4 DEF Sells, Starts, FromEnvOk, Parses
<1>6. X402Of(env, info) = from_app(config, info)
  BY DEF X402Of
<1> HIDE DEF config, sats, expiry, skew
<1>7. sats \in Int /\ IMax \in Nat /\ IMax <= UMax
  BY <1>5, ConfigAssumption DEF I64
<1>8. sats * 1000 \in I64 /\ amount_msat(config) = <<sats * 1000>>
  BY <1>2, <1>3 DEF amount_msat, checked_mul
<1>9. sats * 1000 \in 1 .. IMax
  BY <1>2, <1>7, <1>8 DEF I64
<1>10. expiry \in 1 .. IMax
  BY <1>2, <1>3, <1>5, <1>7 DEF I64
<1>11. sats * 1000 = 1000 * sats
  BY <1>7
<1>12. from_app(config, info).amount_msat = sats * 1000
  BY <1>8 DEF from_app
<1>13. /\ from_app(config, info).network = info.network
       /\ from_app(config, info).max_timeout_secs = expiry
       /\ from_app(config, info).clock_skew_secs = skew
  BY <1>3, <1>4 DEF from_app
<1> QED
  BY <1>1, <1>5, <1>6, <1>9, <1>10, <1>11, <1>12, <1>13 DEF U64, sats

\* Equal digests are of equal texts.
LEMMA Sha256Injective ==
  ASSUME NEW x, NEW y, Sha256(x) = Sha256(y)
  PROVE  x = y
  BY DEF Sha256

\* An absent header and a present one, empty or not, have different digests.
LEMMA AbsentHeaderDiffers ==
  ASSUME NEW a, NEW b, NEW name,
         header_value_hash(a, name) = header_value_hash(b, name)
  PROVE  FieldLines(a, name) = <<>> <=> FieldLines(b, name) = <<>>
<1>1. \A v : <<0>> # <<1, v>>
  OBVIOUS
<1> QED
  BY <1>1, Sha256Injective DEF header_value_hash

\* A proof paid for one request cannot buy another: equal hashes are of the same
\* method, URL and body, bound by the same headers, each of which both requests
\* have or both lack, with the same digest.
THEOREM HashBindsRequest ==
  ASSUME NEW Names,
         NEW m1, NEW u1, NEW b1, NEW n1 \in Seq(Names), NEW h1,
         NEW m2, NEW u2, NEW b2, NEW n2 \in Seq(Names), NEW h2,
         http_request_hash(m1, u1, b1, n1, h1)
           = http_request_hash(m2, u2, b2, n2, h2)
  PROVE  /\ m1 = m2 /\ u1 = u2 /\ b1 = b2 /\ n1 = n2
         /\ \A i \in DOMAIN n1 :
              /\ header_value_hash(h1, n1[i]) = header_value_hash(h2, n1[i])
              /\ FieldLines(h1, n1[i]) = <<>> <=> FieldLines(h2, n1[i]) = <<>>
<1> DEFINE Bound(n, h) == [i \in DOMAIN n |->
                             [name      |-> n[i],
                              valueHash |-> header_value_hash(h, n[i])]]
           Described(m, u, b, n, h) ==
             [domain   |-> <<"x402:exact:lnbtc:bolt11:", HTTP_PROFILE>>,
              method   |-> m,
              url      |-> u,
              bodyHash |-> Sha256(b),
              headers  |-> Bound(n, h)]
<1>1. Described(m1, u1, b1, n1, h1) = Described(m2, u2, b2, n2, h2)
  BY Sha256Injective DEF http_request_hash
<1>2. m1 = m2 /\ u1 = u2 /\ Sha256(b1) = Sha256(b2) /\ Bound(n1, h1) = Bound(n2, h2)
  <2> HIDE DEF Bound
  <2> QED BY <1>1
<1>3. DOMAIN n1 = DOMAIN n2
  BY <1>2
<1>4. \A i \in DOMAIN n1 :
        /\ n1[i] = n2[i]
        /\ header_value_hash(h1, n1[i]) = header_value_hash(h2, n2[i])
  <2> TAKE i \in DOMAIN n1
  <2>1. Bound(n1, h1)[i] = Bound(n2, h2)[i]
    BY <1>2
  <2>2. [name |-> n1[i], valueHash |-> header_value_hash(h1, n1[i])]
          = [name |-> n2[i], valueHash |-> header_value_hash(h2, n2[i])]
    BY <1>3, <2>1
  <2> QED BY <2>2
<1>5. n1 = n2
  BY <1>3, <1>4
<1>6. b1 = b2
  BY <1>2, Sha256Injective
<1> QED
  BY <1>2, <1>4, <1>5, <1>6, AbsentHeaderDiffers

\* The hash identifies the request: it is the same for two requests if and only
\* if they are the same in method, URL and body, bound by the same headers, and
\* read alike in each of these.
THEOREM HashIdentifies ==
  ASSUME NEW Names,
         NEW m1, NEW u1, NEW b1, NEW n1 \in Seq(Names), NEW h1,
         NEW m2, NEW u2, NEW b2, NEW n2 \in Seq(Names), NEW h2
  PROVE  http_request_hash(m1, u1, b1, n1, h1)
           = http_request_hash(m2, u2, b2, n2, h2)
         <=> /\ m1 = m2 /\ u1 = u2 /\ b1 = b2 /\ n1 = n2
             /\ \A i \in DOMAIN n1 : ReadsAs(h1, n1[i]) = ReadsAs(h2, n1[i])
<1>1. ASSUME NEW name
      PROVE  header_value_hash(h1, name) = header_value_hash(h2, name)
               <=> ReadsAs(h1, name) = ReadsAs(h2, name)
  <2> DEFINE a == FieldLines(h1, name)
             b == FieldLines(h2, name)
             Values(lines) == FlattenSeq([i \in DOMAIN lines |-> lines[i].items])
  <2>1. /\ header_value_hash(h1, name)
             = IF a = <<>> THEN Sha256(<<0>>) ELSE Sha256(<<1, Values(a)>>)
        /\ header_value_hash(h2, name)
             = IF b = <<>> THEN Sha256(<<0>>) ELSE Sha256(<<1, Values(b)>>)
    <3>1. \A line : Holds(trim_matches(line)) = line.items
      BY DEF Holds, trim_matches
    <3>2. \A lines : /\ DOMAIN Trimmed(lines) = DOMAIN lines
                     /\ \A i \in DOMAIN lines : Trimmed(lines)[i] = trim_matches(lines[i])
      BY DEF Trimmed
    <3>3. \A lines : [i \in DOMAIN Trimmed(lines) |-> Holds(Trimmed(lines)[i])]
                       = [i \in DOMAIN lines |-> lines[i].items]
      BY <3>1, <3>2
    <3>4. \A lines : Joined(Trimmed(lines)) = Values(lines)
      BY <3>3 DEF Joined
    <3> QED BY <3>4 DEF header_value_hash
  <2>2. /\ ReadsAs(h1, name) = <<a # <<>>, Values(a)>>
        /\ ReadsAs(h2, name) = <<b # <<>>, Values(b)>>
    BY DEF ReadsAs
  <2> HIDE DEF a, b, Values
  <2>3. /\ Sha256(<<0>>) # Sha256(<<1, Values(a)>>)
        /\ Sha256(<<0>>) # Sha256(<<1, Values(b)>>)
        /\ Sha256(<<1, Values(a)>>) = Sha256(<<1, Values(b)>>) <=> Values(a) = Values(b)
    BY DEF Sha256
  <2>4. ReadsAs(h1, name) = ReadsAs(h2, name)
          <=> (a # <<>> <=> b # <<>>) /\ Values(a) = Values(b)
    BY <2>2
  <2>5. CASE a = <<>> /\ b = <<>>
    BY <2>1, <2>2, <2>5
  <2>6. CASE a # <<>> /\ b # <<>>
    BY <2>1, <2>3, <2>4, <2>6
  <2>7. CASE (a = <<>>) # (b = <<>>)
    BY <2>1, <2>3, <2>4, <2>7
  <2> QED BY <2>5, <2>6, <2>7
<1>2. ASSUME http_request_hash(m1, u1, b1, n1, h1) = http_request_hash(m2, u2, b2, n2, h2)
      PROVE  /\ m1 = m2 /\ u1 = u2 /\ b1 = b2 /\ n1 = n2
             /\ \A i \in DOMAIN n1 : ReadsAs(h1, n1[i]) = ReadsAs(h2, n1[i])
  BY <1>1, <1>2, HashBindsRequest
<1>3. ASSUME m1 = m2, u1 = u2, b1 = b2, n1 = n2,
             \A i \in DOMAIN n1 : ReadsAs(h1, n1[i]) = ReadsAs(h2, n1[i])
      PROVE  http_request_hash(m1, u1, b1, n1, h1) = http_request_hash(m2, u2, b2, n2, h2)
  <2>1. [i \in DOMAIN n1 |-> [name |-> n1[i], valueHash |-> header_value_hash(h1, n1[i])]]
          = [i \in DOMAIN n2 |-> [name |-> n2[i], valueHash |-> header_value_hash(h2, n2[i])]]
    BY <1>1, <1>3
  <2> QED BY <1>3, <2>1 DEF http_request_hash
<1> QED BY <1>2, <1>3

-----------------------------------------------------------------------------
(* The public URL. *)

\* However many slashes follow a path that does not end with one, trimming
\* leaves the path.
LEMMA TrimDropsSlashes ==
  ASSUME NEW S, NEW base \in Seq(S), NEW slashes \in Seq(S),
         base # <<>> => base[Len(base)] # Blank,
         \A i \in 1 .. Len(slashes) : slashes[i] = Blank
  PROVE  trim_end_matches(base \o slashes) = base
<1> DEFINE path == base \o slashes
           k    == Len(base)
           I    == {i \in 1 .. Len(path) : path[i] # Blank}
<1>1. /\ path \in Seq(S) /\ Len(path) = k + Len(slashes)
      /\ k \in Nat /\ Len(slashes) \in Nat /\ DOMAIN base = 1 .. k
  BY LenProperties, ConcatProperties
<1>2. \A i \in 1 .. k : path[i] = base[i]
  BY <1>1, ConcatProperties
<1>3. ASSUME NEW i \in k + 1 .. Len(path)
      PROVE  path[i] = Blank
  <2>1. i \in 1 .. k + Len(slashes) /\ ~ (i <= k) /\ i - k \in 1 .. Len(slashes)
    BY <1>1
  <2>2. path[i] = slashes[i - k]
    BY <1>1, <2>1, ConcatProperties
  <2> QED BY <2>1, <2>2
<1>4. k > 0 => path[k] # Blank
  <2>1. k > 0 => base # <<>>
    BY EmptySeq
  <2> QED BY <1>1, <1>2, <2>1
<1>5. SubSeq(path, 1, k) = base
  BY <1>1
<1>6. I \subseteq 1 .. k /\ (k > 0 => k \in I)
  <2> HIDE DEF path, k
  <2> QED BY <1>1, <1>3, <1>4
<1> HIDE DEF path, k, I
<1>7. ASSUME k > 0
      PROVE  Max(I) = k
  <2>1. k \in I /\ \A i \in I : k >= i
    BY <1>1, <1>6, <1>7
  <2>2. Max(I) \in I /\ \A i \in I : Max(I) >= i
    BY <2>1 DEF Max
  <2>3. Max(I) >= k /\ k >= Max(I) /\ Max(I) \in 1 .. k
    BY <1>6, <2>1, <2>2
  <2> QED BY <1>1, <2>3
<1>8. (IF I # {} THEN Max(I) ELSE 0) = k
  <2>1. CASE k = 0
    <3>1. 1 .. 0 = {}
      OBVIOUS
    <3>2. I = {}
      BY <1>6, <2>1, <3>1
    <3> QED BY <2>1, <3>2
  <2>2. CASE k > 0
    BY <1>6, <1>7, <2>2
  <2> QED BY <1>1, <2>1, <2>2
<1>9. trim_end_matches(path) = SubSeq(path, 1, IF I # {} THEN Max(I) ELSE 0)
  BY DEF trim_end_matches, SelectLastInSeq, I
<1> QED BY <1>5, <1>8, <1>9 DEF path

\* The public URL that the server then works with is the one without the slashes
\* at its end, whatever else is in the environment.
THEOREM PublicUrlIsTrimmed ==
  ASSUME NEW env, NEW info, Sells(env, info),
         NEW u, env.PUBLIC_URL = Url(u),
         NEW S, NEW base \in Seq(S), NEW slashes \in Seq(S),
         u.path = base \o slashes,
         base # <<>> => base[Len(base)] # Blank,
         \A i \in 1 .. Len(slashes) : slashes[i] = Blank
  PROVE  X402Of(env, info).public_url = <<u.scheme, u.host>> \o base
<1>1. X402Of(env, info).public_url = from_env(env).x402[1].public_url
  BY DEF X402Of, from_app
<1>2. Url(u) # Absent
  BY DEF Sells, Enabled, from_env
<1>3. from_env(env).x402[1].public_url = parse_public_url(Url(u))
  BY <1>2 DEF from_env
<1>4. parse_public_url(Url(u)) = <<u.scheme, u.host>> \o trim_end_matches(u.path)
  BY DEF parse_public_url, Url
<1>5. trim_end_matches(base \o slashes) = base
  BY TrimDropsSlashes
<1> QED BY <1>1, <1>3, <1>4, <1>5

-----------------------------------------------------------------------------
(* The parameters of the binding. *)

\* Header names as a client may write them: RFC 9110 tokens and other texts.
HeaderNames(V) == {Token(rank) : rank \in Nat} \cup {NonString}
                  \cup {Text(v) : v \in V}

Increasing(s) == \A i, j \in DOMAIN s : i < j => s[i] < s[j]

\* A sequence in which each element is smaller than the next increases.
LEMMA StepsIncrease ==
  ASSUME NEW s \in Seq(Nat), \A i \in 2 .. Len(s) : s[i - 1] < s[i]
  PROVE  Increasing(s)
<1>0. Len(s) \in Nat /\ DOMAIN s = 1 .. Len(s) /\ \A i \in 1 .. Len(s) : s[i] \in Nat
  BY LenProperties, ElementOfSeq
<1> SUFFICES ASSUME NEW i \in 1 .. Len(s), NEW j \in 1 .. Len(s), i < j, ~ (s[i] < s[j])
             PROVE  FALSE
  BY <1>0 DEF Increasing
<1> DEFINE F == {k \in i + 1 .. Len(s) : ~ (s[i] < s[k])}
<1>1. F \in SUBSET Nat /\ F # {}
  <2>1. j \in i + 1 .. Len(s)
    BY <1>0
  <2>2. i + 1 .. Len(s) \subseteq Nat
    BY <1>0
  <2> QED BY <2>1, <2>2
<1>2. PICK k \in F : \A l \in F : k <= l
  <2> HIDE DEF F
  <2> QED BY <1>1, LeastOf
<1>3. k \in i + 1 .. Len(s) /\ ~ (s[i] < s[k]) /\ k - 1 \in 1 .. Len(s) /\ k \in 2 .. Len(s)
  BY <1>0
<1>4. s[k - 1] < s[k] /\ s[k] \in Nat /\ s[k - 1] \in Nat /\ s[i] \in Nat
  BY <1>0, <1>3
<1>5. k - 1 # i
  BY <1>3, <1>4
<1>6. k - 1 \in i + 1 .. Len(s) /\ k - 1 \notin F
  <2> HIDE DEF F
  <2>1. k - 1 \in i + 1 .. Len(s)
    BY <1>0, <1>3, <1>5
  <2>2. ~ (k <= k - 1)
    BY <1>3
  <2> QED BY <1>2, <2>1, <2>2
<1>7. s[i] < s[k - 1]
  BY <1>6
<1> QED BY <1>3, <1>4, <1>7

\* Of two increasing sequences with the same elements, one continues the other.
LEMMA SameElementsSamePlaces ==
  ASSUME NEW a \in Seq(Nat), NEW b \in Seq(Nat), Increasing(a), Increasing(b),
         \A i \in DOMAIN a : \E j \in DOMAIN b : a[i] = b[j],
         \A j \in DOMAIN b : \E i \in DOMAIN a : a[i] = b[j]
  PROVE  \A i \in DOMAIN a : i \in DOMAIN b /\ a[i] = b[i]
<1>0. /\ Len(a) \in Nat /\ DOMAIN a = 1 .. Len(a) /\ \A i \in 1 .. Len(a) : a[i] \in Nat
      /\ Len(b) \in Nat /\ DOMAIN b = 1 .. Len(b) /\ \A i \in 1 .. Len(b) : b[i] \in Nat
  BY LenProperties, ElementOfSeq
<1> DEFINE F == {i \in 1 .. Len(a) : ~ (i <= Len(b) /\ a[i] = b[i])}
<1> SUFFICES ASSUME F # {} PROVE FALSE
  BY <1>0
<1>1. PICK i \in F : \A l \in F : i <= l
  <2>1. F \in SUBSET Nat
    BY <1>0
  <2> HIDE DEF F
  <2> QED BY <2>1, LeastOf
<1>2. i \in 1 .. Len(a) /\ ~ (i <= Len(b) /\ a[i] = b[i])
  OBVIOUS
<1>3. \A l \in 1 .. Len(a) : l < i => l <= Len(b) /\ a[l] = b[l]
  <2> SUFFICES ASSUME NEW l \in 1 .. Len(a), l < i, l \notin F
               PROVE  l <= Len(b) /\ a[l] = b[l]
    BY <1>0, <1>1, <1>2
  <2> QED OBVIOUS
<1> HIDE DEF F
<1>4. PICK k \in 1 .. Len(b) : a[i] = b[k]
  BY <1>0, <1>2
<1>5. ~ (k < i)
  <2> SUFFICES ASSUME k < i PROVE FALSE
    OBVIOUS
  <2>1. k \in 1 .. Len(a)
    BY <1>0, <1>2
  <2>2. a[k] = a[i] /\ a[k] < a[i]
    BY <1>0, <1>2, <1>3, <1>4, <2>1 DEF Increasing
  <2> QED BY <1>0, <1>2, <2>1, <2>2
<1>6. i \in 1 .. Len(b) /\ i < k /\ b[i] < b[k]
  <2>1. i \in 1 .. Len(b) /\ i # k
    BY <1>0, <1>2, <1>4, <1>5
  <2>2. i < k
    BY <1>0, <1>5, <2>1
  <2> QED BY <1>0, <2>1, <2>2 DEF Increasing
<1>7. PICK m \in 1 .. Len(a) : a[m] = b[i]
  BY <1>0, <1>6
<1>8. m < i
  <2>1. a[m] < a[i]
    BY <1>4, <1>6, <1>7
  <2>2. a[m] \in Nat /\ a[i] \in Nat /\ m \in Nat /\ i \in Nat
    BY <1>0, <1>2
  <2>3. i < m => a[i] < a[m]
    BY <1>0, <1>2 DEF Increasing
  <2> QED BY <2>1, <2>2, <2>3
<1>9. m \in 1 .. Len(b) /\ b[m] = b[i]
  BY <1>0, <1>3, <1>7, <1>8
<1>10. b[m] < b[i]
  BY <1>0, <1>6, <1>8, <1>9 DEF Increasing
<1>11. b[i] \in Nat
  BY <1>0, <1>6
<1> QED BY <1>9, <1>10, <1>11

\* There is one way to write each set of bound headers: two valid parameter
\* objects that name the same headers are the same, however many they name.
THEOREM ValidParamsAreUnique ==
  ASSUME NEW V, NEW a \in Seq(HeaderNames(V)), NEW b \in Seq(HeaderNames(V)),
         NEW m, NEW n, is_valid_http_params(<<"object", <<"array", a>>, m>>),
         is_valid_http_params(<<"object", <<"array", b>>, n>>),
         {a[i] : i \in DOMAIN a} = {b[i] : i \in DOMAIN b}
  PROVE  a = b /\ m = 0 /\ n = 0
<1> DEFINE Ranks(s) == [i \in 1 .. Len(s) |-> s[i][2]]
<1>1. ASSUME NEW s \in Seq(HeaderNames(V)), NEW k,
             is_valid_http_params(<<"object", <<"array", s>>, k>>)
      PROVE  /\ k = 0 /\ Len(s) \in Nat /\ DOMAIN s = 1 .. Len(s)
             /\ Ranks(s) \in Seq(Nat) /\ Len(Ranks(s)) = Len(s)
             /\ \A i \in 1 .. Len(s) : s[i] = Token(Ranks(s)[i])
             /\ Increasing(Ranks(s))
  <2>0. Len(s) \in Nat /\ DOMAIN s = 1 .. Len(s)
    BY LenProperties
  <2>1. /\ k = 0
        /\ \A i \in DOMAIN s : is_lowercase_token(s[i]) /\ s[i] # PAYMENT_SIGNATURE
        /\ \A i \in 2 .. Len(s) : s[i - 1][2] < s[i][2]
    <3> DEFINE params == <<"object", <<"array", s>>, k>>
    <3>1. params[3] = k /\ params[2][2] = s
      OBVIOUS
    <3>2. is_valid_http_params(params)
      BY <1>1
    <3> HIDE DEF params
    <3> QED BY <3>1, <3>2 DEF is_valid_http_params
  <2>2. ASSUME NEW i \in 1 .. Len(s)
        PROVE  s[i][2] \in Nat /\ s[i] = Token(s[i][2])
    <3>1. s[i] \in HeaderNames(V) /\ is_lowercase_token(s[i])
      BY <2>0, <2>1, ElementOfSeq
    <3>2. PICK rank \in Nat : s[i] = Token(rank)
      BY <3>1 DEF HeaderNames, is_lowercase_token, NonString, Text
    <3> QED BY <3>2 DEF Token
  <2>3. Ranks(s) \in [1 .. Len(s) -> Nat]
    BY <2>2
  <2>4. Ranks(s) \in Seq(Nat) /\ Len(Ranks(s)) = Len(s)
    BY <2>0, <2>3
  <2>5. \A i \in 2 .. Len(s) : i - 1 \in 1 .. Len(s) /\ i \in 1 .. Len(s)
    BY <2>0
  <2>6. \A i \in 2 .. Len(s) : Ranks(s)[i - 1] < Ranks(s)[i]
    BY <2>1, <2>5
  <2>7. Increasing(Ranks(s))
    <3> HIDE DEF Ranks
    <3> QED BY <2>4, <2>6, StepsIncrease
  <2> QED BY <2>0, <2>1, <2>2, <2>4, <2>7
<1> DEFINE p == Ranks(a)
           q == Ranks(b)
<1>2. /\ m = 0 /\ Len(a) \in Nat /\ DOMAIN a = 1 .. Len(a)
      /\ p \in Seq(Nat) /\ Len(p) = Len(a) /\ Increasing(p)
      /\ \A i \in 1 .. Len(a) : a[i] = Token(p[i])
  <2> HIDE DEF Ranks
  <2> QED BY <1>1
<1>3. /\ n = 0 /\ Len(b) \in Nat /\ DOMAIN b = 1 .. Len(b)
      /\ q \in Seq(Nat) /\ Len(q) = Len(b) /\ Increasing(q)
      /\ \A i \in 1 .. Len(b) : b[i] = Token(q[i])
  <2> HIDE DEF Ranks
  <2> QED BY <1>1
<1> HIDE DEF p, q
<1>4. \A x, y : Token(x) = Token(y) => x = y
  BY DEF Token
<1>5. DOMAIN p = 1 .. Len(a) /\ DOMAIN q = 1 .. Len(b)
  BY <1>2, <1>3, LenProperties
<1>6. /\ \A i \in DOMAIN p : \E j \in DOMAIN q : p[i] = q[j]
      /\ \A j \in DOMAIN q : \E i \in DOMAIN p : p[i] = q[j]
  <2>1. \A i \in DOMAIN a : \E j \in DOMAIN b : a[i] = b[j]
    OBVIOUS
  <2>2. \A j \in DOMAIN b : \E i \in DOMAIN a : a[i] = b[j]
    OBVIOUS
  <2> QED BY <1>2, <1>3, <1>4, <1>5, <2>1, <2>2
<1>7. /\ \A i \in DOMAIN p : i \in DOMAIN q /\ p[i] = q[i]
      /\ \A i \in DOMAIN q : i \in DOMAIN p /\ q[i] = p[i]
  <2>1. \A i \in DOMAIN p : i \in DOMAIN q /\ p[i] = q[i]
    BY <1>2, <1>3, <1>6, SameElementsSamePlaces
  <2>2. /\ \A i \in DOMAIN q : \E j \in DOMAIN p : q[i] = p[j]
        /\ \A j \in DOMAIN p : \E i \in DOMAIN q : q[i] = p[j]
    BY <1>6
  <2>3. \A i \in DOMAIN q : i \in DOMAIN p /\ q[i] = p[i]
    BY <1>2, <1>3, <2>2, SameElementsSamePlaces
  <2> QED BY <2>1, <2>3
<1>8. 1 .. Len(a) = 1 .. Len(b) /\ \A i \in 1 .. Len(a) : a[i] = b[i]
  BY <1>2, <1>3, <1>5, <1>7
<1>9. Len(a) = Len(b)
  <2>1. \A x, y \in Nat : 1 .. x = 1 .. y => x = y
    <3> SUFFICES ASSUME NEW x \in Nat, NEW y \in Nat, 1 .. x = 1 .. y, x # y
                 PROVE  FALSE
      OBVIOUS
    <3>1. CASE x < y
      <4>1. y \in 1 .. y /\ y \notin 1 .. x
        BY <3>1
      <4> QED BY <4>1
    <3>2. CASE y < x
      <4>1. x \in 1 .. x /\ x \notin 1 .. y
        BY <3>2
      <4> QED BY <4>1
    <3> QED BY <3>1, <3>2
  <2> QED BY <1>2, <1>3, <1>8, <2>1
<1> QED BY <1>2, <1>3, <1>8, <1>9, SeqEqual
=============================================================================
