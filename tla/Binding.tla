------------------------------ MODULE Binding ------------------------------
(***************************************************************************)
(* Wire values, and the http:1 request binding of src/x402/binding.rs.     *)
(*                                                                         *)
(* A JSON value or header text is a tuple whose first element says what it *)
(* is; only the distinctions the code draws are kept.  SHA-256 is taken to *)
(* be injective: the digest of x is the tagged value Sha256(x).            *)
(***************************************************************************)
EXTENDS Naturals, SequencesExt

Absent     == <<>>              \* a member that is missing from its object
NonString  == <<"json">>        \* a JSON value that is not a string
Text(s)    == <<"text", s>>     \* a string with no structure of its own
Dec(n)     == <<"decimal", n>>  \* n.to_string()
Hex(k, v)  == <<"hex", k, v>>   \* v as k lower-case hex digits
EmptyString == Hex(0, <<>>)
Sha256(x)  == <<"sha256", x>>

HTTP_PROFILE  == "http:1"
BOUND_HEADERS == <<>>

-----------------------------------------------------------------------------
(***************************************************************************)
(* requestBindingParams.  An object is <<"object", headers, others>>: its  *)
(* headers member and how many further members it has.  An array element   *)
(* that is a lower-case RFC 9110 token is <<"token", rank>>, rank being    *)
(* its place in byte order; any other element is NonString or a Text.      *)
(***************************************************************************)
Token(rank) == <<"token", rank>>
PAYMENT_SIGNATURE == Token(2)

is_lowercase_token(name) == Len(name) = 2 /\ name[1] = "token"

http_params(bound_headers) == <<"object", <<"array", bound_headers>>, 0>>

\* Mutant: the order of the names is not checked, nor payment-signature refused.
is_valid_http_params_Unsorted(params) ==
  /\ Len(params) = 3 /\ params[1] = "object"
  /\ Len(params[2]) = 2 /\ params[2][1] = "array"
  /\ params[3] = 0
  /\ \A i \in DOMAIN params[2][2] : is_lowercase_token(params[2][2][i])

is_valid_http_params(params) ==
  /\ Len(params) = 3 /\ params[1] = "object"
  /\ Len(params[2]) = 2 /\ params[2][1] = "array"
  /\ params[3] = 0
  /\ LET names == params[2][2]
     IN  /\ \A i \in DOMAIN names : /\ is_lowercase_token(names[i])
                                    /\ names[i] # PAYMENT_SIGNATURE
         /\ \A i \in 2 .. Len(names) : names[i-1][2] < names[i][2]

-----------------------------------------------------------------------------
(***************************************************************************)
(* A request's headers map a token to its field lines, in order.  A line   *)
(* is [ascii, padding, items]: whether it is visible ASCII, the blanks     *)
(* around its value or "none", and the comma-separated items of the value. *)
(* Joining lines with ", " appends what they hold; blanks that are left on *)
(* a line make it hold something else.                                     *)
(***************************************************************************)
FieldLines(headers, name) ==
  IF name \in DOMAIN headers THEN headers[name] ELSE <<>>

trim_matches(line) == [ascii |-> line.ascii, padding |-> "none", items |-> line.items]

Holds(line) ==
  IF line.padding = "none" THEN line.items ELSE <<line.padding>> \o line.items

Joined(lines) == FlattenSeq([i \in DOMAIN lines |-> Holds(lines[i])])
Trimmed(lines) == [i \in DOMAIN lines |-> trim_matches(lines[i])]

\* Mutant: the lines are joined as they came.
header_value_hash_Untrimmed(headers, name) ==
  LET lines == FieldLines(headers, name)
  IN  IF lines = <<>> THEN Sha256(<<0>>) ELSE Sha256(<<1, Joined(lines)>>)

\* Mutant: an absent header is hashed as one with an empty value.
header_value_hash_AbsentIsEmpty(headers, name) ==
  LET lines == FieldLines(headers, name)
  IN  Sha256(<<1, IF lines = <<>>
                  THEN <<"">>
                  ELSE Joined(Trimmed(lines))>>)

header_value_hash(headers, name) ==
  LET lines == FieldLines(headers, name)
  IN  IF lines = <<>>
      THEN Sha256(<<0>>)
      ELSE Sha256(<<1, Joined(Trimmed(lines))>>)

\* A header as the application reads it, said without its hash: whether it is
\* there, and its values in order, however they are padded and spread over lines
\* (RFC 9421, section 2.1).
ReadsAs(headers, name) ==
  LET lines == FieldLines(headers, name)
  IN  <<lines # <<>>, FlattenSeq([i \in DOMAIN lines |-> lines[i].items])>>

\* The Err of http_request_hash: a bound header with an unsupported value.
HasUnsupportedHeader(bound_headers, headers) ==
  \E i \in DOMAIN bound_headers :
    \E j \in DOMAIN FieldLines(headers, bound_headers[i]) :
      ~ FieldLines(headers, bound_headers[i])[j].ascii

\* The Ok of http_request_hash.
http_request_hash(method, url, body, bound_headers, headers) ==
  Sha256([domain   |-> <<"x402:exact:lnbtc:bolt11:", HTTP_PROFILE>>,
          method   |-> method,
          url      |-> url,
          bodyHash |-> Sha256(body),
          headers  |-> [i \in DOMAIN bound_headers |->
                          [name      |-> bound_headers[i],
                           valueHash |-> header_value_hash(headers,
                                                           bound_headers[i])]]])
=============================================================================
