------------------------------- MODULE Config -------------------------------
(***************************************************************************)
(* What the server makes of its environment: Config::from_env of           *)
(* src/config.rs, X402State::from_app of src/x402/handler.rs, and the      *)
(* address that the health-check subcommand of src/main.rs derives from    *)
(* the same LISTEN_ADDR.                                                   *)
(*                                                                         *)
(* A step that can fail is a pair of operators: XOk, whether the code goes *)
(* on, and x, the value it then has.  An Option is a sequence of at most   *)
(* one element.                                                            *)
(***************************************************************************)
EXTENDS Lnbtc, Integers

CONSTANT IMax   \* i64::MAX

ASSUME ConfigAssumption == IMax \in Nat /\ IMax <= UMax

I64 == -IMax - 1 .. IMax
U64 == 0 .. UMax

(***************************************************************************)
(* An environment maps each variable to Absent (unset, or not Unicode,     *)
(* which std::env::var treats alike) or to a value: Dec(n), Hex(k, v), a   *)
(* Socket, a Url, or a Text that is none of these.                         *)
(***************************************************************************)
Parses(value, range) == value[1] = "decimal" /\ value[2] \in range
VarOr(value, default) == IF value = Absent THEN default ELSE value

Socket(family, ip, port) ==
  <<"socket", [family |-> family, ip |-> ip, port |-> port]>>

DEFAULT_LISTEN_ADDR == Socket(4, "unspecified", 3402)

listen_addr_from_env(env) == VarOr(env.LISTEN_ADDR, DEFAULT_LISTEN_ADDR)[2]

-----------------------------------------------------------------------------
(***************************************************************************)
(* Url(u) is a text that http::Uri parses: u has the members ascii, query  *)
(* (a query or a fragment), scheme, userinfo, host and path.  The path is  *)
(* what follows the host, as the texts after each '/'.                     *)
(***************************************************************************)
Url(u) == <<"url", u>>
Blank  == ""   \* the empty text, as before and between two slashes

PublicUrlOk(value) ==
  /\ value[1] = "url"
  /\ LET u == value[2]
     IN  /\ u.ascii /\ ~ u.query
         /\ u.scheme \in {"http", "https"}
         /\ u.host # Blank
         /\ ~ u.userinfo

\* Mutant: only one trailing slash is dropped.
trim_end_matches_Once(path) ==
  IF path # <<>> /\ Last(path) = Blank THEN Front(path) ELSE path

trim_end_matches(path) ==
  SubSeq(path, 1, SelectLastInSeq(path, LAMBDA text : text # Blank))

parse_public_url(value) ==
  LET u == value[2] IN <<u.scheme, u.host>> \o trim_end_matches(u.path)

-----------------------------------------------------------------------------
Amount(env) == VarOr(env.INVOICE_AMOUNT_SATS, Dec(1))
Expiry(env) == VarOr(env.INVOICE_EXPIRY_SECS, Dec(300))
Skew(env)   == VarOr(env.X402_CLOCK_SKEW_SECS, Dec(60))

FromEnvOk(env) ==
  /\ env.LND_CERT_PATH # Absent /\ env.LND_MACAROON_PATH # Absent
  /\ VarOr(env.LISTEN_ADDR, DEFAULT_LISTEN_ADDR)[1] = "socket"
  /\ Parses(Amount(env), I64) /\ Parses(Expiry(env), I64)
  /\ env.L402_ROOT_KEY = Absent
       \/ (env.L402_ROOT_KEY[1] = "hex" /\ env.L402_ROOT_KEY[2] = 64)
  /\ env.PUBLIC_URL # Absent =>
       PublicUrlOk(env.PUBLIC_URL) /\ Parses(Skew(env), U64)

from_env(env) ==
  [listen_addr         |-> listen_addr_from_env(env),
   invoice_amount_sats |-> Amount(env)[2],
   invoice_expiry_secs |-> Expiry(env)[2],
   x402 |-> IF env.PUBLIC_URL = Absent
            THEN <<>>
            ELSE <<[public_url      |-> parse_public_url(env.PUBLIC_URL),
                    clock_skew_secs |-> Skew(env)[2]]>>]

-----------------------------------------------------------------------------
\* Mutant: the product wraps around.
checked_mul_Wraps(a, b) ==
  LET product == (a * b) % (2 * (IMax + 1))
  IN  <<IF product <= IMax THEN product ELSE product - 2 * (IMax + 1)>>

checked_mul(a, b) == IF a * b \in I64 THEN <<a * b>> ELSE <<>>

amount_msat(config) == checked_mul(config.invoice_amount_sats, 1000)

(***************************************************************************)
(* LND's get_info is Absent when the call fails or reports no chain, else  *)
(* [network, pubkey].  from_app is None without PUBLIC_URL or on a network *)
(* that the scheme has no name for.                                        *)
(***************************************************************************)
Enabled(config, info) == config.x402 # <<>> /\ info.network \in Network

FromAppOk(config, info) ==
  \/ config.x402 = <<>>
  \/ /\ info # Absent
     /\ info.network \in Network =>
          /\ info.pubkey[1] = "pubkey"
          /\ amount_msat(config) # <<>> /\ amount_msat(config)[1] > 0
          /\ config.invoice_expiry_secs > 0

\* X402State, when x402 is enabled.
from_app(config, info) ==
  [network          |-> info.network,
   pay_to           |-> info.pubkey[2],
   amount_msat      |-> amount_msat(config)[1],
   max_timeout_secs |-> config.invoice_expiry_secs,
   clock_skew_secs  |-> config.x402[1].clock_skew_secs,
   public_url       |-> config.x402[1].public_url]

\* The settings and the node let main get past from_app; with the route /x402.
Starts(env, info) == FromEnvOk(env) /\ FromAppOk(from_env(env), info)
Sells(env, info)  == Starts(env, info) /\ Enabled(from_env(env), info)

X402Of(env, info) == from_app(from_env(env), info)

-----------------------------------------------------------------------------
\* Mutant: a wildcard address of either family becomes 127.0.0.1.
probe_addr_V4(listen_addr) ==
  IF listen_addr.ip = "unspecified"
  THEN [listen_addr EXCEPT !.family = 4, !.ip = "loopback"]
  ELSE listen_addr

\* The address health_probe connects to.
probe_addr(listen_addr) ==
  IF listen_addr.ip = "unspecified"
  THEN [listen_addr EXCEPT !.ip = "loopback"]
  ELSE listen_addr
=============================================================================
