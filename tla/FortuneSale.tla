---------------------------- MODULE FortuneSale ----------------------------
(***************************************************************************)
(* What /x402 promises about money and fortunes, with no clock, no table,  *)
(* no crash and no concurrency: a payment is redeemed at most once, only   *)
(* after it was paid, and each redemption yields at most one fortune.      *)
(* (README.md:46 "Each payment is good for one fortune."; the doc comments *)
(* of ReplayStore and lnbtc::settle.)                                      *)
(***************************************************************************)
EXTENDS Naturals

CONSTANT Payments   \* payment hashes

VARIABLES paid,      \* the payments whose preimage the payer holds
          redeemed,  \* how often each payment was accepted as proof
          served     \* how many fortunes each payment bought

saleVars == <<paid, redeemed, served>>

SaleInit ==
  /\ paid = {}
  /\ redeemed = [h \in Payments |-> 0]
  /\ served = [h \in Payments |-> 0]

PayFor(h) ==
  /\ paid' = paid \cup {h}
  /\ UNCHANGED <<redeemed, served>>

Redeem(h) ==
  /\ h \in paid
  /\ redeemed[h] = 0
  /\ redeemed' = [redeemed EXCEPT ![h] = 1]
  /\ UNCHANGED <<paid, served>>

Dispense(h) ==
  /\ served[h] < redeemed[h]
  /\ served' = [served EXCEPT ![h] = @ + 1]
  /\ UNCHANGED <<paid, redeemed>>

SaleNext == \E h \in Payments : PayFor(h) \/ Redeem(h) \/ Dispense(h)

SaleSpec == SaleInit /\ [][SaleNext]_saleVars
=============================================================================
