------------------------------ MODULE Payments ------------------------------
(***************************************************************************)
(* What paying on an operator's behalf promises, whatever files, wallets   *)
(* and replies are involved: an order is charged at most once, and one     *)
(* that was given up (cancelled, declined, expired, dropped) is never      *)
(* charged. Topup and Signup are shown to implement this.                  *)
(***************************************************************************)
EXTENDS Naturals

CONSTANT Orders

VARIABLES
  charges,    \* charges[o]: payments sent for o
  givenUp     \* orders that ended without a payment

paymentVars == <<charges, givenUp>>

PaymentsInit == charges = [o \in Orders |-> 0] /\ givenUp = {}

Charge(o) ==
  /\ charges[o] = 0 /\ o \notin givenUp
  /\ charges' = [charges EXCEPT ![o] = 1]
  /\ UNCHANGED givenUp

\* Several unpaid orders may be dropped at once (a crash loses those in memory).
GiveUpOrders ==
  /\ UNCHANGED charges
  /\ givenUp \subseteq givenUp' /\ givenUp' \subseteq Orders
  /\ \A o \in givenUp' \ givenUp : charges[o] = 0

PaymentsNext == GiveUpOrders \/ \E o \in Orders : Charge(o)

PaymentsSpec == PaymentsInit /\ [][PaymentsNext]_paymentVars
=============================================================================
