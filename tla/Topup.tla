------------------------------- MODULE Topup -------------------------------
(***************************************************************************)
(* Automatic funding of a provider account (provider_signup/topup.rs and   *)
(* topup/state.rs): a policy pays for credit through a Link wallet, within *)
(* a limit per UTC month, with private files as its only durable state.    *)
(*                                                                         *)
(* A file lock serialises the daemon's check and every request, so at most *)
(* one of them is under way; it may die between any two effects. What can  *)
(* go wrong is the order of the effects (a file written, a wallet asked, a *)
(* payment posted), a reply that never arrives, and a crash in between.    *)
(*                                                                         *)
(* One organization and its policy. Key rotation stays in it.              *)
(***************************************************************************)
EXTENDS Integers, FiniteSets, FiniteSetsExt

CONSTANTS
  Attempts,      \* bound: the uuids that may be drawn, 1..n
  Months,        \* bound: the months that pass, 1..n
  Quotes,        \* charge_cents the provider may quote, at most max_charge_cents
  Credit,        \* settings.amount_cents
  Limits,        \* settings.monthly_limit_cents an operator may choose
  Keys           \* fingerprints of the provider key

ASSUME TopupAssumption ==
  /\ Attempts \subseteq Nat \ {0} /\ IsFiniteSet(Attempts)
  /\ Months \subseteq Nat \ {0} /\ Months # {} /\ Keys # {}
  /\ Credit \in Nat \ {0}
  /\ Quotes \subseteq Nat /\ \A q \in Quotes : Credit <= q
  /\ Limits \subseteq Nat \ {0} /\ \A l \in Limits, q \in Quotes : q <= l

VARIABLES
  \* the files of provider-topups/
  policy,     \* the policy; limit 0 before the first configure
  ledger,     \* charges/<id>.json: [id, month, cents]
  reply,      \* <id>.response: "none", or whether it validates
  \* the one check or request under way
  check,      \* where advance is, and the policy in its memory
  drawn,      \* uuids drawn so far
  \* the wallet, the provider, the operator's key and the clock
  link,       \* the spend request created under the idempotency key <id>
  posted,     \* paid POSTs sent for <id>, with what its receipt says
  keyNow, month, stale

topupVars == <<policy, ledger, reply, check, drawn, link, posted, keyNow, month, stale>>

Phase     == {"none", "wallet", "approval", "submitting", "received", "uncertain"}
Unpaid    == {"wallet", "approval"}
NoAttempt == [id |-> 0, cents |-> 0, phase |-> "none", spend |-> FALSE, month |-> 0]
Attempt   == [id : Attempts \cup {0}, cents : Nat, phase : Phase, spend : BOOLEAN,
              month : Months \cup {0}]
NoPolicy  == [enabled |-> FALSE, limit |-> 0, key |-> CHOOSE k \in Keys : TRUE,
              pending |-> NoAttempt]
Policy    == [enabled : BOOLEAN, limit : Nat, key : Keys, pending : Attempt]
Idle      == [at |-> "idle", pol |-> NoPolicy]
With(p, a) == [p EXCEPT !.pending = a]
Clear(p)   == With(p, NoAttempt)
At(w, p)   == check' = [at |-> w, pol |-> p]
-----------------------------------------------------------------------------
TopupInit ==
  /\ policy = NoPolicy
  /\ ledger = {}
  /\ reply = [i \in Attempts |-> "none"]
  /\ check = Idle
  /\ drawn = {}
  /\ link = [i \in Attempts |-> "none"]
  /\ posted = [i \in Attempts |-> [n |-> 0, month |-> 0, cents |-> 0]]
  /\ keyNow \in Keys
  /\ month \in {m \in Months : \A n \in Months : m <= n}
  /\ stale = {}

\* state::recover: a submission without a saved response is uncertain.
RecoveredBlind(p) == IF p.pending.phase \in {"submitting", "uncertain"} THEN Clear(p) ELSE p
Recovered(p) ==
  LET a == p.pending IN
  IF a.phase \notin {"submitting", "uncertain"} THEN p
  ELSE With(p, [a EXCEPT !.phase = IF reply[a.id] # "none" THEN "received" ELSE "uncertain"])

\* state::spent and state::room in the current month.
Charged == MapThenSumSet(LAMBDA c : c.cents, {c \in ledger : c.month >= month})
SpentAfter(p) == MapThenSumSet(LAMBDA c : c.cents, {c \in ledger : c.month > month})
Spent(p) ==
  LET a == p.pending
      unrecorded == a.month >= month /\ \A c \in ledger : c.id # a.id
  IN Charged + IF unrecorded THEN a.cents ELSE 0
Room(p, cents) == Spent(p) + cents <= p.limit
-----------------------------------------------------------------------------
(* Requests.                                                               *)

TopupConfigure(l) ==
  /\ check = Idle
  /\ LET q == Recovered(policy)
         same == q.limit = l /\ q.key = keyNow /\ q.enabled
     IN policy' = IF ~same /\ q.pending = NoAttempt
                  THEN [enabled |-> TRUE, limit |-> l, key |-> keyNow, pending |-> NoAttempt]
                  ELSE q
  /\ UNCHANGED <<ledger, reply, check, drawn, link, posted, keyNow, month, stale>>

\* wallet::cancel: the spend request ends, or the command fails and may have
\* ended it. A request without a recorded spend id has nothing to cancel.
Cancelled(a) ==
  link' = IF a.spend /\ link[a.id] \in {"open", "approved"}
          THEN [link EXCEPT ![a.id] = "closed"] ELSE link
CancelFailed(a) == a.spend /\ (UNCHANGED link \/ Cancelled(a))

\* disable: an unpaid attempt goes once the wallet has confirmed its cancellation.
DisableUnlocked ==
  /\ policy.limit # 0 /\ policy' = [policy EXCEPT !.enabled = FALSE]
  /\ UNCHANGED <<ledger, reply, check, drawn, link, posted, keyNow, month, stale>>
TopupDisable ==
  /\ check = Idle /\ policy.limit # 0
  /\ LET q == [Recovered(policy) EXCEPT !.enabled = FALSE]
         a == q.pending
     IN \/ a.phase \in Unpaid /\ Cancelled(a) /\ policy' = Clear(q)
        \/ a.phase \in Unpaid /\ CancelFailed(a) /\ policy' = q
        \/ a.phase \notin Unpaid /\ policy' = q /\ UNCHANGED link
  /\ UNCHANGED <<ledger, reply, check, drawn, posted, keyNow, month, stale>>

\* An operator's check. A status request is one that goes no further.
TopupCheck ==
  /\ check = Idle /\ policy.limit # 0
  /\ policy' = Recovered(policy)
  /\ At("advance", Recovered(policy))
  /\ UNCHANGED <<ledger, reply, drawn, link, posted, keyNow, month, stale>>
\* The daemon's check passes over a disabled policy unless a saved response waits.
TickEnabled == policy.enabled /\ TopupCheck
TopupTick ==
  /\ policy.enabled \/ Recovered(policy).pending.phase = "received"
  /\ TopupCheck
-----------------------------------------------------------------------------
(* advance, one bounded phase per check.                                   *)

Advancing == check.at = "advance"
Funding   == Advancing /\ check.pol.enabled /\ check.pol.key = keyNow

\* finish: the ledger first, then the policy without its pending attempt.
Settled(a) == ledger \cup {[id |-> a.id, month |-> a.month, cents |-> a.cents]}
Finish ==
  /\ Advancing
  /\ LET p == check.pol
         a == p.pending
     IN /\ a.phase = "received"
        /\ IF reply[a.id] = "valid"
           THEN ledger' = Settled(a) /\ At("write", Clear(p))
           ELSE ledger' = ledger /\ At("write", p)
  /\ UNCHANGED <<policy, reply, drawn, link, posted, keyNow, month, stale>>

\* Nothing to do (disabled, uncertain, enough balance, no room in the month, not
\* approved yet), or an error at the key, the provider or the wallet.
Hold ==
  /\ Advancing
  /\ At("write", Recovered(check.pol))
  /\ UNCHANGED <<policy, ledger, reply, drawn, link, posted, keyNow, month, stale>>

\* The balance is low: a quote the month has room for becomes the pending attempt.
Quote(i, q) ==
  /\ Funding
  /\ check.pol.pending.phase = "none"
  /\ i \notin drawn
  /\ Room(check.pol, Credit) /\ Room(check.pol, q)
  /\ drawn' = drawn \cup {i}
  /\ At("write", With(check.pol, [id |-> i, cents |-> q, phase |-> "wallet",
                                  spend |-> FALSE, month |-> 0]))
  /\ UNCHANGED <<policy, ledger, reply, link, posted, keyNow, month, stale>>

\* An unpaid attempt is given up: its quote expired, the balance recovered or
\* the month has no room left.
GiveUp ==
  /\ Funding
  /\ LET a == check.pol.pending IN
       /\ \/ a.phase \in Unpaid /\ a.id \in stale
          \/ a.phase = "approval" /\ link[a.id] = "approved"
       /\ \/ Cancelled(a) /\ At("write", Clear(check.pol))
          \/ CancelFailed(a) /\ At("write", check.pol)
  /\ UNCHANGED <<policy, ledger, reply, drawn, posted, keyNow, month, stale>>

\* wallet::create_topup under the idempotency key; its reply may be lost.
Create ==
  /\ Funding
  /\ LET a == check.pol.pending IN
       /\ a.phase = "wallet" /\ a.id \notin stale
       /\ link' = IF link[a.id] = "none" THEN [link EXCEPT ![a.id] = "open"] ELSE link
       /\ \/ At("write", With(check.pol, [a EXCEPT !.phase = "approval", !.spend = TRUE]))
          \/ At("write", check.pol)
  /\ UNCHANGED <<policy, ledger, reply, drawn, posted, keyNow, month, stale>>

\* wallet::retrieve: declined, cancelled or expired.
Declined ==
  /\ Funding
  /\ LET a == check.pol.pending IN
       /\ a.phase = "approval" /\ a.id \notin stale
       /\ link[a.id] = "closed"
       /\ At("write", [Clear(check.pol) EXCEPT !.enabled = FALSE])
  /\ UNCHANGED <<policy, ledger, reply, drawn, link, posted, keyNow, month, stale>>

\* Approved, still low and still within the limit: the fsynced transition
\* before the payment. The month may turn after the limit was checked and before
\* submitted_at is taken; a transition that cannot be written ends uncertain.
Uncertain(p) == With(p, [p.pending EXCEPT !.phase = "uncertain"])
SubmitWrite(q) ==
  \/ policy' = q /\ At("pay", q)
  \/ UNCHANGED policy /\ At("write", Uncertain(q))
Submit(m) ==
  /\ Funding
  /\ m \in {month, month + 1}
  /\ LET a == check.pol.pending
         q == With(check.pol, [a EXCEPT !.phase = "submitting", !.month = m])
     IN /\ a.phase = "approval" /\ a.id \notin stale
        /\ link[a.id] = "approved"
        /\ Room(check.pol, a.cents)
        /\ SubmitWrite(q)
  /\ month' = m
  /\ UNCHANGED <<ledger, reply, drawn, link, posted, keyNow, stale>>

\* The paid POST, which may be lost on its way. Without an answer the outcome is
\* unknown; an expired quote or a malformed token ends it before anything is sent.
Posted(a) ==
  posted' = [posted EXCEPT ![a.id] = [n |-> @.n + 1, month |-> a.month, cents |-> a.cents]]
Consumed(a) == link' = [link EXCEPT ![a.id] = "closed"]
PayRetried ==
  /\ check.at = "pay"
  /\ Posted(check.pol.pending)
  /\ UNCHANGED <<policy, ledger, reply, check, drawn, link, keyNow, month, stale>>
Pay ==
  /\ check.at = "pay"
  /\ LET p == check.pol
         a == p.pending
     IN \/ a.id \notin stale /\ Posted(a) /\ Consumed(a) /\ At("answered", p)
        \/ /\ a.id \notin stale /\ Posted(a) /\ (Consumed(a) \/ UNCHANGED link)
           /\ At("write", Uncertain(p))
        \/ UNCHANGED <<posted, link>> /\ At("write", Uncertain(p))
  /\ UNCHANGED <<policy, ledger, reply, drawn, keyNow, month, stale>>

\* The answer is saved before anything else, or cannot be.
SaveReply(v) ==
  /\ check.at = "answered"
  /\ LET a == check.pol.pending IN
       \/ /\ reply' = [reply EXCEPT ![a.id] = v]
          /\ At("write", With(check.pol, [a EXCEPT !.phase = "received"]))
       \/ /\ UNCHANGED reply
          /\ At("write", Uncertain(check.pol))
  /\ UNCHANGED <<policy, ledger, drawn, link, posted, keyNow, month, stale>>

\* checked_advance ends with the policy written.
WritePolicy ==
  /\ check.at = "write"
  /\ policy' = check.pol
  /\ check' = Idle
  /\ UNCHANGED <<ledger, reply, drawn, link, posted, keyNow, month, stale>>

\* The process dies, or a file cannot be written.
TopupCrash ==
  /\ check # Idle
  /\ check' = Idle
  /\ UNCHANGED <<policy, ledger, reply, drawn, link, posted, keyNow, month, stale>>
-----------------------------------------------------------------------------
(* The wallet, the clock and the operator's key.                           *)

Approve(i) ==
  /\ link[i] = "open"
  /\ link' = [link EXCEPT ![i] = "approved"]
  /\ UNCHANGED <<policy, ledger, reply, check, drawn, posted, keyNow, month, stale>>
\* Denied, expired, failed, or cancelled by a command whose caller died.
Decline(i) ==
  /\ link[i] \in {"open", "approved"}
  /\ link' = [link EXCEPT ![i] = "closed"]
  /\ UNCHANGED <<policy, ledger, reply, check, drawn, posted, keyNow, month, stale>>
Expire(i) ==
  /\ i \in drawn \ stale
  /\ stale' = stale \cup {i}
  /\ UNCHANGED <<policy, ledger, reply, check, drawn, link, posted, keyNow, month>>
NextMonth ==
  /\ month + 1 \in Months
  /\ month' = month + 1
  /\ UNCHANGED <<policy, ledger, reply, check, drawn, link, posted, keyNow, stale>>
Rotate(k) ==
  /\ k # keyNow
  /\ keyNow' = k
  /\ UNCHANGED <<policy, ledger, reply, check, drawn, link, posted, month, stale>>

TopupAdvance ==
  \/ Finish \/ Hold \/ GiveUp \/ Create \/ Declined \/ Pay
  \/ \E i \in Attempts, q \in Quotes : Quote(i, q)
  \/ \E m \in Months : Submit(m)
  \/ \E v \in {"valid", "invalid"} : SaveReply(v)
  \/ WritePolicy
TopupWorld ==
  \/ \E i \in Attempts : Approve(i) \/ Decline(i) \/ Expire(i)
  \/ NextMonth
  \/ \E k \in Keys : Rotate(k)
TopupNext ==
  \/ \E l \in Limits : TopupConfigure(l)
  \/ TopupDisable \/ TopupCheck \/ TopupAdvance \/ TopupCrash \/ TopupWorld

TopupSpec == TopupInit /\ [][TopupNext]_topupVars

-----------------------------------------------------------------------------
TopupTypeOK ==
  /\ policy \in Policy
  /\ ledger \subseteq [id : Attempts, month : Months, cents : Nat]
  /\ reply \in [Attempts -> {"none", "valid", "invalid"}]
  /\ check \in [at : {"idle", "advance", "pay", "answered", "write"}, pol : Policy]
  /\ drawn \subseteq Attempts
  /\ link \in [Attempts -> {"none", "open", "approved", "closed"}]
  /\ posted \in [Attempts -> [n : Nat, month : Months \cup {0}, cents : Nat]]
  /\ keyNow \in Keys /\ month \in Months /\ stale \subseteq Attempts

\* However the process dies and whatever reply is lost, one attempt is posted
\* for payment at most once: recover turns a submission without a response
\* into uncertain, and advance never pays an uncertain attempt.
NeverPaidTwice == \A i \in Attempts : posted[i].n <= 1

\* Every payment that was posted is in the ledger or in the pending attempt, so
\* disabling, reconfiguring and crashing between the two files of finish lose
\* no payment history.
PaymentsAccounted ==
  \A i \in Attempts : posted[i].n > 0 =>
    \/ \E c \in ledger : c = [id |-> i, month |-> posted[i].month, cents |-> posted[i].cents]
    \/ /\ policy.pending.id = i
       /\ policy.pending.month = posted[i].month
       /\ policy.pending.cents = posted[i].cents

\* Funding pays as an operator may expect of any payment (Payments): an attempt that
\* was drawn and is neither paid nor pending has been given up, and a charge never
\* follows that.
Forgotten == {i \in drawn : /\ posted[i].n = 0 /\ policy.pending.id # i
                            /\ check.pol.pending.id # i}
TopupOrders == INSTANCE Payments WITH
  Orders <- Attempts, charges <- [i \in Attempts |-> posted[i].n], givenUp <- Forgotten
TopupPays == TopupOrders!PaymentsSpec

\* When a payment is posted, everything posted in its month, it included, is
\* within the limit the operator has set.
MonthlyLimit ==
  [][\A i \in Attempts : posted'[i].n > posted[i].n =>
       MapThenSumSet(LAMBDA j : posted'[j].cents,
                     {j \in Attempts : posted'[j].month = posted'[i].month})
         <= policy.limit]_topupVars

\* A disabled policy pays nothing, whatever was under way when it was disabled:
\* the check that pays holds the lock from reading the policy to the payment.
DisabledNeverPays == [][posted' # posted => policy.enabled]_topupVars

\* A valid response on disk ends in the ledger, even when the process died before
\* the policy said so and the operator then disabled it.
SavedReplyIsRecorded ==
  \A i \in Attempts : reply[i] = "valid" ~> \E c \in ledger : c.id = i

\* cancel_unsubmitted_wallet: "Do not discard a Link authorization while it can
\* still be spent." Between checks, the wallet holds no authorization that can
\* be spent for an attempt the policy has forgotten.
AuthorizationKept ==
  check = Idle => \A i \in Attempts :
    link[i] \in {"open", "approved"} => policy.pending.id = i
=============================================================================
