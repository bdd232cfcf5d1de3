------------------------------- MODULE Signup -------------------------------
(***************************************************************************)
(* Paid signup for a provider key (provider_signup.rs): a record and a     *)
(* saved response per request id, a Link authorization, one paid POST, and *)
(* the installation of the key it returns.                                 *)
(*                                                                         *)
(* The receipt directory's lock is held for a whole request, so one        *)
(* request is under way at a time (job); it may die between two effects.   *)
(* The operator may change the provider's credential or configuration at   *)
(* any moment: neither is under that lock.                                 *)
(***************************************************************************)
EXTENDS Integers, FiniteSets

CONSTANTS
  SignupIds,     \* request ids, all for one provider (one api_key_env)
  Caps,          \* max_charge_cents an operator may authorize
  Amount,        \* amount_cents
  FeePoints,     \* fee_basis_points the provider may declare
  Unit,          \* credit units in a cent (1_000_000 in the code)
  Whole          \* basis points in a whole (10_000 in the code)

ASSUME SignupAssumption ==
  /\ SignupIds # {}
  /\ Amount \in Nat \ {0} /\ Unit \in Nat \ {0} /\ Whole \in Nat \ {0}
  /\ FeePoints \subseteq Nat /\ FeePoints # {}
  /\ Caps \subseteq Nat \ {0} /\ \A c \in Caps : Amount <= c

VARIABLES
  record,      \* <id>.json
  response,    \* <id>.response: "none", or whether it holds a valid key
  job,         \* the request under way: where it is, its id and its record in memory
  spendReq,    \* Link's spend request under wallet_operation_id: [is, cents]
  paid,        \* paid POSTs sent for the id, and their amount
  lapsed,      \* ids whose quote has expired
  cred,        \* the provider credential in force
  target       \* which configuration of the provider is in force

signupVars == <<record, response, job, spendReq, paid, lapsed, cred, target>>

Unsent    == {"preparing", "awaiting_wallet", "awaiting_approval"}
GaveUp    == {"failed", "cancelled", "expired"}
Terminal  == GaveUp \cup {"succeeded"}
SStatus   == Unsent \cup Terminal \cup {"submitting", "credential_received", "uncertain"}
KeyOf(i)  == <<"key", i>>
NewKeys   == {KeyOf(i) : i \in SignupIds}
Creds     == {<<"none">>, <<"own">>, <<"other">>} \cup NewKeys
Targets   == {"original", "changed"}
NoRecord  == [status |-> "absent", cap |-> 0, target |-> "original", hash |-> <<"none">>,
              cents |-> 0, spend |-> FALSE]
Record    == [status : SStatus, cap : Caps, target : Targets, hash : Creds,
              cents : Nat, spend : BOOLEAN]
NoJob     == [at |-> "idle", id |-> CHOOSE i \in SignupIds : TRUE, rec |-> NoRecord]
Go(w, i, r) == job' = [at |-> w, id |-> i, rec |-> r]
Done        == job' = NoJob
Put(i, r)   == record' = [record EXCEPT ![i] = r]
-----------------------------------------------------------------------------
(* The quote (wire::parse_challenge_kind).                                 *)

Ceil(a, b) == (a + b - 1) \div b
FeeUnits(points) == Ceil(Amount * Unit * points, Whole)
ChargeCents(points) == Ceil(Amount * Unit + FeeUnits(points), Unit)
\* An offer is accepted if charge, credit and fee agree with the declared rate
\* and the charge stays within the authorized total.
Offers == [points : FeePoints, cents : 0..(2 * Amount)]
ValidOffer(o, cap) == o.cents = ChargeCents(o.points) /\ o.cents <= cap
-----------------------------------------------------------------------------
SignupInit ==
  /\ record = [i \in SignupIds |-> NoRecord]
  /\ response = [i \in SignupIds |-> "none"]
  /\ job = NoJob
  /\ spendReq = [i \in SignupIds |-> [is |-> "none", cents |-> 0]]
  /\ paid = [i \in SignupIds |-> [n |-> 0, cents |-> 0]]
  /\ lapsed = {}
  /\ cred \in {<<"none">>, <<"own">>}
  /\ target = "original"

\* check_target: the configuration is the recorded one and the credential is the
\* one found at the start, or the new key already installed.
CheckTarget(r, keys) == target = r.target /\ cred \in {r.hash} \cup keys

\* recover, which every request on an existing record begins with.
SignupRecovered(i) ==
  IF record[i].status \notin {"submitting", "uncertain"} THEN record[i]
  ELSE [record[i] EXCEPT !.status =
          IF response[i] = "none" THEN "uncertain" ELSE "credential_received"]
-----------------------------------------------------------------------------
(* Requests.                                                               *)

\* start: refused when a credential exists and replacing it was not authorized, or
\* when another record for this credential is unresolved. Afterwards advance.
SignupStartBlind(i, cap, replace) ==
  /\ job = NoJob /\ record[i] = NoRecord /\ target = "original"
  /\ cred = <<"none">> \/ replace
  /\ LET r == [NoRecord EXCEPT !.status = "preparing", !.cap = cap, !.hash = cred]
     IN Put(i, r) /\ Go("advance", i, r)
  /\ UNCHANGED <<response, spendReq, paid, lapsed, cred, target>>
SignupStart(i, cap, replace) ==
  /\ job = NoJob /\ record[i] = NoRecord /\ target = "original"
  /\ cred = <<"none">> \/ replace
  /\ \A j \in SignupIds : record[j].status \in Terminal \cup {"absent"}
  /\ LET r == [NoRecord EXCEPT !.status = "preparing", !.cap = cap, !.hash = cred]
     IN Put(i, r) /\ Go("advance", i, r)
  /\ UNCHANGED <<response, spendReq, paid, lapsed, cred, target>>

\* status, a repeated start, and a resume that has nothing to do.
SignupStatus(i) ==
  /\ job = NoJob /\ record[i] # NoRecord
  /\ Put(i, SignupRecovered(i))
  /\ UNCHANGED <<response, job, spendReq, paid, lapsed, cred, target>>

SignupResume(i) ==
  /\ job = NoJob /\ record[i] # NoRecord
  /\ LET r == SignupRecovered(i)
     IN /\ r.status \notin Terminal \cup {"uncertain"}
        /\ Put(i, r) /\ Go("advance", i, r)
  /\ UNCHANGED <<response, spendReq, paid, lapsed, cred, target>>

\* cancel: the wallet first, then the record. Only unsent signups.
SignupCancel(i) ==
  /\ job = NoJob /\ record[i] # NoRecord
  /\ LET r == SignupRecovered(i)
     IN /\ r.status \in Unsent \cup {"cancelled"}
        /\ Put(i, r) /\ Go("cancel", i, r)
  /\ UNCHANGED <<response, spendReq, paid, lapsed, cred, target>>
-----------------------------------------------------------------------------
(* The Link wallet (wallet.rs): a command's effect and its reply are apart, *)
(* since a command may time out or print what parse refuses.               *)

Closes(i) ==
  spendReq' = IF spendReq[i].is \in {"open", "approved"}
              THEN [spendReq EXCEPT ![i].is = "closed"] ELSE spendReq

\* wallet::cancel for cancel and for an expired quote; nothing to do without a spend id.
WalletCancel ==
  LET i == job.id  r == job.rec IN
  /\ job.at \in {"cancel", "expire"}
  /\ LET end == [r EXCEPT !.status = IF job.at = "cancel" THEN "cancelled" ELSE "expired"]
     IN \/ ~r.spend /\ UNCHANGED spendReq /\ Go("write", i, end)
        \/ r.spend /\ Closes(i) /\ Go("write", i, end)
        \/ r.spend /\ (Closes(i) \/ UNCHANGED spendReq) /\ Done
  /\ UNCHANGED <<record, response, paid, lapsed, cred, target>>

\* wallet::create under the idempotency key wallet_operation_id.
WalletCreate ==
  LET i == job.id  r == job.rec IN
  /\ job.at = "advance" /\ r.status = "awaiting_wallet"
  /\ CheckTarget(r, {}) /\ i \notin lapsed
  /\ \/ /\ spendReq' = IF spendReq[i].is = "none"
                       THEN [spendReq EXCEPT ![i] = [is |-> "open", cents |-> r.cents]]
                       ELSE spendReq
        /\ \/ Go("write", i, [r EXCEPT !.status = "awaiting_approval", !.spend = TRUE])
           \/ Go("write", i, r)
     \/ UNCHANGED spendReq /\ Go("write", i, r)
  /\ UNCHANGED <<record, response, paid, lapsed, cred, target>>

\* wallet::retrieve says declined, or nothing that lets the signup go on.
WalletRetrieve ==
  LET i == job.id  r == job.rec IN
  /\ job.at = "advance" /\ r.status = "awaiting_approval"
  /\ CheckTarget(r, {}) /\ i \notin lapsed
  /\ \/ spendReq[i].is = "closed" /\ Go("write", i, [r EXCEPT !.status = "failed"])
     \/ Go("write", i, r)
  /\ UNCHANGED <<record, response, spendReq, paid, lapsed, cred, target>>
-----------------------------------------------------------------------------
(* advance.                                                                *)

\* The provider lock is busy, or check_target refuses.
SignupRefused ==
  /\ job.at \in {"advance", "verify", "save"} /\ Done
  /\ UNCHANGED <<record, response, spendReq, paid, lapsed, cred, target>>

SignupPrepare ==
  LET i == job.id  r == job.rec IN
  /\ job.at = "advance" /\ r.status = "preparing" /\ CheckTarget(r, {})
  /\ \E o \in Offers :
       Go("write", i, IF ValidOffer(o, r.cap)
                      THEN [r EXCEPT !.status = "awaiting_wallet", !.cents = o.cents]
                      ELSE [r EXCEPT !.status = "failed"])
  /\ UNCHANGED <<record, response, spendReq, paid, lapsed, cred, target>>

SignupExpired ==
  /\ job.at = "advance" /\ job.rec.status \in {"awaiting_wallet", "awaiting_approval"}
  /\ CheckTarget(job.rec, {}) /\ job.id \in lapsed
  /\ Go("expire", job.id, job.rec)
  /\ UNCHANGED <<record, response, spendReq, paid, lapsed, cred, target>>

\* The fsynced transition to submitting; the POST may follow only this write.
SignupSubmitLate ==
  LET i == job.id  r == job.rec IN
  /\ job.at = "advance" /\ r.status = "awaiting_approval" /\ spendReq[i].is = "approved"
  /\ CheckTarget(r, {}) /\ i \notin lapsed
  /\ Go("pay", i, [r EXCEPT !.status = "submitting"])
  /\ UNCHANGED <<record, response, spendReq, paid, lapsed, cred, target>>
SignupSubmit ==
  LET i == job.id  r == [job.rec EXCEPT !.status = "submitting"] IN
  /\ job.at = "advance" /\ job.rec.status = "awaiting_approval"
  /\ spendReq[i].is = "approved"
  /\ CheckTarget(r, {}) /\ i \notin lapsed
  /\ Put(i, r) /\ Go("pay", i, r)
  /\ UNCHANGED <<response, spendReq, paid, lapsed, cred, target>>

\* wire::pay: the quote may lapse first (nothing is sent); otherwise the POST is
\* sent, and a 201 with its body comes back or anything else.
SignupPay ==
  LET i == job.id  r == job.rec IN
  /\ job.at = "pay"
  /\ \/ i \in lapsed /\ UNCHANGED <<spendReq, paid>>
        /\ Go("write", i, [r EXCEPT !.status = "uncertain"])
     \/ /\ i \notin lapsed
        /\ paid' = [paid EXCEPT ![i] = [n |-> @.n + 1, cents |-> spendReq[i].cents]]
        /\ spendReq' = [spendReq EXCEPT ![i].is = "spent"]
        /\ \/ Go("good", i, r) \/ Go("bad", i, r)
           \/ Go("write", i, [r EXCEPT !.status = "uncertain"])
  /\ UNCHANGED <<record, response, lapsed, cred, target>>

\* The response file is on disk before anything is read from it.
SignupSave ==
  /\ job.at \in {"good", "bad"}
  /\ response' = [response EXCEPT ![job.id] = job.at]
  /\ Go("write", job.id, [job.rec EXCEPT !.status = "credential_received"])
  /\ UNCHANGED <<record, spendReq, paid, lapsed, cred, target>>
-----------------------------------------------------------------------------
(* install.                                                                *)

\* A response that does not parse changes only the message; a valid one is checked
\* against the target before the key is verified.
SignupInstall ==
  LET i == job.id  r == job.rec IN
  /\ job.at = "advance" /\ r.status = "credential_received"
  /\ \/ response[i] = "bad" /\ Go("write", i, r)
     \/ response[i] = "good" /\ CheckTarget(r, {KeyOf(i)}) /\ Go("verify", i, r)
  /\ UNCHANGED <<record, response, spendReq, paid, lapsed, cred, target>>

\* verify_signup fails, or the target is checked once more.
SignupVerify ==
  LET i == job.id  r == job.rec IN
  /\ job.at = "verify"
  /\ Go("write", i, r) \/ (CheckTarget(r, {KeyOf(i)}) /\ Go("save", i, r))
  /\ UNCHANGED <<record, response, spendReq, paid, lapsed, cred, target>>

\* tuara::save_key compares the configuration again, not the credential.
SaveKey ==
  LET i == job.id  r == job.rec IN
  /\ job.at = "save" /\ target = r.target
  /\ cred' = KeyOf(i) /\ Go("write", i, [r EXCEPT !.status = "succeeded"])
  /\ UNCHANGED <<record, response, spendReq, paid, lapsed, target>>

\* Receipts::write ends every branch; the write may fail.
SignupWrite ==
  /\ job.at = "write" /\ (Put(job.id, job.rec) \/ UNCHANGED record) /\ Done
  /\ UNCHANGED <<response, spendReq, paid, lapsed, cred, target>>
-----------------------------------------------------------------------------
(* The world.                                                              *)

SignupCrash ==
  /\ job # NoJob /\ Done
  /\ UNCHANGED <<record, response, spendReq, paid, lapsed, cred, target>>

LinkAnswers(i) ==
  /\ \/ spendReq[i].is = "open" /\ \E a \in {"approved", "closed"} :
          spendReq' = [spendReq EXCEPT ![i].is = a]
     \/ spendReq[i].is = "approved" /\ spendReq' = [spendReq EXCEPT ![i].is = "closed"]
  /\ UNCHANGED <<record, response, job, paid, lapsed, cred, target>>

QuoteLapses(i) ==
  /\ i \notin lapsed /\ record[i].cents > 0 /\ lapsed' = lapsed \cup {i}
  /\ UNCHANGED <<record, response, job, spendReq, paid, cred, target>>

OperatorEdits ==
  /\ cred' \in {<<"own">>, <<"other">>, cred} /\ target' \in Targets
  /\ <<cred', target'>> # <<cred, target>>
  /\ UNCHANGED <<record, response, job, spendReq, paid, lapsed>>

SignupAdvance ==
  \/ SignupRefused \/ SignupPrepare \/ SignupExpired \/ SignupSubmit \/ SignupPay
  \/ SignupSave \/ SignupInstall \/ SignupVerify \/ SaveKey \/ SignupWrite
  \/ WalletCancel \/ WalletCreate \/ WalletRetrieve

SignupNext ==
  \/ \E i \in SignupIds :
       \/ \E cap \in Caps, replace \in BOOLEAN : SignupStart(i, cap, replace)
       \/ SignupStatus(i) \/ SignupResume(i) \/ SignupCancel(i)
       \/ LinkAnswers(i) \/ QuoteLapses(i)
  \/ SignupAdvance \/ SignupCrash \/ OperatorEdits

SignupSpec == SignupInit /\ [][SignupNext]_signupVars
-----------------------------------------------------------------------------
SignupTypeOK ==
  /\ record \in [SignupIds -> Record \cup {NoRecord}]
  /\ response \in [SignupIds -> {"none", "good", "bad"}]
  /\ job.at \in {"idle", "advance", "cancel", "expire", "pay", "good", "bad",
                 "verify", "save", "write"}
  /\ job.id \in SignupIds /\ job.rec \in Record \cup {NoRecord}
  /\ spendReq \in [SignupIds -> [is : {"none", "open", "approved", "closed", "spent"},
                                 cents : Nat]]
  /\ paid \in [SignupIds -> [n : Nat, cents : Nat]]
  /\ lapsed \subseteq SignupIds /\ cred \in Creds /\ target \in Targets

\* A signup is charged at most once, and one that ended as failed, cancelled or
\* expired never is: the comment of advance calls the transition to submitting the
\* irreversible boundary.
SignupOrders == INSTANCE Payments WITH
  Orders <- SignupIds,
  charges <- [i \in SignupIds |-> paid[i].n],
  givenUp <- {i \in SignupIds : record[i].status \in GaveUp}
SignupPays == SignupOrders!PaymentsSpec

\* However often the process died or the provider's answer was lost, no more than
\* one signup that was paid for still waits for its key: the scan of start refuses
\* a second one while the first is unresolved, and an uncertain one never resolves
\* by itself.
OnePaidUnsettled ==
  Cardinality({i \in SignupIds : paid[i].n > 0 /\ record[i].status # "succeeded"}) <= 1

\* What was charged is the quote: it covers the credit and the declared fee, is less
\* than a cent above them, and within the total the operator authorized.
ChargeAsQuoted ==
  \A i \in SignupIds : paid[i].n > 0 =>
    /\ paid[i].cents = record[i].cents /\ paid[i].cents <= record[i].cap
    /\ \E p \in FeePoints :
         LET due     == Amount * Unit * Whole + Amount * Unit * p
             charged == paid[i].cents * Unit * Whole
         IN due <= charged /\ charged < due + Unit * Whole

\* The key of a signup is in force only if its payment was answered with it and the
\* answer is on disk, so a crash after the installation can finish it again.
InstalledKeyIsSaved ==
  \A i \in SignupIds : cred = KeyOf(i) =>
    /\ paid[i].n = 1 /\ response[i] = "good"
    /\ record[i].status \in {"submitting", "uncertain", "credential_received", "succeeded"}

\* The invariants together: what every request, crash and retry above must preserve.
SignupInv ==
  /\ SignupTypeOK
  /\ OnePaidUnsettled
  /\ ChargeAsQuoted
  /\ InstalledKeyIsSaved
=============================================================================
