---------------------------- MODULE PaymentsProofs --------------------------
(***************************************************************************)
(* Proofs about what is paid on the operator's behalf: automatic top-ups   *)
(* and paid signup each have an invariant of their own, and both implement *)
(* Payments.                                                               *)
(***************************************************************************)
EXTENDS Topup, Signup, FiniteSetTheorems, TLAPS

(***************************************************************************)
(* Proofs about automatic funding, for every number of attempts, months,   *)
(* quotes, limits and keys: no attempt is posted for payment twice, every  *)
(* posted payment stays on record, and a disabled policy pays nothing.     *)
(*                                                                         *)
(* The policy file and the policy in the memory of a check each have to    *)
(* carry the whole history, since either may become the next policy file:  *)
(* Sound says so of one policy, TopupInv of both.                          *)
(***************************************************************************)
InLedger(i) ==
  [id |-> i, month |-> posted[i].month, cents |-> posted[i].cents] \in ledger
Carries(p, i) ==
  p.pending.id = i /\ p.pending.month = posted[i].month /\ p.pending.cents = posted[i].cents

\* A policy that may be written: its attempt was drawn, is dated once it is
\* submitted, is not paid before that, and every payment outside the ledger is it.
Sound(p) ==
  /\ p.pending = NoAttempt \/ (p.pending.phase # "none" /\ p.pending.id \in drawn)
  /\ p.pending.phase \in {"submitting", "received", "uncertain"} => p.pending.month \in Months
  /\ p.pending.phase \in Unpaid => posted[p.pending.id].n = 0
  /\ \A i \in Attempts : posted[i].n > 0 => InLedger(i) \/ Carries(p, i)

\* From the fsynced transition to the saved answer, file and memory agree.
Committed ==
  check.at \in {"pay", "answered"} =>
    /\ policy = check.pol /\ policy.enabled
    /\ policy.pending.phase = "submitting"
    /\ check.at = "pay" => posted[policy.pending.id].n = 0

TopupInv ==
  /\ TopupTypeOK
  /\ Sound(policy)
  /\ check.at # "idle" => Sound(check.pol)
  /\ Committed
  /\ \A i \in Attempts : posted[i].n <= 1 /\ (i \notin drawn => posted[i].n = 0)
-----------------------------------------------------------------------------
\* NoAttempt, NoPolicy and what With and Clear build have the type of a policy.
LEMMA PolicyTypes ==
  /\ NoAttempt \in Attempt /\ NoPolicy \in Policy
  /\ \A p \in Policy, a \in Attempt : With(p, a) \in Policy /\ With(p, a).pending = a
                                       /\ With(p, a).enabled = p.enabled
                                       /\ With(p, a).limit = p.limit /\ With(p, a).key = p.key
BY TopupAssumption DEF NoAttempt, NoPolicy, Attempt, Policy, Phase, With

\* recover, which every request and every check runs first, keeps a policy sound
\* and changes nothing but a phase that is already past submission.
LEMMA RecoverKeeps ==
  ASSUME NEW p \in Policy, TopupTypeOK, Sound(p)
  PROVE  /\ Recovered(p) \in Policy /\ Sound(Recovered(p))
         /\ Recovered(p).enabled = p.enabled
         /\ Recovered(p).pending.phase \in Unpaid \cup {"none"} => Recovered(p) = p
         /\ Recovered(p).pending.phase = p.pending.phase
              \/ Recovered(p).pending.phase \in {"received", "uncertain"}
PROOF
<1> DEFINE a == p.pending
           f == IF reply[a.id] # "none" THEN "received" ELSE "uncertain"
           b == [a EXCEPT !.phase = f]
<1>0. a \in Attempt /\ f \in {"received", "uncertain"} BY DEF Policy
<1>1. b \in Attempt /\ b.id = a.id /\ b.month = a.month /\ b.cents = a.cents /\ b.phase = f
  <2> HIDE DEF f
  <2> QED BY <1>0 DEF Attempt, Phase
<1>2. CASE a.phase \notin {"submitting", "uncertain"}
  BY <1>2 DEF Recovered
<1>3. CASE a.phase \in {"submitting", "uncertain"}
  <2>1. Recovered(p) = With(p, b) BY <1>3 DEF Recovered
  <2>2. With(p, b) \in Policy /\ With(p, b).pending = b /\ With(p, b).enabled = p.enabled
    BY <1>1, PolicyTypes
  <2>3. Sound(With(p, b))
    <3> HIDE DEF b, f
    <3>1. a # NoAttempt BY <1>3 DEF NoAttempt
    <3> QED BY <1>0, <1>1, <1>3, <2>2, <3>1 DEF Sound, InLedger, Carries, Unpaid
  <2> HIDE DEF b, f
  <2> QED BY <1>0, <1>1, <1>3, <2>1, <2>2, <2>3 DEF Unpaid
<1> QED BY <1>2, <1>3

\* Clearing an attempt that was never paid, or whose payment is in the ledger,
\* loses no payment.
LEMMA ClearKeeps ==
  ASSUME NEW p \in Policy, TopupTypeOK, Sound(p),
         p.pending = NoAttempt \/ p.pending.phase \in Unpaid \/ InLedger(p.pending.id)
  PROVE  Clear(p) \in Policy /\ Sound(Clear(p)) /\ Clear(p).pending = NoAttempt
         /\ Clear(p).enabled = p.enabled
PROOF
<1>1. Clear(p) \in Policy /\ Clear(p).pending = NoAttempt /\ Clear(p).enabled = p.enabled
  BY PolicyTypes DEF Clear
<1>2. ASSUME NEW i \in Attempts, posted[i].n > 0 PROVE InLedger(i)
  <2>1. CASE p.pending = NoAttempt
    BY <1>2, <2>1, TopupAssumption DEF Sound, Carries, NoAttempt
  <2>2. CASE p.pending.phase \in Unpaid
    BY <1>2, <2>2 DEF Sound, Carries
  <2>3. CASE InLedger(p.pending.id)
    BY <1>2, <2>3 DEF Sound, Carries
  <2> QED BY <2>1, <2>2, <2>3
<1>3. Sound(Clear(p))
  <2>1. NoAttempt.phase = "none" BY DEF NoAttempt
  <2> QED BY <1>1, <1>2, <2>1 DEF Sound, Unpaid
<1> QED BY <1>1, <1>3

\* A step that pays nothing, draws nothing and leaves the ledger alone keeps the
\* invariant when both policies it leaves are sound.
LEMMA Unpaying ==
  ASSUME TopupInv,
         NEW x \in Policy, Sound(x), policy' = x,
         NEW y \in [at : {"idle", "advance", "write"}, pol : Policy], check' = y,
         y.at # "idle" => Sound(y.pol),
         UNCHANGED <<ledger, drawn, posted>>,
         reply' \in [Attempts -> {"none", "valid", "invalid"}],
         link' \in [Attempts -> {"none", "open", "approved", "closed"}],
         keyNow' \in Keys, month' \in Months, stale' \subseteq Attempts
  PROVE  TopupInv'
PROOF
<1>1. TopupTypeOK' BY DEF TopupInv, TopupTypeOK
<1>2. Sound(policy)' BY DEF Sound, InLedger, Carries
<1>3. (check.at # "idle" => Sound(check.pol))' BY DEF Sound, InLedger, Carries
<1>4. Committed' BY DEF Committed
<1>5. (\A i \in Attempts : posted[i].n <= 1 /\ (i \notin drawn => posted[i].n = 0))'
  BY DEF TopupInv
<1> QED BY <1>1, <1>2, <1>3, <1>4, <1>5 DEF TopupInv

\* Before the first configure there is no policy and no payment.
LEMMA TopupInitInv == TopupInit => TopupInv
PROOF
<1> SUFFICES ASSUME TopupInit PROVE TopupInv OBVIOUS
<1>1. check.at = "idle" /\ policy.pending = NoAttempt /\ NoAttempt.phase = "none"
  BY DEF TopupInit, Idle, NoPolicy, NoAttempt
<1>2. TopupTypeOK
  BY TopupAssumption, PolicyTypes DEF TopupInit, TopupTypeOK, Idle
<1>3. Sound(policy) BY <1>1 DEF TopupInit, Sound, Unpaid
<1>4. \A i \in Attempts : posted[i].n = 0 BY DEF TopupInit
<1> QED BY <1>1, <1>2, <1>3, <1>4 DEF TopupInv, Committed

\* configure replaces a policy only when no attempt is pending, so it drops no payment.
LEMMA ConfigureKeeps ==
  ASSUME TopupInv, NEW l \in Limits, TopupConfigure(l) PROVE TopupInv'
PROOF
<1> DEFINE q == Recovered(policy)
           n == [enabled |-> TRUE, limit |-> l, key |-> keyNow, pending |-> NoAttempt]
<1>1. q \in Policy /\ Sound(q) BY RecoverKeeps DEF TopupInv, TopupTypeOK
<1>2. n \in Policy BY TopupAssumption, PolicyTypes DEF Policy, TopupInv, TopupTypeOK
<1>3. q.pending = NoAttempt => Sound(n)
  <2>1. Sound(q) => (q.pending = n.pending => Sound(n))
    <3> HIDE DEF q
    <3> QED BY DEF Sound, Carries
  <2> QED BY <1>1, <2>1
<1>4. policy' \in Policy /\ (policy' = q \/ (policy' = n /\ q.pending = NoAttempt))
  BY <1>1, <1>2 DEF TopupConfigure
<1>5. Sound(q) /\ (q.pending = NoAttempt => Sound(n)) BY <1>1, <1>3
<1>6. check = Idle /\ Idle \in [at : {"idle", "advance", "write"}, pol : Policy]
  BY PolicyTypes DEF TopupConfigure, Idle
<1>7. UNCHANGED <<ledger, reply, check, drawn, link, posted, keyNow, month, stale>>
  BY DEF TopupConfigure
<1> HIDE DEF q, n
<1>8. CASE policy' = q
  BY <1>1, <1>6, <1>7, <1>8, Unpaying DEF Idle, TopupInv, TopupTypeOK
<1>9. CASE policy' = n /\ q.pending = NoAttempt
  BY <1>2, <1>3, <1>6, <1>7, <1>9, Unpaying DEF Idle, TopupInv, TopupTypeOK
<1> QED BY <1>4, <1>8, <1>9

\* disable clears an attempt only when it is unpaid.
LEMMA DisableKeeps == ASSUME TopupInv, TopupDisable PROVE TopupInv'
PROOF
<1> DEFINE r == Recovered(policy)
           q == [r EXCEPT !.enabled = FALSE]
<1>1. r \in Policy /\ Sound(r) BY RecoverKeeps DEF TopupInv, TopupTypeOK
<1>2. q \in Policy /\ q.pending = r.pending
  <2> HIDE DEF r
  <2> QED BY <1>1 DEF Policy
<1>3. Sound(q)
  <2> HIDE DEF q, r
  <2> QED BY <1>1, <1>2 DEF Sound, Carries
<1>4. q.pending.phase \in Unpaid => Clear(q) \in Policy /\ Sound(Clear(q))
  BY <1>2, <1>3, ClearKeeps DEF TopupInv
<1>5. policy' = q \/ (policy' = Clear(q) /\ q.pending.phase \in Unpaid)
  BY DEF TopupDisable
<1>6. check = Idle /\ Idle \in [at : {"idle", "advance", "write"}, pol : Policy]
  BY PolicyTypes DEF TopupDisable, Idle
<1>7. link' \in [Attempts -> {"none", "open", "approved", "closed"}]
  BY DEF TopupDisable, Cancelled, CancelFailed, TopupInv, TopupTypeOK
<1>8. UNCHANGED <<ledger, reply, check, drawn, posted, keyNow, month, stale>>
  BY DEF TopupDisable
<1> HIDE DEF q
<1>9. CASE policy' = q
  BY <1>2, <1>3, <1>6, <1>7, <1>8, <1>9, Unpaying DEF Idle, TopupInv, TopupTypeOK
<1>10. CASE policy' = Clear(q) /\ q.pending.phase \in Unpaid
  BY <1>4, <1>6, <1>7, <1>8, <1>10, Unpaying DEF Idle, TopupInv, TopupTypeOK
<1> QED BY <1>5, <1>9, <1>10

\* A check starts from the recovered policy.
LEMMA CheckKeeps == ASSUME TopupInv, TopupCheck PROVE TopupInv'
PROOF
<1>1. Recovered(policy) \in Policy /\ Sound(Recovered(policy))
  BY RecoverKeeps DEF TopupInv, TopupTypeOK
<1> DEFINE y == [at |-> "advance", pol |-> Recovered(policy)]
<1>2. y \in [at : {"idle", "advance", "write"}, pol : Policy] /\ y.pol = Recovered(policy)
  BY <1>1
<1>3. policy' = Recovered(policy) /\ check' = y
      /\ UNCHANGED <<ledger, reply, drawn, link, posted, keyNow, month, stale>>
  BY DEF TopupCheck, At
<1> HIDE DEF y
<1> QED BY <1>1, <1>2, <1>3, Unpaying DEF TopupInv, TopupTypeOK

\* A step of advance that ends with a sound policy in memory, to be written.
LEMMA Advanced ==
  ASSUME TopupInv, NEW p \in Policy, Sound(p), At("write", p),
         UNCHANGED <<policy, ledger, reply, drawn, posted, keyNow, stale>>,
         link' \in [Attempts -> {"none", "open", "approved", "closed"}], month' \in Months
  PROVE  TopupInv'
PROOF
<1> DEFINE y == [at |-> "write", pol |-> p]
<1>1. y \in [at : {"idle", "advance", "write"}, pol : Policy] /\ y.pol = p OBVIOUS
<1>2. check' = y /\ policy' = policy BY DEF At
<1> HIDE DEF y
<1> QED BY <1>1, <1>2, Unpaying DEF TopupInv, TopupTypeOK

\* A check that does nothing writes its policy back.
LEMMA HoldKeeps == ASSUME TopupInv, Hold PROVE TopupInv'
PROOF
<1>1. check.pol \in Policy /\ Sound(check.pol)
  BY DEF Hold, Advancing, TopupInv, TopupTypeOK
<1>2. Recovered(check.pol) \in Policy /\ Sound(Recovered(check.pol))
  BY <1>1, RecoverKeeps DEF TopupInv
<1> QED BY <1>2, Advanced DEF Hold, TopupInv, TopupTypeOK

\* An attempt that is given up is unpaid.
LEMMA GiveUpKeeps == ASSUME TopupInv, GiveUp PROVE TopupInv'
PROOF
<1>1. check.pol \in Policy /\ Sound(check.pol) /\ check.pol.pending.phase \in Unpaid
  BY DEF GiveUp, Funding, Advancing, TopupInv, TopupTypeOK, Unpaid
<1>2. Clear(check.pol) \in Policy /\ Sound(Clear(check.pol))
  BY <1>1, ClearKeeps DEF TopupInv
<1>3. link' \in [Attempts -> {"none", "open", "approved", "closed"}]
  BY DEF GiveUp, Cancelled, CancelFailed, TopupInv, TopupTypeOK
<1>4. At("write", Clear(check.pol)) \/ At("write", check.pol) BY DEF GiveUp
<1> QED BY <1>1, <1>2, <1>3, <1>4, Advanced DEF GiveUp, TopupInv, TopupTypeOK

\* A new phase, date or spend id of an attempt that is not paid keeps a policy
\* sound as long as the attempt stays unpaid or is dated.
LEMMA RewriteKeeps ==
  ASSUME TopupInv, NEW p \in Policy, Sound(p), p.pending.phase \in Unpaid,
         NEW b \in Attempt, b.id = p.pending.id,
         b.phase \in Unpaid \/ (b.phase # "none" /\ b.month \in Months)
  PROVE  With(p, b) \in Policy /\ Sound(With(p, b)) /\ With(p, b).pending = b
         /\ With(p, b).enabled = p.enabled
PROOF
<1>1. With(p, b) \in Policy /\ With(p, b).pending = b /\ With(p, b).enabled = p.enabled
  BY PolicyTypes
<1>2. p.pending # NoAttempt BY DEF NoAttempt, Unpaid
<1>3. p.pending.id \in drawn /\ drawn \subseteq Attempts
  BY <1>2 DEF Sound, TopupInv, TopupTypeOK
<1>4. posted[b.id].n = 0 BY DEF Sound
<1>5. \A i \in Attempts : posted[i].n > 0 => InLedger(i)
  BY <1>3, <1>4 DEF Sound, Carries
<1>6. b.phase # "none" BY DEF Unpaid
<1>7. b.phase \in {"submitting", "received", "uncertain"} => b.month \in Months
  BY DEF Unpaid
<1> QED BY <1>1, <1>3, <1>4, <1>5, <1>6, <1>7 DEF Sound

\* The wallet request moves an unpaid attempt to approval.
LEMMA CreateKeeps == ASSUME TopupInv, Create PROVE TopupInv'
PROOF
<1> DEFINE a == check.pol.pending
           b == [a EXCEPT !.phase = "approval", !.spend = TRUE]
<1>1. check.pol \in Policy /\ Sound(check.pol) /\ a.phase \in Unpaid /\ a \in Attempt
  BY DEF Create, Funding, Advancing, TopupInv, TopupTypeOK, Unpaid, Policy
<1>2. b \in Attempt /\ b.id = a.id /\ b.phase \in Unpaid
  <2> HIDE DEF a
  <2> QED BY <1>1 DEF Attempt, Phase, Unpaid
<1>3. With(check.pol, b) \in Policy /\ Sound(With(check.pol, b))
  <2> HIDE DEF b
  <2> QED BY <1>1, <1>2, RewriteKeeps
<1>4. link' \in [Attempts -> {"none", "open", "approved", "closed"}]
  BY DEF Create, TopupInv, TopupTypeOK
<1>5. At("write", With(check.pol, b)) \/ At("write", check.pol) BY DEF Create
<1> HIDE DEF b
<1> QED BY <1>1, <1>3, <1>4, <1>5, Advanced DEF Create, TopupInv, TopupTypeOK

\* A declined authorization ends an unpaid attempt.
LEMMA DeclinedKeeps == ASSUME TopupInv, Declined PROVE TopupInv'
PROOF
<1> DEFINE c == Clear(check.pol)
           q == [c EXCEPT !.enabled = FALSE]
<1>1. check.pol \in Policy /\ Sound(check.pol) /\ check.pol.pending.phase \in Unpaid
  BY DEF Declined, Funding, Advancing, TopupInv, TopupTypeOK, Unpaid
<1>2. c \in Policy /\ Sound(c) BY <1>1, ClearKeeps DEF TopupInv
<1>3. q \in Policy /\ q.pending = c.pending
  <2> HIDE DEF c
  <2> QED BY <1>2 DEF Policy
<1>4. Sound(q)
  <2> HIDE DEF c, q
  <2> QED BY <1>2, <1>3 DEF Sound, Carries
<1>5. At("write", q) BY DEF Declined
<1> HIDE DEF q
<1> QED BY <1>3, <1>4, <1>5, Advanced DEF Declined, TopupInv, TopupTypeOK

\* finish: what leaves the policy is in the ledger first.
LEMMA FinishKeeps == ASSUME TopupInv, Finish PROVE TopupInv'
PROOF
<1> DEFINE p == check.pol
           a == p.pending
           c == [id |-> a.id, month |-> a.month, cents |-> a.cents]
<1>1. p \in Policy /\ Sound(p) /\ a.phase = "received" /\ a \in Attempt
      /\ policy \in Policy /\ Sound(policy)
  BY DEF Finish, Advancing, TopupInv, TopupTypeOK, Policy
<1>2. CASE ledger' = ledger /\ At("write", p)
  BY <1>1, <1>2, Advanced DEF Finish, TopupInv, TopupTypeOK
<1>3. CASE ledger' = Settled(a) /\ At("write", Clear(p))
  <2>1. ledger' = ledger \cup {c} BY <1>3 DEF Settled
  <2>2. a.id \in Attempts /\ a.month \in Months
    <3>1. a # NoAttempt BY <1>1 DEF NoAttempt
    <3> QED BY <1>1, <3>1 DEF Sound, TopupInv, TopupTypeOK
  <2>3. c \in [id : Attempts, month : Months, cents : Nat]
    BY <1>1, <2>2 DEF Attempt
  <2>4. Clear(p) \in Policy /\ Clear(p).pending = NoAttempt /\ NoAttempt.phase = "none"
    BY <1>1, PolicyTypes DEF Clear, NoAttempt
  <2>5. check' = [at |-> "write", pol |-> Clear(p)] BY <1>3 DEF At
  <2>6. UNCHANGED <<policy, reply, drawn, link, posted, keyNow, month, stale>> BY DEF Finish
  <2>7. \A i \in Attempts : posted[i].n > 0 => InLedger(i)'
    BY <1>1, <2>1, <2>6 DEF Sound, InLedger, Carries
  <2>8. TopupTypeOK'
    BY <2>1, <2>3, <2>4, <2>5, <2>6 DEF TopupInv, TopupTypeOK
  <2>9. Sound(policy)' /\ Sound(check.pol)'
    <3>1. Sound(policy)' BY <1>1, <2>6, <2>7 DEF Sound
    <3>2. Sound(check.pol)'
      <4>1. check'.pol.pending = NoAttempt BY <2>4, <2>5
      <4> QED BY <2>4, <2>6, <2>7, <4>1 DEF Sound, Unpaid
    <3> QED BY <3>1, <3>2
  <2>10. Committed' BY <2>5 DEF Committed
  <2> QED BY <2>6, <2>8, <2>9, <2>10 DEF TopupInv
<1> QED BY <1>2, <1>3 DEF Finish

\* A drawn uuid is new, so nothing was ever posted for it.
LEMMA QuoteKeeps ==
  ASSUME TopupInv, NEW i \in Attempts, NEW q \in Quotes, Quote(i, q) PROVE TopupInv'
PROOF
<1> DEFINE p == check.pol
           b == [id |-> i, cents |-> q, phase |-> "wallet", spend |-> FALSE, month |-> 0]
           x == With(p, b)
<1>1. p \in Policy /\ Sound(p) /\ p.pending.phase = "none"
      /\ policy \in Policy /\ Sound(policy)
  BY DEF Quote, Funding, Advancing, TopupInv, TopupTypeOK
<1>2. b \in Attempt BY TopupAssumption DEF Attempt, Phase
<1>3. x \in Policy /\ x.pending = b BY <1>1, <1>2, PolicyTypes
<1>4. check' = [at |-> "write", pol |-> x] /\ drawn' = drawn \cup {i} /\ i \notin drawn
      /\ UNCHANGED <<policy, ledger, reply, link, posted, keyNow, month, stale>>
  BY DEF Quote, At
<1>5. posted[i].n = 0 BY <1>4 DEF TopupInv
<1>6. \A j \in Attempts : posted[j].n > 0 => InLedger(j)
  BY <1>1, TopupAssumption DEF Sound, Carries, NoAttempt
<1> HIDE DEF x
<1>7. TopupTypeOK' BY <1>3, <1>4 DEF TopupInv, TopupTypeOK
<1>8. Sound(policy)' BY <1>1, <1>4 DEF Sound, InLedger, Carries
<1>9. Sound(check.pol)'
  <2>1. check'.pol.pending = b BY <1>3, <1>4
  <2> QED BY <1>4, <1>5, <1>6, <2>1 DEF Sound, InLedger, Unpaid
<1>10. Committed' BY <1>4 DEF Committed
<1> QED BY <1>4, <1>7, <1>8, <1>9, <1>10 DEF TopupInv

\* The transition before the payment: file and memory say submitting, and the
\* attempt is unpaid.
LEMMA SubmitKeeps ==
  ASSUME TopupInv, NEW m \in Months, Submit(m) PROVE TopupInv'
PROOF
<1> DEFINE p == check.pol
           a == p.pending
           b == [a EXCEPT !.phase = "submitting", !.month = m]
           c == [b EXCEPT !.phase = "uncertain"]
           q == With(p, b)
<1>1. p \in Policy /\ Sound(p) /\ p.enabled /\ a.phase \in Unpaid /\ a \in Attempt
  BY DEF Submit, Funding, Advancing, TopupInv, TopupTypeOK, Unpaid, Policy
<1>2. /\ b \in Attempt /\ b.id = a.id /\ b.phase = "submitting" /\ b.month = m
      /\ c \in Attempt /\ c.id = a.id /\ c.phase = "uncertain" /\ c.month = m
  <2> HIDE DEF a
  <2> QED BY <1>1 DEF Attempt, Phase
<1>3. q \in Policy /\ Sound(q) /\ q.pending = b /\ q.enabled
  <2> HIDE DEF b
  <2> QED BY <1>1, <1>2, RewriteKeeps
<1>4. With(p, c) \in Policy /\ Sound(With(p, c))
  <2> HIDE DEF b, c
  <2> QED BY <1>1, <1>2, RewriteKeeps
<1>5. Uncertain(q) = With(p, c)
  <2>1. Uncertain(q) = With(q, c) BY <1>3 DEF Uncertain
  <2>2. With(q, c) = With(p, c)
    <3> HIDE DEF b, c
    <3> QED BY <1>1, <1>2 DEF With, Policy
  <2> QED BY <2>1, <2>2
<1>6. /\ \/ policy' = q /\ check' = [at |-> "pay", pol |-> q]
         \/ policy' = policy /\ At("write", Uncertain(q))
      /\ month' = m /\ UNCHANGED <<ledger, reply, drawn, link, posted, keyNow, stale>>
  BY DEF Submit, SubmitWrite, At
<1>7. CASE policy' = policy /\ At("write", Uncertain(q))
  <2> HIDE DEF q, c
  <2> QED BY <1>4, <1>5, <1>6, <1>7, Advanced DEF TopupInv, TopupTypeOK
<1>8. CASE policy' = q /\ check' = [at |-> "pay", pol |-> q]
  <2>1. posted[q.pending.id].n = 0
    <3>1. posted[a.id].n = 0 BY <1>1 DEF Sound
    <3> HIDE DEF q, b
    <3> QED BY <1>2, <1>3, <3>1
  <2>2. q.pending.phase = "submitting" BY <1>2, <1>3
  <2> HIDE DEF q
  <2>3. TopupTypeOK' BY <1>3, <1>6, <1>8 DEF TopupInv, TopupTypeOK
  <2>4. Sound(policy)' BY <1>3, <1>6, <1>8 DEF Sound, InLedger, Carries
  <2>5. Sound(check.pol)' BY <1>3, <1>6, <1>8 DEF Sound, InLedger, Carries
  <2>6. Committed' BY <1>3, <1>6, <1>8, <2>1, <2>2 DEF Committed
  <2> QED BY <1>6, <2>3, <2>4, <2>5, <2>6 DEF TopupInv
<1> QED BY <1>6, <1>7, <1>8

\* The payment: the first for its attempt, and the attempt carries it.
LEMMA PayKeeps == ASSUME TopupInv, Pay PROVE TopupInv'
PROOF
<1> DEFINE p == check.pol
           a == p.pending
           b == [a EXCEPT !.phase = "uncertain"]
           u == Uncertain(p)
<1>1. p \in Policy /\ a \in Attempt /\ Sound(p) /\ policy = p /\ policy.enabled
      /\ a.phase = "submitting" /\ posted[a.id].n = 0
  BY DEF Pay, TopupInv, TopupTypeOK, Committed, Policy
<1>2. a.id \in drawn /\ a.id \in Attempts /\ a.month \in Months /\ a.cents \in Nat
  <2>1. a # NoAttempt BY <1>1 DEF NoAttempt
  <2> QED BY <1>1, <2>1 DEF Sound, TopupInv, TopupTypeOK, Attempt
<1>3. u \in Policy /\ u.pending = b /\ b \in Attempt /\ b.id = a.id /\ b.month = a.month
      /\ b.cents = a.cents /\ b.phase = "uncertain"
  <2>1. b \in Attempt /\ b.id = a.id /\ b.month = a.month
        /\ b.cents = a.cents /\ b.phase = "uncertain"
    <3> HIDE DEF a
    <3> QED BY <1>1 DEF Attempt, Phase
  <2>2. u = With(p, b) BY DEF Uncertain
  <2> HIDE DEF b, u
  <2> QED BY <1>1, <2>1, <2>2, PolicyTypes
<1>4. Sound(u)
  <2>1. a # NoAttempt BY <1>1 DEF NoAttempt
  <2> HIDE DEF b, u
  <2> QED BY <1>1, <1>2, <1>3, <2>1 DEF Sound, Carries, Unpaid
<1>5. UNCHANGED <<policy, ledger, reply, drawn, keyNow, month, stale>> BY DEF Pay
<1>6. CASE UNCHANGED <<posted, link>> /\ At("write", u)
  <2> HIDE DEF u
  <2> QED BY <1>3, <1>4, <1>5, <1>6, Advanced DEF TopupInv, TopupTypeOK
<1>7. ASSUME posted' = [posted EXCEPT ![a.id] = [n |-> posted[a.id].n + 1, month |-> a.month,
                                                cents |-> a.cents]],
             link' \in {link, [link EXCEPT ![a.id] = "closed"]},
             At("answered", p) \/ At("write", u)
      PROVE  TopupInv'
  <2>1. posted'[a.id] = [n |-> 1, month |-> a.month, cents |-> a.cents]
        /\ \A i \in Attempts : i # a.id => posted'[i] = posted[i]
    BY <1>1, <1>2, <1>7 DEF TopupInv, TopupTypeOK
  <2>2. \A i \in Attempts : i # a.id /\ posted[i].n > 0 => InLedger(i)
    BY <1>1 DEF Sound, Carries
  <2>3. \A i \in Attempts : posted'[i].n > 0 => i = a.id \/ InLedger(i)'
    BY <1>5, <2>1, <2>2 DEF InLedger
  <2>4. \A x \in Policy : x.pending.id = a.id /\ x.pending.month = a.month
              /\ x.pending.cents = a.cents =>
                \A i \in Attempts : posted'[i].n > 0 =>
                  \/ InLedger(i)'
                  \/ /\ x.pending.id = i /\ x.pending.month = posted'[i].month
                     /\ x.pending.cents = posted'[i].cents
    BY <2>1, <2>3
  <2>5. /\ policy' = p
        /\ \/ check'.pol = p /\ check'.at = "answered"
           \/ check'.pol = u /\ check'.at = "write"
        /\ check' \in [at : {"idle", "advance", "pay", "answered", "write"}, pol : Policy]
    <3> HIDE DEF u
    <3> QED BY <1>1, <1>3, <1>5, <1>7 DEF At
  <2>6. TopupTypeOK'
    <3>1. posted' \in [Attempts -> [n : Nat, month : Months \cup {0}, cents : Nat]]
      BY <1>1, <1>2, <1>7 DEF TopupInv, TopupTypeOK
    <3>2. link' \in [Attempts -> {"none", "open", "approved", "closed"}]
      BY <1>7 DEF TopupInv, TopupTypeOK
    <3> QED BY <1>5, <2>5, <3>1, <3>2 DEF TopupInv, TopupTypeOK
  <2>7. a # NoAttempt /\ b # NoAttempt BY <1>1, <1>3 DEF NoAttempt
  <2>8. Sound(policy)'
    <3>1. policy'.pending = a BY <2>5
    <3> HIDE DEF a
    <3> QED BY <1>1, <1>2, <1>5, <2>4, <2>5, <3>1 DEF Sound, Carries, Unpaid
  <2>9. Sound(check.pol)'
    <3>1. CASE check'.pol = p
      <4>1. check'.pol.pending = a BY <3>1
      <4> HIDE DEF a
      <4> QED BY <1>1, <1>2, <1>5, <2>4, <3>1, <4>1 DEF Sound, Carries, Unpaid
    <3>2. CASE check'.pol = u
      <4>1. check'.pol.pending = b BY <1>3, <3>2
      <4> HIDE DEF u, b
      <4> QED BY <1>2, <1>3, <1>5, <2>4, <3>2, <4>1 DEF Sound, Carries, Unpaid
    <3> QED BY <2>5, <3>1, <3>2
  <2>10. Committed'
    <3> HIDE DEF u
    <3> QED BY <1>1, <2>5 DEF Committed
  <2>11. (\A i \in Attempts : posted[i].n <= 1 /\ (i \notin drawn => posted[i].n = 0))'
    BY <1>2, <1>5, <2>1 DEF TopupInv
  <2> QED BY <2>6, <2>8, <2>9, <2>10, <2>11 DEF TopupInv
<1> QED BY <1>6, <1>7 DEF Pay, Posted, Consumed

\* Saving the answer, or failing to, leaves the attempt with its payment.
LEMMA SaveReplyKeeps ==
  ASSUME TopupInv, NEW v \in {"valid", "invalid"}, SaveReply(v) PROVE TopupInv'
PROOF
<1> DEFINE p == check.pol
           a == p.pending
           r == [a EXCEPT !.phase = "received"]
           u == [a EXCEPT !.phase = "uncertain"]
<1>1. p \in Policy /\ Sound(p) /\ a.phase = "submitting" /\ a \in Attempt
  BY DEF SaveReply, TopupInv, TopupTypeOK, Committed, Policy
<1>2. ASSUME NEW f \in {"received", "uncertain"}
      PROVE  /\ With(p, [a EXCEPT !.phase = f]) \in Policy
             /\ Sound(With(p, [a EXCEPT !.phase = f]))
  <2> DEFINE b == [a EXCEPT !.phase = f]
  <2>1. b \in Attempt /\ b.id = a.id /\ b.month = a.month /\ b.cents = a.cents /\ b.phase = f
    <3> HIDE DEF a
    <3> QED BY <1>1 DEF Attempt, Phase
  <2>2. With(p, b) \in Policy /\ With(p, b).pending = b
    <3> HIDE DEF b
    <3> QED BY <1>1, <2>1, PolicyTypes
  <2>3. a # NoAttempt BY <1>1 DEF NoAttempt
  <2>4. Sound(With(p, b))
    <3> HIDE DEF b
    <3> QED BY <1>1, <2>1, <2>2, <2>3 DEF Sound, Carries, Unpaid
  <2> QED BY <2>2, <2>4
<1>3. /\ With(p, r) \in Policy /\ Sound(With(p, r))
      /\ With(p, u) \in Policy /\ Sound(With(p, u))
  BY <1>2
<1>4. \/ check' = [at |-> "write", pol |-> With(p, r)]
      \/ check' = [at |-> "write", pol |-> With(p, u)]
  BY DEF SaveReply, At, Uncertain
<1>5. reply' \in [Attempts -> {"none", "valid", "invalid"}]
  BY DEF SaveReply, TopupInv, TopupTypeOK
<1>6. UNCHANGED <<policy, ledger, drawn, link, posted, keyNow, month, stale>>
  BY DEF SaveReply
<1>7. policy \in Policy /\ Sound(policy) BY DEF TopupInv, TopupTypeOK
<1> HIDE DEF r, u
<1>8. ASSUME NEW x \in Policy, Sound(x), check' = [at |-> "write", pol |-> x] PROVE TopupInv'
  <2> DEFINE y == [at |-> "write", pol |-> x]
  <2>1. y \in [at : {"idle", "advance", "write"}, pol : Policy] /\ y.pol = x BY <1>8
  <2>2. check' = y /\ policy' = policy BY <1>6, <1>8
  <2> HIDE DEF y
  <2> QED BY <1>5, <1>6, <1>7, <1>8, <2>1, <2>2, Unpaying DEF TopupInv, TopupTypeOK
<1> QED BY <1>3, <1>4, <1>8

\* A check ends with its policy written, or dies and leaves the file as it is.
LEMMA EndKeeps == ASSUME TopupInv, WritePolicy \/ TopupCrash PROVE TopupInv'
PROOF
<1>1. Idle \in [at : {"idle", "advance", "write"}, pol : Policy] /\ Idle.at = "idle"
  BY PolicyTypes DEF Idle
<1>2. CASE WritePolicy
  <2>1. check.pol \in Policy /\ Sound(check.pol)
    BY <1>2 DEF WritePolicy, TopupInv, TopupTypeOK
  <2> QED BY <1>1, <1>2, <2>1, Unpaying DEF WritePolicy, TopupInv, TopupTypeOK
<1>3. CASE TopupCrash
  BY <1>1, <1>3, Unpaying DEF TopupCrash, TopupInv, TopupTypeOK
<1> QED BY <1>2, <1>3

\* The wallet, the clock and the key change no file and no memory.
LEMMA WorldKeeps == ASSUME TopupInv, TopupWorld PROVE TopupInv'
PROOF
<1>1. UNCHANGED <<policy, ledger, reply, check, drawn, posted>>
  BY DEF TopupWorld, Approve, Decline, Expire, NextMonth, Rotate
<1>2. /\ link' \in [Attempts -> {"none", "open", "approved", "closed"}]
      /\ keyNow' \in Keys /\ month' \in Months /\ stale' \subseteq Attempts
  BY DEF TopupWorld, Approve, Decline, Expire, NextMonth, Rotate, TopupInv, TopupTypeOK
<1> QED BY <1>1, <1>2 DEF TopupInv, TopupTypeOK, Sound, Committed, InLedger, Carries

\* Every step keeps the invariant.
LEMMA TopupStep == TopupInv /\ [TopupNext]_topupVars => TopupInv'
PROOF
<1> SUFFICES ASSUME TopupInv, [TopupNext]_topupVars PROVE TopupInv' OBVIOUS
<1>1. CASE UNCHANGED topupVars
  BY <1>1 DEF topupVars, TopupInv, TopupTypeOK, Sound, Committed, InLedger, Carries
<1>2. CASE TopupAdvance
  BY <1>2, FinishKeeps, HoldKeeps, GiveUpKeeps, CreateKeeps, DeclinedKeeps, PayKeeps,
     QuoteKeeps, SubmitKeeps, SaveReplyKeeps, EndKeeps DEF TopupAdvance
<1> QED
  BY <1>1, <1>2, ConfigureKeeps, DisableKeeps, CheckKeeps, EndKeeps, WorldKeeps DEF TopupNext

\* The inductive invariant of automatic funding.
THEOREM TopupSafe == TopupSpec => []TopupInv
  BY TopupInitInv, TopupStep, PTL DEF TopupSpec

\* No attempt is posted for payment twice, for any number of attempts, crashes
\* and lost replies.
THEOREM TopupPaysOnce == TopupSpec => []NeverPaidTwice
PROOF
<1>1. TopupInv => NeverPaidTwice BY DEF TopupInv, NeverPaidTwice
<1> QED BY <1>1, TopupSafe, PTL

\* Every payment that was posted is in the ledger or is the pending attempt.
THEOREM TopupAccounts == TopupSpec => []PaymentsAccounted
PROOF
<1>1. TopupInv => PaymentsAccounted
  BY DEF TopupInv, Sound, InLedger, Carries, PaymentsAccounted
<1> QED BY <1>1, TopupSafe, PTL

\* A disabled policy pays nothing.
THEOREM TopupDisabledPaysNothing == TopupSpec => DisabledNeverPays
PROOF
<1>1. TopupInv /\ [TopupNext]_topupVars => [posted' # posted => policy.enabled]_topupVars
  <2> SUFFICES ASSUME TopupInv, TopupNext, posted' # posted PROVE policy.enabled
    BY DEF topupVars
  <2>1. Pay
    BY DEF TopupNext, TopupConfigure, TopupDisable, TopupCheck, TopupAdvance, TopupCrash,
       TopupWorld, Finish, Hold, GiveUp, Create, Declined, Quote, Submit, SaveReply,
       WritePolicy, Approve, Decline, Expire, NextMonth, Rotate
  <2> QED BY <2>1 DEF Pay, TopupInv, Committed
<1> QED BY <1>1, TopupSafe, PTL DEF TopupSpec, DisabledNeverPays
-----------------------------------------------------------------------------
(* Payments: the attempts of the two policies are the orders under way, and *)
(* only a drawn attempt joins them.                                         *)

Held == {policy.pending.id, check.pol.pending.id, 0}

\* The attempt of a policy that was recovered, rewritten or cleared.
LEMMA PendingIds ==
  /\ \A p \in Policy : Recovered(p).pending.id = p.pending.id /\ Clear(p).pending.id = 0
  /\ \A p \in Policy : Uncertain(p).pending.id = p.pending.id
PROOF
<1>1. ASSUME NEW p \in Policy, NEW f \in Phase
      PROVE  With(p, [p.pending EXCEPT !.phase = f]).pending.id = p.pending.id
  <2>1. p.pending \in Attempt BY DEF Policy
  <2>2. [p.pending EXCEPT !.phase = f] \in Attempt /\ [p.pending EXCEPT !.phase = f].id = p.pending.id
    BY <2>1 DEF Attempt
  <2> QED BY <2>2, PolicyTypes
<1>2. ASSUME NEW p \in Policy PROVE Recovered(p).pending.id = p.pending.id
  BY <1>1 DEF Recovered, Phase
<1>3. ASSUME NEW p \in Policy PROVE Clear(p).pending.id = 0
  BY PolicyTypes DEF Clear, NoAttempt
<1>4. ASSUME NEW p \in Policy PROVE Uncertain(p).pending.id = p.pending.id
  BY <1>1 DEF Uncertain, Phase
<1> QED BY <1>2, <1>3, <1>4

\* Outside a draw neither policy takes up another attempt.
LEMMA HeldKeeps ==
  ASSUME TopupInv, TopupNext
  PROVE  /\ policy'.pending.id \in Held \cup (drawn' \ drawn)
         /\ check'.pol.pending.id \in Held \cup (drawn' \ drawn)
PROOF
<1> DEFINE H == Held \cup (drawn' \ drawn)
           Good == policy'.pending.id \in H /\ check'.pol.pending.id \in H
<1>0. /\ policy \in Policy /\ check.pol \in Policy
      /\ policy.pending \in Attempt /\ check.pol.pending \in Attempt
      /\ Idle.pol.pending.id = 0
  BY DEF TopupInv, TopupTypeOK, Policy, Idle, NoPolicy, NoAttempt
<1> USE DEF Held
<1>1. ASSUME NEW l \in Limits, TopupConfigure(l) PROVE Good
  <2>1. check' = check BY <1>1 DEF TopupConfigure
  <2>2. policy' = Recovered(policy) \/ policy'.pending = NoAttempt BY <1>1 DEF TopupConfigure
  <2> QED BY <1>0, <2>1, <2>2, PendingIds DEF NoAttempt
<1>2. CASE TopupDisable
  <2> DEFINE r == Recovered(policy)
             q == [r EXCEPT !.enabled = FALSE]
  <2>1. r \in Policy /\ r.pending.id = policy.pending.id
    BY <1>0, RecoverKeeps, PendingIds DEF TopupInv
  <2>2. q \in Policy /\ q.pending.id = policy.pending.id
    <3> HIDE DEF r
    <3> QED BY <2>1 DEF Policy
  <2>3. check' = check /\ (policy' = q \/ policy' = Clear(q)) BY <1>2 DEF TopupDisable
  <2> HIDE DEF q
  <2> QED BY <2>2, <2>3, PendingIds
<1>3. CASE TopupCheck
  <2>1. policy' = Recovered(policy) /\ check'.pol = Recovered(policy) BY <1>3 DEF TopupCheck, At
  <2> QED BY <1>0, <2>1, PendingIds
<1>4. CASE TopupAdvance
  <2>1. CASE Finish
    <3>1. policy' = policy /\ (check'.pol = check.pol \/ check'.pol = Clear(check.pol))
      BY <2>1 DEF Finish, At
    <3> QED BY <1>0, <3>1, PendingIds
  <2>2. CASE Hold
    <3>1. policy' = policy /\ check'.pol = Recovered(check.pol) BY <2>2 DEF Hold, At
    <3> QED BY <1>0, <3>1, PendingIds
  <2>3. CASE GiveUp
    <3>1. policy' = policy /\ (check'.pol = check.pol \/ check'.pol = Clear(check.pol))
      BY <2>3 DEF GiveUp, At
    <3> QED BY <1>0, <3>1, PendingIds
  <2>4. CASE Create
    <3> DEFINE a == check.pol.pending
               b == [a EXCEPT !.phase = "approval", !.spend = TRUE]
    <3>1. b \in Attempt /\ b.id = a.id BY <1>0 DEF Attempt, Phase
    <3>2. policy' = policy /\ (check'.pol = check.pol \/ check'.pol = With(check.pol, b))
      BY <2>4 DEF Create, At
    <3> HIDE DEF b
    <3>3. With(check.pol, b).pending = b BY <1>0, <3>1, PolicyTypes
    <3> QED BY <3>1, <3>2, <3>3
  <2>5. CASE Declined
    <3> DEFINE c == Clear(check.pol)
               q == [c EXCEPT !.enabled = FALSE]
    <3>1. c \in Policy /\ c.pending.id = 0 BY <1>0, PolicyTypes, PendingIds DEF Clear
    <3>2. q.pending.id = 0
      <4> HIDE DEF c
      <4> QED BY <3>1 DEF Policy
    <3>3. policy' = policy /\ check'.pol = q BY <2>5 DEF Declined, At
    <3> QED BY <3>2, <3>3
  <2>6. CASE Pay
    <3>1. policy' = policy /\ (check'.pol = check.pol \/ check'.pol = Uncertain(check.pol))
      BY <2>6 DEF Pay, At
    <3> QED BY <1>0, <3>1, PendingIds
  <2>7. ASSUME NEW i \in Attempts, NEW c \in Quotes, Quote(i, c) PROVE Good
    <3> DEFINE b == [id |-> i, cents |-> c, phase |-> "wallet", spend |-> FALSE, month |-> 0]
    <3>1. b \in Attempt /\ b.id = i BY TopupAssumption DEF Attempt, Phase
    <3>2. policy' = policy /\ check'.pol = With(check.pol, b) /\ i \in drawn' \ drawn
      BY <2>7 DEF Quote, At
    <3> HIDE DEF b
    <3>3. With(check.pol, b).pending = b BY <1>0, <3>1, PolicyTypes
    <3> QED BY <3>1, <3>2, <3>3
  <2>8. ASSUME NEW m \in Months, Submit(m) PROVE Good
    <3> DEFINE a == check.pol.pending
               b == [a EXCEPT !.phase = "submitting", !.month = m]
               q == With(check.pol, b)
    <3>1. b \in Attempt /\ b.id = a.id BY <1>0 DEF Attempt, Phase
    <3>2. q \in Policy /\ q.pending.id = a.id
      <4> HIDE DEF b
      <4> QED BY <1>0, <3>1, PolicyTypes
    <3>3. SubmitWrite(q) BY <2>8 DEF Submit
    <3> HIDE DEF q
    <3>4. /\ policy' = q \/ policy' = policy
          /\ check'.pol = q \/ check'.pol = Uncertain(q)
      BY <3>3 DEF SubmitWrite, At
    <3> QED BY <3>2, <3>4, PendingIds
  <2>9. ASSUME NEW v \in {"valid", "invalid"}, SaveReply(v) PROVE Good
    <3> DEFINE a == check.pol.pending
               b == [a EXCEPT !.phase = "received"]
    <3>1. b \in Attempt /\ b.id = a.id BY <1>0 DEF Attempt, Phase
    <3>2. policy' = policy /\ (check'.pol = With(check.pol, b) \/ check'.pol = Uncertain(check.pol))
      BY <2>9 DEF SaveReply, At
    <3> HIDE DEF b
    <3>3. With(check.pol, b).pending = b BY <1>0, <3>1, PolicyTypes
    <3> QED BY <1>0, <3>1, <3>2, <3>3, PendingIds
  <2>10. CASE WritePolicy
    <3>1. policy' = check.pol /\ check' = Idle BY <2>10 DEF WritePolicy
    <3> QED BY <1>0, <3>1
  <2> QED
    BY <1>4, <2>1, <2>2, <2>3, <2>4, <2>5, <2>6, <2>7, <2>8, <2>9, <2>10 DEF TopupAdvance
<1>5. CASE TopupCrash
  <2>1. policy' = policy /\ check' = Idle BY <1>5 DEF TopupCrash
  <2> QED BY <1>0, <2>1
<1>6. CASE TopupWorld
  <2>1. UNCHANGED <<policy, check>>
    BY <1>6 DEF TopupWorld, Approve, Decline, Expire, NextMonth, Rotate
  <2> QED BY <2>1
<1> QED BY <1>1, <1>2, <1>3, <1>4, <1>5, <1>6 DEF TopupNext

\* Only Pay posts, once, for the attempt that file and memory agree on.
LEMMA PostsOnce ==
  ASSUME TopupInv, TopupNext
  PROVE  \/ posted' = posted
         \/ \E i \in Attempts : /\ i = policy.pending.id /\ posted[i].n = 0
                                /\ posted'[i].n = 1 /\ UNCHANGED <<policy, drawn>>
                                /\ \A j \in Attempts \ {i} : posted'[j] = posted[j]
                               /\ check.pol.pending.id = i /\ check'.pol.pending.id = i
PROOF
<1>1. posted' = posted \/ Pay
  BY DEF TopupNext, TopupConfigure, TopupDisable, TopupCheck, TopupAdvance, TopupCrash,
     TopupWorld, Finish, Hold, GiveUp, Create, Declined, Quote, Submit, SaveReply,
     WritePolicy, Approve, Decline, Expire, NextMonth, Rotate
<1>2. ASSUME Pay, Posted(check.pol.pending)
      PROVE  \E i \in Attempts : /\ i = policy.pending.id /\ posted[i].n = 0
                                 /\ posted'[i].n = 1 /\ UNCHANGED <<policy, drawn>>
                                 /\ \A j \in Attempts \ {i} : posted'[j] = posted[j]
                               /\ check.pol.pending.id = i /\ check'.pol.pending.id = i
  <2> DEFINE i == check.pol.pending.id
  <2>1. /\ policy = check.pol /\ check.pol \in Policy /\ check.at = "pay"
        /\ check.pol.pending.phase = "submitting" /\ posted[i].n = 0
    BY <1>2 DEF Pay, Committed, TopupInv, TopupTypeOK
  <2>2. i \in Attempts
    BY <2>1 DEF TopupInv, TopupTypeOK, Sound, NoAttempt
  <2>3. posted'[i].n = 1 /\ \A j \in Attempts \ {i} : posted'[j] = posted[j]
    BY <1>2, <2>1, <2>2 DEF Posted, TopupInv, TopupTypeOK
  <2>4. UNCHANGED <<policy, drawn>> /\ (check'.pol = check.pol \/ check'.pol = Uncertain(check.pol))
    BY <1>2 DEF Pay, At
  <2>5. check'.pol.pending.id = i
    BY <2>1, <2>4, PendingIds
  <2> QED BY <2>1, <2>2, <2>3, <2>4, <2>5
<1> QED BY <1>1, <1>2 DEF Pay

\* Automatic funding implements Payments: an attempt is charged at most once, and
\* never after it was given up.
THEOREM TopupImplementsPayments == TopupSpec => TopupPays
PROOF
<1> DEFINE sent == [i \in Attempts |-> posted[i].n]
<1>1. TopupInit => TopupOrders!PaymentsInit
  BY DEF TopupInit, TopupOrders!PaymentsInit, Forgotten
<1>2. TopupInv /\ [TopupNext]_topupVars => [TopupOrders!PaymentsNext]_(TopupOrders!paymentVars)
  <2> SUFFICES ASSUME TopupInv, TopupNext
               PROVE  TopupOrders!PaymentsNext
    BY DEF topupVars, TopupOrders!paymentVars, Forgotten
  <2>0. drawn \subseteq drawn' /\ drawn' \subseteq Attempts
    BY TopupStep DEF TopupInv, TopupTypeOK, TopupNext, TopupConfigure, TopupDisable, TopupCheck,
       TopupAdvance, TopupCrash, TopupWorld, Finish, Hold, GiveUp, Create, Declined, Quote,
       Submit, SaveReply, WritePolicy, Pay, Approve, Decline, Expire, NextMonth, Rotate
  <2>1. CASE posted' = posted
    <3>1. sent' = sent
      BY <2>1
    <3>2. Forgotten \subseteq Forgotten'
      BY <2>0, <2>1, HeldKeeps, TopupAssumption DEF Forgotten, Held
    <3>3. Forgotten' \subseteq Attempts /\ \A i \in Forgotten' : sent[i] = 0
      BY <2>0, <2>1 DEF Forgotten
    <3> QED BY <3>1, <3>2, <3>3 DEF TopupOrders!PaymentsNext, TopupOrders!GiveUpOrders
  <2>2. CASE posted' # posted
    <3>0. PICK i \in Attempts : /\ i = policy.pending.id /\ posted[i].n = 0
                                /\ posted'[i].n = 1 /\ UNCHANGED <<policy, drawn>>
                                /\ \A j \in Attempts \ {i} : posted'[j] = posted[j]
                               /\ check.pol.pending.id = i /\ check'.pol.pending.id = i
      BY <2>2, PostsOnce
    <3>1. sent[i] = 0 /\ i \notin Forgotten /\ sent' = [sent EXCEPT ![i] = 1]
      BY <3>0 DEF Forgotten
    <3>2. Forgotten' = Forgotten
      BY <2>0, <3>0 DEF Forgotten
    <3>3. TopupOrders!Charge(i)
      BY <3>1, <3>2 DEF TopupOrders!Charge
    <3> QED BY <3>3 DEF TopupOrders!PaymentsNext
  <2> QED BY <2>1, <2>2
<1> QED BY <1>1, <1>2, TopupSafe, PTL DEF TopupSpec, TopupPays, TopupOrders!PaymentsSpec
-----------------------------------------------------------------------------
(***************************************************************************)
(* Proofs about Signup. The inductive invariant says how far the request   *)
(* in memory may be ahead of the record on disk, what a payment, a saved   *)
(* response and an installed key leave in the record for ever, and that    *)
(* one signup at most is unresolved.                                       *)
(***************************************************************************)
\* Places of a request at which its record in memory is the one on disk.
InStep == {"advance", "cancel", "expire", "pay", "good", "bad", "verify", "save"}
Quoted == {"awaiting_wallet", "awaiting_approval", "submitting", "uncertain",
           "credential_received", "succeeded"}
MayBePaid == {"submitting", "uncertain", "credential_received", "succeeded"}
Answered == {"credential_received", "succeeded"}

\* The status at each place of a request.
Fits(w, st) ==
  /\ w = "advance" => st \in Unsent \cup {"credential_received"}
  /\ w = "cancel" => st \in Unsent \cup {"cancelled"}
  /\ w = "expire" => st \in {"awaiting_wallet", "awaiting_approval"}
  /\ w \in {"pay", "good", "bad"} => st = "submitting"
  /\ w \in {"verify", "save"} => st = "credential_received"

\* The last write of a request takes the status on disk from a to b.
Writes(a, b) ==
  \/ a \in Unsent /\ b \in Unsent \cup GaveUp /\ (b = "preparing" => a = "preparing")
  \/ a = "cancelled" /\ b = "cancelled"
  \/ a \in {"submitting", "credential_received"} /\ b = "credential_received"
  \/ a = "submitting" /\ b = "uncertain"
  \/ a = "credential_received" /\ b = "succeeded"

JobAgrees ==
  /\ job.at = "idle" => job = NoJob
  /\ job.at # "idle" => job.rec \in Record /\ Fits(job.at, job.rec.status)
  /\ job.at \in InStep => record[job.id] = job.rec
  /\ job.at = "write" =>
       /\ Writes(record[job.id].status, job.rec.status)
       /\ record[job.id].status # "preparing" =>
            job.rec.cents = record[job.id].cents /\ job.rec.cap = record[job.id].cap

\* How a record and the money agree.
PaidAsRecorded ==
  \A i \in SignupIds :
    /\ paid[i].n \in {0, 1}
    /\ paid[i].n = 1 => record[i].status \in MayBePaid
    /\ response[i] # "none" => paid[i].n = 1
    /\ record[i].status \in Answered => response[i] # "none"
AtPay ==
  /\ job.at = "pay" => paid[job.id].n = 0
  /\ job.at \in {"good", "bad"} => paid[job.id].n = 1
  /\ job.at \in {"pay", "good", "bad"} => response[job.id] = "none"
  /\ job.at \in {"verify", "save"} => response[job.id] = "good"
  /\ job.at = "write" /\ job.rec.status \in Answered => response[job.id] # "none"
  /\ job.at = "write" /\ job.rec.status = "succeeded" => response[job.id] = "good"

\* What is authorized and charged is the quote.
QuoteOf(r) == r.cents <= r.cap /\ \E p \in FeePoints : r.cents = ChargeCents(p)
QuoteKept ==
  /\ \A i \in SignupIds :
       /\ record[i].status \in Quoted => QuoteOf(record[i])
       /\ spendReq[i].is # "none" =>
            spendReq[i].cents = record[i].cents /\ record[i].status \notin {"absent", "preparing"}
       /\ paid[i].n = 1 => paid[i].cents = record[i].cents
  /\ job.at # "idle" /\ job.rec.status \in Quoted => QuoteOf(job.rec)
  /\ job.at = "pay" => spendReq[job.id].is # "none"

\* One signup at most is unresolved.
OneOpen ==
  \A i, j \in SignupIds :
    /\ record[i].status \notin Terminal \cup {"absent"}
    /\ record[j].status \notin Terminal \cup {"absent"}
    => i = j

SignupSafeInv ==
  /\ SignupTypeOK /\ JobAgrees /\ PaidAsRecorded /\ AtPay /\ QuoteKept
  /\ OneOpen /\ InstalledKeyIsSaved
-----------------------------------------------------------------------------
\* The operators on records and jobs, so that the steps below need not expand them.
LEMMA RecordWith ==
  ASSUME NEW r \in Record, NEW st \in SStatus
  PROVE  LET q == [r EXCEPT !.status = st] IN
           q \in Record /\ q.status = st /\ q.cents = r.cents /\ q.cap = r.cap
BY DEF Record

\* What recover makes of a record.
LEMMA RecoveredIs ==
  ASSUME SignupTypeOK, NEW i \in SignupIds, record[i] # NoRecord
  PROVE  LET r == SignupRecovered(i) IN
           /\ r \in Record /\ record[i] \in Record
           /\ r = [record[i] EXCEPT !.status = r.status]
           /\ r.cents = record[i].cents /\ r.cap = record[i].cap
           /\ \/ r = record[i] /\ r.status \notin {"submitting", "uncertain"}
              \/ /\ record[i].status \in {"submitting", "uncertain"}
                 /\ r.status = IF response[i] = "none" THEN "uncertain" ELSE "credential_received"
<1>1. record[i] \in Record
  BY DEF SignupTypeOK
<1> QED
  BY <1>1 DEF SignupRecovered, Record, SStatus, Unsent, Terminal, GaveUp

-----------------------------------------------------------------------------
(* What each step of a request does to it, without the form of the record. *)

Rest == <<record, response, spendReq, paid, lapsed, cred, target>>
Moved(w, st) ==
  /\ job'.at = w /\ job'.id = job.id /\ job'.rec \in Record /\ job'.rec.status = st
  /\ job'.rec.cents = job.rec.cents /\ job'.rec.cap = job.rec.cap
Kept(w) == Moved(w, job.rec.status) /\ job'.rec = job.rec

LEMMA JobMoves ==
  ASSUME SignupTypeOK, JobAgrees
  PROVE  /\ SignupPrepare =>
              /\ UNCHANGED Rest /\ job.rec.status = "preparing" /\ job.at = "advance"
              /\ \/ Moved("write", "failed")
                 \/ /\ job'.at = "write" /\ job'.id = job.id /\ job'.rec \in Record
                    /\ job'.rec.status = "awaiting_wallet" /\ QuoteOf(job'.rec)
         /\ SignupExpired =>
              /\ UNCHANGED Rest /\ job.at = "advance" /\ Kept("expire")
              /\ job.rec.status \in {"awaiting_wallet", "awaiting_approval"}
         /\ SignupSubmit =>
              /\ UNCHANGED <<response, spendReq, paid, lapsed, cred, target>>
              /\ job.at = "advance" /\ job.rec.status = "awaiting_approval"
              /\ spendReq[job.id].is = "approved"
              /\ Moved("pay", "submitting")
              /\ record' = [record EXCEPT ![job.id] = job'.rec]
         /\ SignupPay =>
              /\ job.at = "pay" /\ UNCHANGED <<record, response, lapsed, cred, target>>
              /\ \/ UNCHANGED <<spendReq, paid>> /\ Moved("write", "uncertain")
                 \/ /\ paid' = [paid EXCEPT ![job.id] = [n |-> paid[job.id].n + 1,
                                                         cents |-> spendReq[job.id].cents]]
                    /\ spendReq' = [spendReq EXCEPT ![job.id].is = "spent"]
                    /\ Kept("good") \/ Kept("bad") \/ Moved("write", "uncertain")
         /\ SignupSave =>
              /\ job.at \in {"good", "bad"} /\ response' = [response EXCEPT ![job.id] = job.at]
              /\ Moved("write", "credential_received")
              /\ UNCHANGED <<record, spendReq, paid, lapsed, cred, target>>
         /\ SignupInstall =>
              /\ UNCHANGED Rest /\ job.at = "advance" /\ job.rec.status = "credential_received"
              /\ Kept("write") \/ (response[job.id] = "good" /\ Kept("verify"))
         /\ SignupVerify =>
              UNCHANGED Rest /\ job.at = "verify" /\ (Kept("write") \/ Kept("save"))
         /\ SaveKey =>
              /\ UNCHANGED <<record, response, spendReq, paid, lapsed, target>>
              /\ job.at = "save" /\ cred' = KeyOf(job.id) /\ Moved("write", "succeeded")
         /\ WalletCancel =>
              /\ UNCHANGED <<record, response, paid, lapsed, cred, target>>
              /\ job.at \in {"cancel", "expire"} /\ (Closes(job.id) \/ UNCHANGED spendReq)
              /\ \/ job' = NoJob
                 \/ job.at = "cancel" /\ Moved("write", "cancelled")
                 \/ job.at = "expire" /\ Moved("write", "expired")
         /\ WalletCreate =>
              /\ UNCHANGED <<record, response, paid, lapsed, cred, target>>
              /\ job.at = "advance" /\ job.rec.status = "awaiting_wallet"
              /\ \/ UNCHANGED spendReq
                 \/ spendReq[job.id].is = "none" /\
                    spendReq' = [spendReq EXCEPT ![job.id] = [is |-> "open", cents |-> job.rec.cents]]
              /\ Moved("write", "awaiting_approval") \/ Kept("write")
         /\ WalletRetrieve =>
              /\ UNCHANGED Rest /\ job.at = "advance" /\ job.rec.status = "awaiting_approval"
              /\ Moved("write", "failed") \/ Kept("write")
<1> DEFINE To(st) == [job.rec EXCEPT !.status = st]
<1>0. job.at # "idle" => job.rec \in Record
  BY DEF JobAgrees
<1>1. \A w, r : Go(w, job.id, r) => job'.at = w /\ job'.id = job.id /\ job'.rec = r
  BY DEF Go
<1>2. \A st \in SStatus : job.at # "idle" =>
        /\ To(st) \in Record /\ To(st).status = st
        /\ To(st).cents = job.rec.cents /\ To(st).cap = job.rec.cap
  BY <1>0, RecordWith
<1> HIDE DEF To
<1>3. {"failed", "awaiting_wallet", "awaiting_approval", "submitting", "uncertain", "succeeded",
       "credential_received", "cancelled", "expired"} \subseteq SStatus
  BY DEF SStatus, Unsent, Terminal, GaveUp
<1>4. \A st \in SStatus : \A w : job.at # "idle" /\ Go(w, job.id, To(st)) => Moved(w, st)
  BY <1>1, <1>2 DEF Moved
<1>5. \A w : job.at # "idle" /\ Go(w, job.id, job.rec) => Kept(w)
  BY <1>0, <1>1 DEF Kept, Moved
<1>6. SignupPrepare =>
        /\ UNCHANGED Rest /\ job.rec.status = "preparing" /\ job.at = "advance"
        /\ \/ Moved("write", "failed")
           \/ /\ job'.at = "write" /\ job'.id = job.id /\ job'.rec \in Record
              /\ job'.rec.status = "awaiting_wallet" /\ QuoteOf(job'.rec)
  <2> SUFFICES ASSUME SignupPrepare
               PROVE  \/ Moved("write", "failed")
                      \/ /\ job'.at = "write" /\ job'.id = job.id /\ job'.rec \in Record
                         /\ job'.rec.status = "awaiting_wallet" /\ QuoteOf(job'.rec)
    BY DEF SignupPrepare, Rest
  <2>1. PICK o \in Offers :
          Go("write", job.id, IF ValidOffer(o, job.rec.cap)
                              THEN [To("awaiting_wallet") EXCEPT !.cents = o.cents]
                              ELSE To("failed"))
    BY Zenon DEF SignupPrepare, To
  <2>2. job.at = "advance"
    BY DEF SignupPrepare
  <2>3. CASE ~ValidOffer(o, job.rec.cap)
    BY <2>1, <2>2, <2>3, <1>3, <1>4
  <2>4. CASE ValidOffer(o, job.rec.cap)
    <3> DEFINE q == [To("awaiting_wallet") EXCEPT !.cents = o.cents]
    <3>1. job'.at = "write" /\ job'.id = job.id /\ job'.rec = q
      BY <2>1, <2>4, <1>1
    <3>2. o.cents \in Nat /\ o.points \in FeePoints
      BY SignupAssumption DEF Offers
    <3>3. q \in Record /\ q.status = "awaiting_wallet" /\ q.cents = o.cents /\ q.cap = job.rec.cap
      <4>1. To("awaiting_wallet") \in Record /\ To("awaiting_wallet").status = "awaiting_wallet"
            /\ To("awaiting_wallet").cap = job.rec.cap
        BY <1>2, <1>3, <2>2
      <4> QED BY <4>1, <3>2 DEF Record
    <3>4. QuoteOf(q)
      BY <3>2, <3>3, <2>4 DEF QuoteOf, ValidOffer
    <3> QED BY <3>1, <3>3, <3>4
  <2> QED BY <2>3, <2>4
<1>7. SignupExpired =>
              /\ UNCHANGED Rest /\ job.at = "advance" /\ Kept("expire")
              /\ job.rec.status \in {"awaiting_wallet", "awaiting_approval"}
  BY <1>5 DEF SignupExpired, Rest
<1>8. SignupSubmit =>
        /\ UNCHANGED <<response, spendReq, paid, lapsed, cred, target>>
        /\ job.at = "advance" /\ job.rec.status = "awaiting_approval"
        /\ spendReq[job.id].is = "approved"
        /\ Moved("pay", "submitting")
        /\ record' = [record EXCEPT ![job.id] = job'.rec]
  BY <1>1, <1>3, <1>4 DEF SignupSubmit, Put, To
<1>9. SignupPay =>
        /\ job.at = "pay" /\ UNCHANGED <<record, response, lapsed, cred, target>>
        /\ \/ UNCHANGED <<spendReq, paid>> /\ Moved("write", "uncertain")
           \/ /\ paid' = [paid EXCEPT ![job.id] = [n |-> paid[job.id].n + 1,
                                                   cents |-> spendReq[job.id].cents]]
              /\ spendReq' = [spendReq EXCEPT ![job.id].is = "spent"]
              /\ Kept("good") \/ Kept("bad") \/ Moved("write", "uncertain")
  <2> HAVE SignupPay
  <2>1. job.at = "pay" /\ UNCHANGED <<record, response, lapsed, cred, target>>
    BY Zenon DEF SignupPay
  <2>2. \A w : Go(w, job.id, To("uncertain")) => Moved(w, "uncertain")
    BY <1>3, <1>4, <2>1
  <2>3. \A w : Go(w, job.id, job.rec) => Kept(w)
    BY <1>5, <2>1
  <2>4. \/ UNCHANGED <<spendReq, paid>> /\ Go("write", job.id, To("uncertain"))
        \/ /\ paid' = [paid EXCEPT ![job.id] = [n |-> paid[job.id].n + 1,
                                                cents |-> spendReq[job.id].cents]]
           /\ spendReq' = [spendReq EXCEPT ![job.id].is = "spent"]
           /\ \/ Go("good", job.id, job.rec) \/ Go("bad", job.id, job.rec)
              \/ Go("write", job.id, To("uncertain"))
    BY Zenon DEF SignupPay, To
  <2> QED BY <2>1, <2>2, <2>3, <2>4
<1>10. SignupSave =>
        /\ job.at \in {"good", "bad"} /\ response' = [response EXCEPT ![job.id] = job.at]
        /\ Moved("write", "credential_received")
        /\ UNCHANGED <<record, spendReq, paid, lapsed, cred, target>>
  BY <1>3, <1>4 DEF SignupSave, To
<1>11. SignupInstall =>
        /\ UNCHANGED Rest /\ job.at = "advance" /\ job.rec.status = "credential_received"
        /\ Kept("write") \/ (response[job.id] = "good" /\ Kept("verify"))
  BY <1>5 DEF SignupInstall, Rest
<1>12. SignupVerify => UNCHANGED Rest /\ job.at = "verify" /\ (Kept("write") \/ Kept("save"))
  BY <1>5 DEF SignupVerify, Rest
<1>13. SaveKey =>
        /\ UNCHANGED <<record, response, spendReq, paid, lapsed, target>>
        /\ job.at = "save" /\ cred' = KeyOf(job.id) /\ Moved("write", "succeeded")
  BY <1>3, <1>4 DEF SaveKey, To
<1>14. WalletCancel =>
        /\ UNCHANGED <<record, response, paid, lapsed, cred, target>>
        /\ job.at \in {"cancel", "expire"} /\ (Closes(job.id) \/ UNCHANGED spendReq)
        /\ \/ job' = NoJob
           \/ job.at = "cancel" /\ Moved("write", "cancelled")
           \/ job.at = "expire" /\ Moved("write", "expired")
  BY <1>3, <1>4 DEF WalletCancel, Done, To
<1>15. WalletCreate =>
        /\ UNCHANGED <<record, response, paid, lapsed, cred, target>>
        /\ job.at = "advance" /\ job.rec.status = "awaiting_wallet"
        /\ \/ UNCHANGED spendReq
           \/ spendReq[job.id].is = "none" /\
              spendReq' = [spendReq EXCEPT ![job.id] = [is |-> "open", cents |-> job.rec.cents]]
        /\ Moved("write", "awaiting_approval") \/ Kept("write")
  <2> SUFFICES ASSUME WalletCreate PROVE Moved("write", "awaiting_approval") \/ Kept("write")
    BY DEF WalletCreate
  <2> DEFINE q == [To("awaiting_approval") EXCEPT !.spend = TRUE]
  <2>1. job.at = "advance" /\ (Go("write", job.id, q) \/ Go("write", job.id, job.rec))
    BY DEF WalletCreate, To
  <2>2. CASE Go("write", job.id, q)
    <3>1. To("awaiting_approval") \in Record /\ To("awaiting_approval").status = "awaiting_approval"
          /\ To("awaiting_approval").cap = job.rec.cap /\ To("awaiting_approval").cents = job.rec.cents
      BY <1>2, <1>3, <2>1 DEF To
    <3>2. q \in Record /\ q.status = "awaiting_approval" /\ q.cents = job.rec.cents
          /\ q.cap = job.rec.cap
      BY <3>1 DEF Record
    <3> HIDE DEF q
    <3> QED BY <2>2, <3>2, <1>1 DEF Moved
  <2> HIDE DEF q
  <2> QED BY <2>1, <2>2, <1>5
<1>16. WalletRetrieve =>
        /\ UNCHANGED Rest /\ job.at = "advance" /\ job.rec.status = "awaiting_approval"
        /\ Moved("write", "failed") \/ Kept("write")
  BY <1>3, <1>4, <1>5 DEF WalletRetrieve, Rest, To
<1> QED
  BY <1>6, <1>7, <1>8, <1>9, <1>10, <1>11, <1>12, <1>13, <1>14, <1>15, <1>16

\* The requests, and the write that ends one.
Effects == <<response, spendReq, paid, lapsed, cred, target>>
Began(i, r) ==
  /\ job = NoJob /\ UNCHANGED Effects /\ r \in Record
  /\ record' = [record EXCEPT ![i] = r]

LEMMA RequestMoves ==
  ASSUME SignupTypeOK, NEW i \in SignupIds
  PROVE  /\ \A cap \in Caps, replace \in BOOLEAN : SignupStart(i, cap, replace) =>
              /\ record[i] = NoRecord /\ (\E r : job'.rec = r /\ Began(i, r))
              /\ \A j \in SignupIds : record[j].status \in Terminal \cup {"absent"}
              /\ job'.at = "advance" /\ job'.id = i /\ job'.rec.status = "preparing"
         /\ SignupStatus(i) \/ SignupResume(i) \/ SignupCancel(i) =>
              LET r == SignupRecovered(i) IN
              /\ Began(i, r) /\ record[i] # NoRecord
              /\ \/ job' = job
                 \/ /\ job'.id = i /\ job'.rec = r
                    /\ \/ job'.at = "advance" /\ r.status \notin Terminal \cup {"uncertain"}
                       \/ job'.at = "cancel" /\ r.status \in Unsent \cup {"cancelled"}
<1>1. ASSUME NEW cap \in Caps, NEW replace \in BOOLEAN, SignupStart(i, cap, replace)
      PROVE  /\ record[i] = NoRecord /\ (\E r : job'.rec = r /\ Began(i, r))
             /\ \A j \in SignupIds : record[j].status \in Terminal \cup {"absent"}
             /\ job'.at = "advance" /\ job'.id = i /\ job'.rec.status = "preparing"
  <2> DEFINE r == [NoRecord EXCEPT !.status = "preparing", !.cap = cap, !.hash = cred]
  <2>1. r \in Record /\ r.status = "preparing"
    BY DEF SignupTypeOK, NoRecord, Record, SStatus, Unsent, Targets
  <2> HIDE DEF r
  <2>2. /\ job = NoJob /\ record[i] = NoRecord /\ Put(i, r) /\ Go("advance", i, r)
        /\ \A j \in SignupIds : record[j].status \in Terminal \cup {"absent"}
        /\ UNCHANGED <<response, spendReq, paid, lapsed, cred, target>>
    BY <1>1, Zenon DEF SignupStart, r
  <2> QED BY <2>1, <2>2 DEF Put, Go, Began, Effects
<1>2. ASSUME SignupStatus(i) \/ SignupResume(i) \/ SignupCancel(i)
      PROVE  LET r == SignupRecovered(i) IN
             /\ Began(i, r) /\ record[i] # NoRecord
             /\ \/ job' = job
                \/ /\ job'.id = i /\ job'.rec = r
                   /\ \/ job'.at = "advance" /\ r.status \notin Terminal \cup {"uncertain"}
                      \/ job'.at = "cancel" /\ r.status \in Unsent \cup {"cancelled"}
  <2>1. record[i] # NoRecord
    BY <1>2 DEF SignupStatus, SignupResume, SignupCancel
  <2> QED
    BY <1>2, <2>1, RecoveredIs
    DEF SignupStatus, SignupResume, SignupCancel, Put, Go, Began, Effects
<1> QED BY <1>1, <1>2

LEMMA IdleJob ==
  ASSUME SignupTypeOK
  PROVE  NoJob.at = "idle" /\ NoJob.id \in SignupIds /\ NoJob.rec = NoRecord
BY DEF NoJob, SignupTypeOK

LEMMA SignupTypeStep == SignupTypeOK /\ JobAgrees /\ [SignupNext]_signupVars => SignupTypeOK'
<1> SUFFICES ASSUME SignupTypeOK, JobAgrees, [SignupNext]_signupVars PROVE SignupTypeOK'
  OBVIOUS
<1>1. CASE UNCHANGED signupVars
  BY <1>1 DEF SignupTypeOK, signupVars
<1>2. ASSUME NEW i \in SignupIds, NEW cap \in Caps, NEW replace \in BOOLEAN,
             SignupStart(i, cap, replace)
      PROVE  SignupTypeOK'
  <2>1. PICK r : job'.rec = r /\ Began(i, r)
    BY <1>2, RequestMoves
  <2>2. job'.at = "advance" /\ job'.id = i
    BY <1>2, RequestMoves
  <2> QED BY <2>1, <2>2 DEF Began, Effects, SignupTypeOK
<1>3. ASSUME NEW i \in SignupIds, SignupStatus(i) \/ SignupResume(i) \/ SignupCancel(i)
      PROVE  SignupTypeOK'
  BY <1>3, RequestMoves DEF Began, Effects, SignupTypeOK
<1>4. ASSUME NEW i \in SignupIds, LinkAnswers(i) \/ QuoteLapses(i) PROVE SignupTypeOK'
  <2>1. spendReq' \in [SignupIds -> [is : {"none", "open", "approved", "closed", "spent"},
                                     cents : Nat]]
    BY <1>4 DEF LinkAnswers, QuoteLapses, SignupTypeOK
  <2> QED BY <1>4, <2>1 DEF LinkAnswers, QuoteLapses, SignupTypeOK
<1>5. CASE SignupRefused \/ SignupCrash \/ SignupWrite
  <2>1. job' = NoJob
    BY <1>5 DEF SignupRefused, SignupCrash, SignupWrite, Done
  <2>2. record' = record \/ record' = [record EXCEPT ![job.id] = job.rec]
    BY <1>5 DEF SignupRefused, SignupCrash, SignupWrite, Put
  <2>3. UNCHANGED Effects
    BY <1>5 DEF SignupRefused, SignupCrash, SignupWrite, Effects
  <2> QED BY <2>1, <2>2, <2>3, IdleJob DEF SignupTypeOK, Effects
<1>6. CASE SignupPrepare \/ SignupExpired \/ SignupInstall \/ SignupVerify \/ SignupSubmit
           \/ WalletRetrieve
  BY <1>6, JobMoves DEF Rest, Moved, Kept, SignupTypeOK
<1>7. CASE SignupPay \/ SignupSave
  <2>1. job'.at \in {"write", "good", "bad"} /\ job'.id = job.id /\ job'.rec \in Record
    BY <1>7, JobMoves DEF Moved, Kept
  <2> DEFINE charge == [n |-> paid[job.id].n + 1, cents |-> spendReq[job.id].cents]
             spent  == [spendReq[job.id] EXCEPT !.is = "spent"]
  <2>2. charge \in [n : Nat, cents : Nat]
    BY DEF SignupTypeOK
  <2>3. spent \in [is : {"none", "open", "approved", "closed", "spent"}, cents : Nat]
    BY DEF SignupTypeOK
  <2>4. paid' = paid \/ paid' = [paid EXCEPT ![job.id] = charge]
    BY <1>7, JobMoves
  <2>5. spendReq' = spendReq \/ spendReq' = [spendReq EXCEPT ![job.id] = spent]
    BY <1>7, Zenon DEF SignupPay, SignupSave
  <2> HIDE DEF charge, spent
  <2>6. paid' \in [SignupIds -> [n : Nat, cents : Nat]]
    BY <2>2, <2>4 DEF SignupTypeOK
  <2>7. spendReq' \in [SignupIds -> [is : {"none", "open", "approved", "closed", "spent"},
                                     cents : Nat]]
    BY <2>3, <2>5 DEF SignupTypeOK
  <2> QED BY <1>7, <2>1, <2>6, <2>7, JobMoves DEF SignupTypeOK
<1>8. CASE SaveKey
  BY <1>8, JobMoves DEF Moved, SignupTypeOK, Creds, NewKeys
<1>9. CASE WalletCancel \/ WalletCreate
  <2>1. spendReq' \in [SignupIds -> [is : {"none", "open", "approved", "closed", "spent"},
                                     cents : Nat]]
    <3>1. \/ spendReq' = spendReq \/ Closes(job.id)
          \/ /\ job.rec \in Record
             /\ spendReq' = [spendReq EXCEPT ![job.id] = [is |-> "open", cents |-> job.rec.cents]]
      BY <1>9, JobMoves DEF JobAgrees
    <3>2. CASE Closes(job.id)
      BY <3>2 DEF Closes, SignupTypeOK
    <3> QED BY <3>1, <3>2 DEF SignupTypeOK, Record
  <2>2. job' = NoJob \/ (job'.at = "write" /\ job'.id = job.id /\ job'.rec \in Record)
    BY <1>9, JobMoves DEF Moved, Kept
  <2>3. UNCHANGED <<record, response, paid, lapsed, cred, target>>
    BY <1>9, JobMoves
  <2> QED BY <2>1, <2>2, <2>3, IdleJob DEF SignupTypeOK
<1>10. CASE OperatorEdits
  BY <1>10 DEF OperatorEdits, SignupTypeOK, Creds, Targets
<1> QED
  BY <1>1, <1>2, <1>3, <1>4, <1>5, <1>6, <1>7, <1>8, <1>9, <1>10 DEF SignupNext, SignupAdvance

LEMMA JobStep == SignupTypeOK /\ JobAgrees /\ [SignupNext]_signupVars => JobAgrees'
<1> SUFFICES ASSUME SignupTypeOK, JobAgrees, [SignupNext]_signupVars PROVE JobAgrees'
  OBVIOUS
<1> USE IdleJob DEF InStep
<1>0. job.id \in SignupIds /\ record \in [SignupIds -> Record \cup {NoRecord}]
  BY DEF SignupTypeOK
<1>1. CASE UNCHANGED signupVars
  BY <1>1 DEF JobAgrees, signupVars
<1>2. ASSUME NEW i \in SignupIds, NEW cap \in Caps, NEW replace \in BOOLEAN,
             SignupStart(i, cap, replace)
      PROVE  JobAgrees'
  <2>1. PICK r : job'.rec = r /\ Began(i, r)
    BY <1>2, RequestMoves
  <2>2. job'.at = "advance" /\ job'.id = i /\ job'.rec.status = "preparing"
    BY <1>2, RequestMoves
  <2> QED BY <1>0, <2>1, <2>2 DEF Began, JobAgrees, Fits, Unsent
<1>3. ASSUME NEW i \in SignupIds, SignupStatus(i) \/ SignupResume(i) \/ SignupCancel(i)
      PROVE  JobAgrees'
  <2> DEFINE r == SignupRecovered(i)
  <2>1. Began(i, r) /\ record[i] # NoRecord
    BY <1>3, RequestMoves
  <2>2. \/ job' = job
        \/ /\ job'.id = i /\ job'.rec = r
           /\ \/ job'.at = "advance" /\ r.status \notin Terminal \cup {"uncertain"}
              \/ job'.at = "cancel" /\ r.status \in Unsent \cup {"cancelled"}
    BY <1>3, RequestMoves
  <2>3. r \in Record /\ r.status # "submitting" /\ r.status \in SStatus
    BY <2>1, RecoveredIs DEF Record
  <2> HIDE DEF r
  <2> QED BY <1>0, <2>1, <2>2, <2>3 DEF Began, JobAgrees, Fits, SStatus
<1>4. ASSUME NEW i \in SignupIds, LinkAnswers(i) \/ QuoteLapses(i) PROVE JobAgrees'
  BY <1>4 DEF LinkAnswers, QuoteLapses, JobAgrees
<1>5. CASE SignupRefused \/ SignupCrash \/ SignupWrite
  <2>1. job' = NoJob
    BY <1>5 DEF SignupRefused, SignupCrash, SignupWrite, Done
  <2> QED BY <2>1 DEF JobAgrees
<1>6. CASE SignupPrepare
  <2>1. /\ job.at = "advance" /\ job.rec.status = "preparing" /\ record' = record
        /\ job'.at = "write" /\ job'.id = job.id /\ job'.rec \in Record
        /\ job'.rec.status \in {"failed", "awaiting_wallet"}
    BY <1>6, JobMoves DEF Rest, Moved
  <2>2. record[job.id].status = "preparing"
    BY <2>1 DEF JobAgrees
  <2>3. Writes("preparing", job'.rec.status)
    BY <2>1 DEF Writes, Unsent, GaveUp
  <2> QED BY <2>1, <2>2, <2>3 DEF JobAgrees, Fits
<1>7. CASE SignupExpired \/ SignupVerify \/ WalletRetrieve
  <2>1. CASE SignupExpired
    BY <1>0, <2>1, JobMoves DEF Rest, Moved, Kept, JobAgrees, Fits
  <2>2. CASE SignupVerify
    BY <1>0, <2>2, JobMoves DEF Rest, Moved, Kept, JobAgrees, Fits, Writes
  <2>3. CASE WalletRetrieve
    BY <1>0, <2>3, JobMoves DEF Rest, Moved, Kept, JobAgrees, Fits, Writes, Unsent, GaveUp
  <2> QED BY <1>7, <2>1, <2>2, <2>3
<1>12. CASE SignupInstall
  BY <1>0, <1>12, JobMoves DEF Rest, Moved, Kept, JobAgrees, Fits, Writes
<1>8. CASE SignupSubmit
  BY <1>0, <1>8, JobMoves DEF Moved, JobAgrees, Fits, Unsent
<1>9. CASE SignupPay \/ SignupSave \/ SaveKey
  BY <1>0, <1>9, JobMoves DEF Moved, Kept, JobAgrees, Fits, Writes
<1>10. CASE WalletCancel \/ WalletCreate
  BY <1>0, <1>10, JobMoves DEF Moved, Kept, JobAgrees, Fits, Writes, Unsent, GaveUp
<1>11. CASE OperatorEdits
  BY <1>11 DEF OperatorEdits, JobAgrees
<1> QED
  BY <1>1, <1>2, <1>3, <1>4, <1>5, <1>6, <1>7, <1>8, <1>9, <1>10, <1>11, <1>12
  DEF SignupNext, SignupAdvance
-----------------------------------------------------------------------------
\* How a record changes: by a request that begins, recovers or submits, and by the
\* write that ends one; the money and the credential stay as they are.
Recovers(i) ==
  /\ job = NoJob /\ record[i].status \in {"submitting", "uncertain"}
  /\ record'[i].status = IF response[i] = "none" THEN "uncertain" ELSE "credential_received"
  /\ record'[i].cents = record[i].cents /\ record'[i].cap = record[i].cap
Submits(i) ==
  /\ SignupSubmit /\ i = job.id /\ record[i].status = "awaiting_approval"
  /\ record'[i].status = "submitting"
  /\ record'[i].cents = record[i].cents /\ record'[i].cap = record[i].cap
EndsWith(i) ==
  /\ SignupWrite /\ job.at = "write" /\ i = job.id /\ record'[i] = job.rec
  /\ Writes(record[i].status, record'[i].status)
  /\ record[i].status # "preparing" =>
       record'[i].cents = record[i].cents /\ record'[i].cap = record[i].cap
Starts(i) ==
  /\ job = NoJob /\ record[i].status = "absent" /\ record'[i].status = "preparing"
  /\ \A j \in SignupIds : record[j].status \in Terminal \cup {"absent"}
  /\ \A j \in SignupIds \ {i} : record'[j] = record[j]

LEMMA RecordMoves ==
  ASSUME SignupTypeOK, JobAgrees, SignupNext, record' # record
  PROVE  /\ UNCHANGED Effects
         /\ \E i \in SignupIds :
              /\ \A j \in SignupIds \ {i} : record'[j] = record[j]
              /\ \/ record'[i] = record[i] \/ Recovers(i) \/ Submits(i) \/ EndsWith(i)
                 \/ Starts(i)
<1> DEFINE Claim ==
      /\ UNCHANGED Effects
      /\ \E i \in SignupIds :
           /\ \A j \in SignupIds \ {i} : record'[j] = record[j]
           /\ \/ record'[i] = record[i] \/ Recovers(i) \/ Submits(i) \/ EndsWith(i)
              \/ Starts(i)
<1>0. job.id \in SignupIds /\ record \in [SignupIds -> Record \cup {NoRecord}]
  BY DEF SignupTypeOK
<1>1. ASSUME NEW i \in SignupIds, NEW cap \in Caps, NEW replace \in BOOLEAN,
             SignupStart(i, cap, replace)
      PROVE  Claim
  <2>1. PICK r : job'.rec = r /\ Began(i, r)
    BY <1>1, RequestMoves
  <2>2. /\ record[i] = NoRecord /\ job'.rec.status = "preparing"
        /\ \A j \in SignupIds : record[j].status \in Terminal \cup {"absent"}
    BY <1>1, RequestMoves
  <2>3. NoRecord.status = "absent"
    BY DEF NoRecord
  <2>4. Starts(i)
    BY <1>0, <2>1, <2>2, <2>3 DEF Starts, Began
  <2> QED BY <2>1, <2>4 DEF Began, Starts
<1>2. ASSUME NEW i \in SignupIds, SignupStatus(i) \/ SignupResume(i) \/ SignupCancel(i)
      PROVE  Claim
  <2> DEFINE r == SignupRecovered(i)
  <2>1. Began(i, r) /\ record[i] # NoRecord
    BY <1>2, RequestMoves
  <2>2. /\ r.cents = record[i].cents /\ r.cap = record[i].cap
        /\ \/ r = record[i]
           \/ /\ record[i].status \in {"submitting", "uncertain"}
              /\ r.status = IF response[i] = "none" THEN "uncertain" ELSE "credential_received"
    BY <2>1, RecoveredIs
  <2> HIDE DEF r
  <2>3. record'[i] = r /\ \A j \in SignupIds \ {i} : record'[j] = record[j]
    BY <1>0, <2>1 DEF Began
  <2>4. record'[i] = record[i] \/ Recovers(i)
    BY <2>1, <2>2, <2>3 DEF Recovers, Began
  <2> QED BY <2>1, <2>3, <2>4 DEF Began
<1>3. CASE SignupSubmit
  <2>1. /\ record[job.id] = job.rec /\ record' = [record EXCEPT ![job.id] = job'.rec]
        /\ job.rec.status = "awaiting_approval" /\ Moved("pay", "submitting")
        /\ UNCHANGED Effects
    BY <1>3, JobMoves DEF JobAgrees, InStep, Effects
  <2>2. Submits(job.id)
    BY <1>0, <1>3, <2>1 DEF Submits, Moved
  <2>3. \A j \in SignupIds \ {job.id} : record'[j] = record[j]
    BY <1>0, <2>1
  <2> QED BY <1>0, <2>1, <2>2, <2>3
<1>4. CASE SignupWrite
  <2>1. record' = [record EXCEPT ![job.id] = job.rec] /\ job.at = "write" /\ UNCHANGED Effects
    BY <1>4 DEF SignupWrite, Put, Effects
  <2>2. record'[job.id] = job.rec /\ \A j \in SignupIds \ {job.id} : record'[j] = record[j]
    BY <1>0, <2>1
  <2>3. EndsWith(job.id)
    BY <1>4, <2>1, <2>2 DEF EndsWith, JobAgrees
  <2> QED BY <1>0, <2>1, <2>2, <2>3
<1>5. record' = record \/ (\E i \in SignupIds, cap \in Caps, replace \in BOOLEAN : SignupStart(i, cap, replace))
        \/ (\E i \in SignupIds : SignupStatus(i) \/ SignupResume(i) \/ SignupCancel(i))
        \/ SignupSubmit \/ SignupWrite
  BY DEF SignupNext, SignupAdvance, LinkAnswers, QuoteLapses, SignupCrash, OperatorEdits,
         SignupRefused, SignupPrepare, SignupExpired, SignupPay, SignupSave, SignupInstall,
         SignupVerify, SaveKey, WalletCancel, WalletCreate, WalletRetrieve
<1>6. record' # record
  OBVIOUS
<1> HIDE DEF Claim
<1>7. Claim
  <2>1. CASE \E i \in SignupIds, cap \in Caps, replace \in BOOLEAN : SignupStart(i, cap, replace)
    BY <2>1, <1>1
  <2>2. CASE \E i \in SignupIds : SignupStatus(i) \/ SignupResume(i) \/ SignupCancel(i)
    BY <2>2, <1>2
  <2> QED BY <2>1, <2>2, <1>3, <1>4, <1>5, <1>6 DEF Claim
<1> QED BY <1>7 DEF Claim
-----------------------------------------------------------------------------
(* The conjuncts of the invariant, one by one.                             *)

\* Steps other than the paid POST and the saved response leave what was paid and
\* answered alone.
LEMMA EffectMoves ==
  ASSUME SignupTypeOK, JobAgrees, SignupNext, UNCHANGED record
  PROVE  SignupPay \/ SignupSave \/ UNCHANGED <<paid, response>>
BY JobMoves
DEF SignupNext, SignupAdvance, SignupStart, SignupStatus, SignupResume, SignupCancel, LinkAnswers,
    QuoteLapses, SignupCrash, OperatorEdits, SignupRefused, SignupWrite, Rest

LEMMA PaidStep ==
  ASSUME SignupTypeOK, JobAgrees, PaidAsRecorded, AtPay, [SignupNext]_signupVars
  PROVE  PaidAsRecorded'
<1>0. job.id \in SignupIds
  BY DEF SignupTypeOK
<1>1. CASE UNCHANGED <<record, paid, response>>
  BY <1>1 DEF PaidAsRecorded
<1>2. CASE SignupNext /\ record' # record
  <2>1. PICK i \in SignupIds :
          /\ \A j \in SignupIds \ {i} : record'[j] = record[j]
          /\ \/ record'[i] = record[i] \/ Recovers(i) \/ Submits(i) \/ EndsWith(i) \/ Starts(i)
    BY <1>2, RecordMoves
  <2>2. UNCHANGED <<paid, response>>
    BY <1>2, RecordMoves DEF Effects
  <2>3. /\ paid[i].n = 1 => record'[i].status \in MayBePaid
        /\ record'[i].status \in Answered => response[i] # "none"
    <3>1. CASE Recovers(i)
      BY <3>1 DEF Recovers, PaidAsRecorded, MayBePaid, Answered
    <3>2. CASE Submits(i)
      BY <3>2 DEF Submits, PaidAsRecorded, MayBePaid, Answered
    <3>3. CASE EndsWith(i)
      BY <3>3 DEF EndsWith, PaidAsRecorded, AtPay, MayBePaid, Answered, Writes, Unsent, GaveUp
    <3>4. CASE Starts(i)
      BY <3>4 DEF Starts, PaidAsRecorded, MayBePaid, Answered
    <3> QED BY <2>1, <3>1, <3>2, <3>3, <3>4 DEF PaidAsRecorded
  <2> QED BY <2>1, <2>2, <2>3 DEF PaidAsRecorded
<1>3. CASE SignupPay
  <2>1. job.at = "pay" /\ UNCHANGED <<record, response>>
    BY <1>3, JobMoves
  <2>2. paid' = paid \/ paid' = [paid EXCEPT ![job.id] = [n |-> paid[job.id].n + 1,
                                                         cents |-> spendReq[job.id].cents]]
    BY <1>3, JobMoves
  <2>3. record[job.id].status = "submitting" /\ paid[job.id].n = 0
    BY <2>1 DEF JobAgrees, Fits, InStep, AtPay
  <2>4. \A i \in SignupIds : paid'[i] = paid[i] \/ (i = job.id /\ paid'[i].n = 1)
    BY <1>0, <2>2, <2>3 DEF SignupTypeOK
  <2> QED BY <2>1, <2>3, <2>4 DEF PaidAsRecorded, MayBePaid
<1>4. CASE SignupSave
  <2>1. /\ job.at \in {"good", "bad"} /\ response' = [response EXCEPT ![job.id] = job.at]
        /\ UNCHANGED <<record, paid>>
    BY <1>4, JobMoves
  <2>2. paid[job.id].n = 1
    BY <2>1 DEF AtPay
  <2>3. \A i \in SignupIds : response'[i] = response[i] \/ (i = job.id /\ response'[i] = job.at)
    BY <1>0, <2>1 DEF SignupTypeOK
  <2> QED BY <2>1, <2>2, <2>3 DEF PaidAsRecorded
<1>5. UNCHANGED signupVars => UNCHANGED <<record, paid, response>>
  BY DEF signupVars
<1> QED BY <1>1, <1>2, <1>3, <1>4, <1>5, EffectMoves

LEMMA AtPayStep ==
  ASSUME SignupTypeOK, JobAgrees, PaidAsRecorded, AtPay, [SignupNext]_signupVars
  PROVE  AtPay'
<1> USE IdleJob
<1>0. job.id \in SignupIds
  BY DEF SignupTypeOK
<1>1. CASE UNCHANGED <<job, paid, response>>
  BY <1>1 DEF AtPay
<1>2. CASE job' = NoJob
  BY <1>2 DEF AtPay
<1>3. CASE job'.at \in {"advance", "cancel", "expire"}
  BY <1>3 DEF AtPay
<1>4. CASE SignupPrepare \/ SignupExpired \/ WalletCancel \/ WalletCreate \/ WalletRetrieve
  <2>1. \/ job' = NoJob \/ job'.at = "expire"
        \/ job'.at = "write" /\ job'.rec.status \notin Answered
    BY <1>4, JobMoves DEF Moved, Kept, Answered
  <2> QED BY <2>1 DEF AtPay, Answered
<1>5. CASE SignupSubmit
  <2>1. job'.at = "pay" /\ job'.id = job.id /\ job.at = "advance" /\ UNCHANGED paid
        /\ job.rec.status = "awaiting_approval"
    BY <1>5, JobMoves DEF Moved
  <2>2. paid[job.id].n = 0 /\ response[job.id] = "none" /\ UNCHANGED response
    BY <1>0, <1>5, <2>1, JobMoves DEF JobAgrees, InStep, PaidAsRecorded, MayBePaid
  <2> QED BY <2>1, <2>2 DEF AtPay
<1>6. CASE SignupPay
  <2>1. job.at = "pay" /\ UNCHANGED response /\ job'.id = job.id
    BY <1>6, JobMoves DEF Moved, Kept
  <2>2. \/ job'.at = "write" /\ job'.rec.status = "uncertain"
        \/ /\ job'.at \in {"good", "bad"}
           /\ paid' = [paid EXCEPT ![job.id] = [n |-> paid[job.id].n + 1,
                                                cents |-> spendReq[job.id].cents]]
    BY <1>6, JobMoves DEF Moved, Kept
  <2>3. CASE job'.at \in {"good", "bad"}
    BY <1>0, <2>1, <2>2, <2>3 DEF AtPay, SignupTypeOK
  <2> QED BY <2>1, <2>2, <2>3 DEF AtPay, Answered
<1>7. CASE SignupSave
  <2>1. /\ job.at \in {"good", "bad"} /\ response' = [response EXCEPT ![job.id] = job.at]
        /\ job'.at = "write" /\ job'.id = job.id /\ job'.rec.status = "credential_received"
    BY <1>7, JobMoves DEF Moved
  <2> QED BY <1>0, <2>1 DEF AtPay, SignupTypeOK
<1>8. CASE SignupInstall
  <2>1. /\ UNCHANGED response /\ job.at = "advance" /\ job.rec.status = "credential_received"
        /\ job'.id = job.id
        /\ \/ job'.at = "write" /\ job'.rec.status = "credential_received"
           \/ job'.at = "verify" /\ response[job.id] = "good"
    BY <1>8, JobMoves DEF Moved, Kept, Rest
  <2>2. response[job.id] # "none"
    BY <1>0, <2>1 DEF JobAgrees, InStep, PaidAsRecorded, Answered
  <2> QED BY <2>1, <2>2 DEF AtPay
<1>9. CASE SignupVerify \/ SaveKey
  <2>1. /\ UNCHANGED response /\ job.at \in {"verify", "save"} /\ job'.id = job.id
        /\ job'.at \in {"write", "save"}
    BY <1>9, JobMoves DEF Moved, Kept, Rest
  <2> QED BY <2>1 DEF AtPay
<1>10. UNCHANGED signupVars => UNCHANGED <<job, paid, response>>
  BY DEF signupVars
<1>11. ASSUME NEW i \in SignupIds, NEW cap \in Caps, NEW replace \in BOOLEAN,
              SignupStart(i, cap, replace)
       PROVE  job'.at = "advance"
  BY <1>11, RequestMoves
<1>12. ASSUME NEW i \in SignupIds, SignupStatus(i) \/ SignupResume(i) \/ SignupCancel(i)
       PROVE  UNCHANGED <<job, paid, response>> \/ job'.at \in {"advance", "cancel"}
  BY <1>12, RequestMoves DEF Began, Effects
<1>13. SignupRefused \/ SignupCrash \/ SignupWrite => job' = NoJob
  BY DEF SignupRefused, SignupCrash, SignupWrite, Done
<1>14. OperatorEdits \/ (\E i \in SignupIds : LinkAnswers(i) \/ QuoteLapses(i))
         => UNCHANGED <<job, paid, response>>
  BY DEF OperatorEdits, LinkAnswers, QuoteLapses
<1> QED
  BY <1>1, <1>2, <1>3, <1>4, <1>5, <1>6, <1>7, <1>8, <1>9, <1>10, <1>11, <1>12, <1>13, <1>14
  DEF SignupNext, SignupAdvance

\* An authorization keeps its amount; the wallet makes one for the record it was
\* asked for.
LEMMA SpendMoves ==
  ASSUME SignupTypeOK, JobAgrees, QuoteKept, [SignupNext]_signupVars, NEW i \in SignupIds
  PROVE  \/ /\ spendReq'[i].cents = spendReq[i].cents
            /\ spendReq'[i].is = "none" <=> spendReq[i].is = "none"
         \/ /\ record' = record /\ record[i].status = "awaiting_wallet"
            /\ spendReq'[i].cents = record[i].cents
<1>0. job.id \in SignupIds
  BY DEF SignupTypeOK
<1>1. CASE UNCHANGED spendReq
  BY <1>1
<1>2. ASSUME NEW j \in SignupIds, LinkAnswers(j)
      PROVE  /\ spendReq'[i].cents = spendReq[i].cents
             /\ spendReq'[i].is = "none" <=> spendReq[i].is = "none"
  BY <1>2 DEF LinkAnswers, SignupTypeOK
<1>3. ASSUME NEW j \in SignupIds, Closes(j)
      PROVE  /\ spendReq'[i].cents = spendReq[i].cents
             /\ spendReq'[i].is = "none" <=> spendReq[i].is = "none"
  BY <1>3 DEF Closes, SignupTypeOK
<1>4. CASE SignupPay
  <2>1. job.at = "pay" /\ record[job.id].status = "submitting"
    BY <1>4, JobMoves DEF JobAgrees, InStep, Fits
  <2> DEFINE spent == [spendReq[job.id] EXCEPT !.is = "spent"]
  <2>2. spendReq' = spendReq \/ spendReq' = [spendReq EXCEPT ![job.id] = spent]
    BY <1>4, Zenon DEF SignupPay
  <2>3. spendReq[job.id].is # "none"
    BY <2>1 DEF QuoteKept
  <2>4. spent.is = "spent" /\ spent.cents = spendReq[job.id].cents
    BY <1>0 DEF SignupTypeOK
  <2> HIDE DEF spent
  <2>5. spendReq'[i] = spendReq[i] \/ (i = job.id /\ spendReq'[i] = spent)
    BY <1>0, <2>2 DEF SignupTypeOK
  <2> QED BY <2>3, <2>4, <2>5
<1>5. CASE WalletCreate
  <2>1. /\ record' = record /\ job.at = "advance" /\ job.rec.status = "awaiting_wallet"
        /\ \/ UNCHANGED spendReq
           \/ spendReq' = [spendReq EXCEPT ![job.id] = [is |-> "open", cents |-> job.rec.cents]]
    BY <1>5, JobMoves
  <2>2. record[job.id] = job.rec
    BY <2>1 DEF JobAgrees, InStep
  <2> QED BY <1>0, <2>1, <2>2 DEF SignupTypeOK
<1>6. CASE WalletCancel
  BY <1>0, <1>1, <1>3, <1>6, JobMoves
<1>7. \/ UNCHANGED spendReq \/ (\E j \in SignupIds : LinkAnswers(j))
      \/ SignupPay \/ WalletCreate \/ WalletCancel
  BY DEF signupVars, SignupNext, SignupAdvance, SignupStart, SignupStatus, SignupResume,
         SignupCancel, QuoteLapses, SignupCrash, OperatorEdits, SignupRefused, SignupPrepare,
         SignupExpired, SignupSubmit, SignupSave, SignupInstall, SignupVerify, SaveKey,
         SignupWrite, WalletRetrieve
<1> QED BY <1>1, <1>2, <1>4, <1>5, <1>6, <1>7

LEMMA QuoteStep ==
  ASSUME SignupTypeOK, JobAgrees, PaidAsRecorded, AtPay, QuoteKept, [SignupNext]_signupVars
  PROVE  /\ \A i \in SignupIds :
              /\ record'[i].status \in Quoted => QuoteOf(record'[i])
              /\ spendReq'[i].is # "none" =>
                   /\ spendReq'[i].cents = record'[i].cents
                   /\ record'[i].status \notin {"absent", "preparing"}
              /\ paid'[i].n = 1 => paid'[i].cents = record'[i].cents
<1> SUFFICES ASSUME NEW i \in SignupIds
             PROVE  /\ record'[i].status \in Quoted => QuoteOf(record'[i])
                    /\ spendReq'[i].is # "none" =>
                         /\ spendReq'[i].cents = record'[i].cents
                         /\ record'[i].status \notin {"absent", "preparing"}
                    /\ paid'[i].n = 1 => paid'[i].cents = record'[i].cents
  OBVIOUS
<1>0. /\ record[i].status \in Quoted => QuoteOf(record[i])
      /\ spendReq[i].is # "none" =>
           spendReq[i].cents = record[i].cents /\ record[i].status \notin {"absent", "preparing"}
      /\ paid[i].n = 1 => paid[i].cents = record[i].cents
      /\ paid[i].n = 1 => record[i].status \in MayBePaid
  BY DEF QuoteKept, PaidAsRecorded
<1>1. CASE record'[i] = record[i]
  <2>1. spendReq'[i].is # "none" =>
          spendReq'[i].cents = record[i].cents /\ record[i].status \notin {"absent", "preparing"}
    BY <1>0, SpendMoves
  <2>2. paid'[i].n = 1 => paid'[i].cents = record[i].cents
    <3>1. CASE SignupPay
      <4>1. job.at = "pay"
        BY <3>1, JobMoves
      <4> DEFINE charge == [n |-> paid[job.id].n + 1, cents |-> spendReq[job.id].cents]
      <4>2. paid' = paid \/ paid' = [paid EXCEPT ![job.id] = charge]
        BY <3>1, JobMoves
      <4>3. charge.cents = record[job.id].cents /\ job.id \in SignupIds
        BY <4>1 DEF QuoteKept, SignupTypeOK
      <4> HIDE DEF charge
      <4>4. paid'[i] = paid[i] \/ (i = job.id /\ paid'[i] = charge)
        BY <4>2, <4>3 DEF SignupTypeOK
      <4> QED BY <1>0, <4>3, <4>4
    <3>2. CASE ~SignupPay
      <4>1. UNCHANGED paid
        BY <3>2, EffectMoves, RecordMoves, JobMoves DEF Effects, signupVars
      <4> QED BY <1>0, <4>1
    <3> QED BY <3>1, <3>2
  <2> QED BY <1>0, <1>1, <2>1, <2>2
<1>2. CASE record'[i] # record[i]
  <2>1. SignupNext /\ record' # record
    BY <1>2 DEF signupVars
  <2>2. /\ UNCHANGED Effects
        /\ Recovers(i) \/ Submits(i) \/ EndsWith(i) \/ Starts(i)
    BY <1>2, <2>1, RecordMoves
  <2>3. CASE Recovers(i) \/ Submits(i)
    <3>1. /\ record[i].status \in Quoted
          /\ record'[i].cents = record[i].cents /\ record'[i].cap = record[i].cap
          /\ record'[i].status \notin {"absent", "preparing"}
      BY <2>3 DEF Recovers, Submits, Quoted
    <3> QED BY <1>0, <2>2, <3>1 DEF QuoteOf, Effects
  <2>4. CASE EndsWith(i)
    <3>1. record'[i].status \in Quoted => QuoteOf(record'[i])
      BY <2>4 DEF EndsWith, QuoteKept
    <3>2. CASE record[i].status = "preparing"
      BY <1>0, <2>2, <3>1, <3>2 DEF Effects, MayBePaid
    <3>3. CASE record[i].status # "preparing"
      <4>1. record'[i].cents = record[i].cents /\ record'[i].status \notin {"absent", "preparing"}
        BY <2>4, <3>3 DEF EndsWith, Writes, Unsent, GaveUp
      <4> QED BY <1>0, <2>2, <3>1, <4>1 DEF Effects
    <3> QED BY <3>2, <3>3
  <2>5. CASE Starts(i)
    BY <1>0, <2>2, <2>5 DEF Starts, Effects, Quoted, MayBePaid
  <2> QED BY <2>2, <2>3, <2>4, <2>5
<1> QED BY <1>1, <1>2

LEMMA JobQuoteStep ==
  ASSUME SignupTypeOK, JobAgrees, QuoteKept, [SignupNext]_signupVars
  PROVE  /\ job'.at # "idle" /\ job'.rec.status \in Quoted => QuoteOf(job'.rec)
         /\ job'.at = "pay" => spendReq'[job'.id].is # "none"
<1> DEFINE Claim == /\ job'.at # "idle" /\ job'.rec.status \in Quoted => QuoteOf(job'.rec)
                    /\ job'.at = "pay" => spendReq'[job'.id].is # "none"
<1> USE IdleJob
<1>0. job.at # "idle" /\ job.rec.status \in Quoted => QuoteOf(job.rec)
  BY DEF QuoteKept
<1>1. CASE job' = job
  <2>1. job.at = "pay" => spendReq[job.id].is # "none" /\ job.id \in SignupIds
    BY DEF QuoteKept, SignupTypeOK
  <2>2. job.at = "pay" => record[job.id].status = "submitting"
    BY DEF JobAgrees, InStep, Fits
  <2>3. job.at = "pay" => spendReq'[job.id].is # "none"
    BY <2>1, <2>2, SpendMoves
  <2> QED BY <1>0, <1>1, <2>3
<1>2. CASE job' = NoJob
  BY <1>2
<1>3. ASSUME NEW i \in SignupIds, NEW cap \in Caps, NEW replace \in BOOLEAN,
             SignupStart(i, cap, replace)
      PROVE  Claim
  <2>1. job'.at = "advance" /\ job'.rec.status = "preparing"
    BY <1>3, RequestMoves
  <2> QED BY <2>1 DEF Quoted
<1>4. ASSUME NEW i \in SignupIds, SignupStatus(i) \/ SignupResume(i) \/ SignupCancel(i)
      PROVE  Claim
  <2>1. record[i] # NoRecord
        /\ (job' = job \/ (job'.at \in {"advance", "cancel"} /\ job'.rec = SignupRecovered(i)))
    BY <1>4, RequestMoves
  <2>2. /\ SignupRecovered(i).cents = record[i].cents /\ SignupRecovered(i).cap = record[i].cap
        /\ SignupRecovered(i).status \in Quoted => record[i].status \in Quoted
    BY <2>1, RecoveredIs DEF Quoted
  <2>3. record[i].status \in Quoted => QuoteOf(record[i])
    BY DEF QuoteKept
  <2> QED BY <1>1, <2>1, <2>2, <2>3 DEF QuoteOf
<1>5. CASE SignupSubmit
  <2>1. /\ Moved("pay", "submitting") /\ job.at = "advance" /\ UNCHANGED spendReq
        /\ job.rec.status = "awaiting_approval" /\ spendReq[job.id].is = "approved"
    BY <1>5, JobMoves
  <2> QED BY <1>0, <2>1 DEF Moved, Quoted, QuoteOf
<1>6. CASE SignupPrepare
  <2>1. \/ job'.at = "write" /\ job'.rec.status = "failed"
        \/ job'.at = "write" /\ QuoteOf(job'.rec)
    BY <1>6, JobMoves DEF Moved
  <2> QED BY <2>1 DEF Quoted
<1>7. ASSUME job.at # "idle", job'.at # "pay", NEW st,
             Moved(job'.at, st), st \in Quoted => job.rec.status \in Quoted
      PROVE  Claim
  BY <1>0, <1>7 DEF Moved, QuoteOf
<1>8. CASE SignupExpired \/ SignupInstall \/ SignupVerify
  <2>1. job.at # "idle" /\ job'.at # "pay" /\ Moved(job'.at, job.rec.status)
    BY <1>8, JobMoves DEF Moved, Kept
  <2> QED BY <1>7, <2>1
<1>9. CASE SignupPay \/ SignupSave \/ SaveKey
  <2>1. job.at # "idle" /\ job.rec.status \in Quoted
    BY <1>9, JobMoves DEF JobAgrees, Fits, Quoted
  <2>2. job'.at # "pay" /\ \E st : Moved(job'.at, st)
    BY <1>9, JobMoves DEF Moved, Kept
  <2> QED BY <1>7, <2>1, <2>2
<1>10. CASE WalletCancel
  <2>1. job.at # "idle" /\ (job' = NoJob \/ (job'.at = "write" /\ job'.rec.status \notin Quoted))
    BY <1>10, JobMoves DEF Moved, Quoted
  <2> QED BY <2>1
<1>11. CASE WalletCreate \/ WalletRetrieve
  <2>1. job.at # "idle" /\ job.rec.status \in Quoted
    BY <1>11, JobMoves DEF Quoted
  <2>2. job'.at # "pay" /\ \E st : Moved(job'.at, st)
    BY <1>11, JobMoves DEF Moved, Kept
  <2> QED BY <1>7, <2>1, <2>2
<1>12. SignupRefused \/ SignupCrash \/ SignupWrite => job' = NoJob
  BY DEF SignupRefused, SignupCrash, SignupWrite, Done
<1>13. UNCHANGED signupVars \/ OperatorEdits
       \/ (\E i \in SignupIds : LinkAnswers(i) \/ QuoteLapses(i)) => job' = job
  BY DEF OperatorEdits, LinkAnswers, QuoteLapses, signupVars
<1> QED
  BY <1>1, <1>2, <1>3, <1>4, <1>5, <1>6, <1>8, <1>9, <1>10, <1>11, <1>12, <1>13
  DEF SignupNext, SignupAdvance

LEMMA OneOpenStep ==
  ASSUME SignupTypeOK, JobAgrees, OneOpen, [SignupNext]_signupVars
  PROVE  OneOpen'
<1> DEFINE Open(r) == r.status \notin Terminal \cup {"absent"}
<1>1. CASE record' = record
  BY <1>1 DEF OneOpen
<1>2. CASE record' # record
  <2>1. PICK i \in SignupIds :
          /\ \A j \in SignupIds \ {i} : record'[j] = record[j]
          /\ \/ record'[i] = record[i] \/ Recovers(i) \/ Submits(i) \/ EndsWith(i) \/ Starts(i)
    BY <1>2, RecordMoves DEF signupVars
  <2>2. CASE Starts(i)
    BY <2>1, <2>2 DEF Starts, OneOpen
  <2>3. CASE ~Starts(i)
    <3>1. Open(record'[i]) => Open(record[i])
      BY <2>1, <2>3 DEF Recovers, Submits, EndsWith, Writes, Terminal, GaveUp, Unsent
    <3> QED BY <2>1, <3>1 DEF OneOpen
  <2> QED BY <2>2, <2>3
<1> QED BY <1>1, <1>2

LEMMA KeysDiffer ==
  \A i \in SignupIds :
    /\ KeyOf(i) # <<"none">> /\ KeyOf(i) # <<"own">> /\ KeyOf(i) # <<"other">>
    /\ \A j \in SignupIds : KeyOf(i) = KeyOf(j) => i = j
BY DEF KeyOf

LEMMA InstalledStep ==
  ASSUME SignupTypeOK, JobAgrees, PaidAsRecorded, AtPay, InstalledKeyIsSaved,
         [SignupNext]_signupVars
  PROVE  InstalledKeyIsSaved'
<1> SUFFICES ASSUME NEW i \in SignupIds, cred' = KeyOf(i)
             PROVE  /\ paid'[i].n = 1 /\ response'[i] = "good"
                    /\ record'[i].status \in MayBePaid
  BY DEF InstalledKeyIsSaved, MayBePaid
<1>0. job.id \in SignupIds
  BY DEF SignupTypeOK
<1>1. CASE SaveKey
  <2>1. /\ UNCHANGED <<record, response, paid>> /\ job.at = "save" /\ cred' = KeyOf(job.id)
    BY <1>1, JobMoves
  <2>2. i = job.id
    BY <1>0, <2>1, KeysDiffer
  <2>3. response[i] = "good" /\ record[i].status = "credential_received"
    BY <2>1, <2>2 DEF AtPay, JobAgrees, InStep, Fits
  <2> QED BY <2>1, <2>3 DEF PaidAsRecorded, MayBePaid
<1>2. CASE ~SaveKey
  <2>1. cred = KeyOf(i)
    <3>1. cred' = cred \/ OperatorEdits
      BY <1>2
      DEF signupVars, SignupNext, SignupAdvance, SignupStart, SignupStatus, SignupResume,
          SignupCancel, LinkAnswers, QuoteLapses, SignupCrash, SignupRefused, SignupPrepare,
          SignupExpired, SignupSubmit, SignupPay, SignupSave, SignupInstall, SignupVerify,
          SignupWrite, WalletCancel, WalletCreate, WalletRetrieve
    <3> QED BY <3>1, KeysDiffer DEF OperatorEdits
  <2>2. paid[i].n = 1 /\ response[i] = "good" /\ record[i].status \in MayBePaid
    BY <2>1 DEF InstalledKeyIsSaved, MayBePaid
  <2>3. PaidAsRecorded'
    BY PaidStep
  <2>4. response'[i] = "good"
    <3>1. CASE SignupSave
      <4>1. job.at \in {"good", "bad"} /\ response' = [response EXCEPT ![job.id] = job.at]
        BY <3>1, JobMoves
      <4>2. response[job.id] = "none"
        BY <4>1 DEF AtPay
      <4> QED BY <1>0, <2>2, <4>1, <4>2 DEF SignupTypeOK
    <3>2. CASE ~SignupSave
      <4>1. UNCHANGED response
        BY <3>2, EffectMoves, RecordMoves, JobMoves DEF Effects, signupVars
      <4> QED BY <2>2, <4>1
    <3> QED BY <3>1, <3>2
  <2> QED BY <2>3, <2>4 DEF PaidAsRecorded
<1> QED BY <1>1, <1>2

LEMMA SignupInitSafe == SignupInit => SignupSafeInv
<1> SUFFICES ASSUME SignupInit PROVE SignupSafeInv
  OBVIOUS
<1>1. \A i \in SignupIds : /\ record[i].status = "absent" /\ response[i] = "none"
                           /\ paid[i].n = 0 /\ spendReq[i].is = "none"
  BY DEF SignupInit, NoRecord
<1>2. job = NoJob /\ job.at = "idle" /\ job.rec = NoRecord
  BY DEF SignupInit, NoJob
<1>3. job.id \in SignupIds
  BY SignupAssumption DEF SignupInit, NoJob
<1>4. JobAgrees
  BY <1>2 DEF JobAgrees, InStep
<1>5. PaidAsRecorded /\ AtPay
  BY <1>1, <1>2 DEF PaidAsRecorded, AtPay, Answered
<1>6. QuoteKept /\ OneOpen
  BY <1>1, <1>2 DEF QuoteKept, OneOpen, Quoted
<1>7. InstalledKeyIsSaved
  BY KeysDiffer DEF SignupInit, InstalledKeyIsSaved
<1>8. SignupTypeOK
  BY <1>2, <1>3 DEF SignupInit, SignupTypeOK, Creds, Targets
<1> QED BY <1>4, <1>5, <1>6, <1>7, <1>8 DEF SignupSafeInv

LEMMA SignupStep == SignupSafeInv /\ [SignupNext]_signupVars => SignupSafeInv'
<1> SUFFICES ASSUME SignupSafeInv, [SignupNext]_signupVars PROVE SignupSafeInv'
  OBVIOUS
<1> USE DEF SignupSafeInv
<1>1. SignupTypeOK' /\ JobAgrees'
  BY SignupTypeStep, JobStep
<1>2. PaidAsRecorded' /\ AtPay'
  BY PaidStep, AtPayStep
<1>3. QuoteKept'
  BY QuoteStep, JobQuoteStep DEF QuoteKept
<1>4. OneOpen' /\ InstalledKeyIsSaved'
  BY OneOpenStep, InstalledStep
<1> QED BY <1>1, <1>2, <1>3, <1>4

-----------------------------------------------------------------------------
\* The inductive invariant of paid signups, for any number of them.
THEOREM SignupAlwaysSafe == SignupSpec => []SignupSafeInv
BY SignupInitSafe, SignupStep, PTL DEF SignupSpec

\* No more than one signup that was paid for still waits for its key, however often
\* the process died and whatever the provider answered.
THEOREM OnePaidAlways == SignupSpec => []OnePaidUnsettled
<1>1. SignupSafeInv => OnePaidUnsettled
  <2> SUFFICES ASSUME SignupSafeInv PROVE OnePaidUnsettled
    OBVIOUS
  <2> DEFINE Waiting == {i \in SignupIds : paid[i].n > 0 /\ record[i].status # "succeeded"}
  <2>1. \A i \in Waiting : record[i].status \notin Terminal \cup {"absent"}
    BY DEF SignupSafeInv, PaidAsRecorded, MayBePaid, Terminal, GaveUp
  <2>2. \A i, j \in Waiting : i = j
    BY <2>1 DEF SignupSafeInv, OneOpen
  <2>3. CASE Waiting = {}
    BY <2>3, FS_EmptySet DEF OnePaidUnsettled
  <2>4. CASE Waiting # {}
    <3>1. PICK i \in Waiting : TRUE
      BY <2>4
    <3>2. Waiting = {i}
      BY <2>2, <3>1
    <3>3. Cardinality(Waiting) = 1
      BY <3>2, FS_Singleton
    <3> QED BY <3>3 DEF OnePaidUnsettled
  <2> QED BY <2>3, <2>4
<1> QED BY <1>1, SignupAlwaysSafe, PTL

\* Rounding up never goes below what is rounded.
LEMMA CeilCovers ==
  ASSUME NEW a \in Nat, NEW b \in Nat \ {0}
  PROVE  Ceil(a, b) \in Nat /\ Ceil(a, b) * b >= a /\ Ceil(a, b) * b <= a + b - 1
<1> DEFINE c == a + b - 1
<1>1. c \in Nat /\ b \in Int /\ b > 0
  OBVIOUS
<1>2. c \div b \in Nat /\ c = b * (c \div b) + (c % b) /\ c % b \in 0..(b - 1)
  BY <1>1
<1> QED BY <1>2 DEF Ceil

LEMMA TimesMono ==
  ASSUME NEW x \in Nat, NEW y \in Nat, NEW w \in Nat, x >= y
  PROVE  x * w >= y * w
<1> DEFINE d == x - y
<1>1. d \in Nat /\ x = y + d
  OBVIOUS
<1> HIDE DEF d
<1>2. d * w >= 0 /\ y * w \in Nat /\ x * w = y * w + d * w
  BY <1>1
<1> QED BY <1>2

\* What was charged is the quote, within the total the operator authorized; it covers
\* the credit and the declared fee and is less than a cent above them.
THEOREM ChargedAsQuoted == SignupSpec => []ChargeAsQuoted
<1>1. ASSUME NEW p \in FeePoints
      PROVE  LET due == Amount * Unit * Whole + Amount * Unit * p
                 charged == ChargeCents(p) * Unit * Whole
             IN due <= charged /\ charged < due + Unit * Whole
  <2>1. Amount \in Nat /\ Unit \in Nat \ {0} /\ Whole \in Nat \ {0} /\ p \in Nat
    BY SignupAssumption
  <2>2. Amount * Unit \in Nat /\ Amount * Unit * p \in Nat
    BY <2>1
  <2> DEFINE au == Amount * Unit
             fee == FeeUnits(p)
  <2>3. fee \in Nat /\ fee * Whole >= au * p /\ fee * Whole <= au * p + Whole - 1
    BY <2>1, <2>2, CeilCovers DEF FeeUnits
  <2>4. /\ ChargeCents(p) \in Nat /\ ChargeCents(p) * Unit >= au + fee
        /\ ChargeCents(p) * Unit <= au + fee + Unit - 1
    <3>1. ChargeCents(p) = Ceil(au + fee, Unit)
      BY DEF ChargeCents
    <3> HIDE DEF fee, au
    <3>2. au + fee \in Nat
      BY <2>2, <2>3 DEF au
    <3> QED BY <2>1, <3>1, <3>2, CeilCovers
  <2> HIDE DEF fee, au
  <2>5. au \in Nat
    BY <2>2 DEF au
  <2>6. /\ ChargeCents(p) * Unit * Whole >= (au + fee) * Whole
        /\ (au + fee + Unit - 1) * Whole >= ChargeCents(p) * Unit * Whole
    <3>1. /\ ChargeCents(p) * Unit \in Nat /\ au + fee \in Nat /\ Unit - 1 \in Nat
          /\ au + fee + Unit - 1 \in Nat
      BY <2>1, <2>3, <2>4, <2>5
    <3> QED BY <2>1, <2>4, <3>1, TimesMono
  <2>7. /\ (au + fee) * Whole = au * Whole + fee * Whole
        /\ (au + fee + Unit - 1) * Whole = au * Whole + fee * Whole + Unit * Whole - Whole
    <3> HIDE DEF au, fee
    <3> QED BY <2>1, <2>3, <2>5
  <2>8. /\ ChargeCents(p) * Unit * Whole >= au * Whole + au * p
        /\ ChargeCents(p) * Unit * Whole < au * Whole + au * p + Unit * Whole
    <3> DEFINE c == ChargeCents(p) * Unit * Whole
               w == au * Whole
               f == fee * Whole
               d == au * p
               e == Unit * Whole
    <3>1. c \in Nat /\ w \in Nat /\ f \in Nat /\ d \in Nat /\ e \in Nat
      BY <2>1, <2>3, <2>4, <2>5
    <3>2. c >= w + f /\ f >= d /\ f <= d + Whole - 1 /\ c <= w + f + e - Whole
      BY <2>3, <2>6, <2>7
    <3> HIDE DEF c, w, f, d, e
    <3>3. c >= w + d /\ c < w + d + e
      BY <2>1, <3>1, <3>2
    <3> QED BY <3>3 DEF c, w, d, e
  <2> QED BY <2>8 DEF au
<1>2. SignupSafeInv => ChargeAsQuoted
  <2> SUFFICES ASSUME SignupSafeInv, NEW i \in SignupIds, paid[i].n > 0
               PROVE  /\ paid[i].cents = record[i].cents /\ paid[i].cents <= record[i].cap
                      /\ \E p \in FeePoints :
                           LET due == Amount * Unit * Whole + Amount * Unit * p
                               charged == paid[i].cents * Unit * Whole
                           IN due <= charged /\ charged < due + Unit * Whole
    BY DEF ChargeAsQuoted
  <2>1. paid[i].n = 1 /\ record[i].status \in Quoted
    BY DEF SignupSafeInv, PaidAsRecorded, MayBePaid, Quoted
  <2>2. paid[i].cents = record[i].cents /\ QuoteOf(record[i])
    BY <2>1 DEF SignupSafeInv, QuoteKept
  <2> QED BY <2>2, <1>1 DEF QuoteOf
<1> QED BY <1>2, SignupAlwaysSafe, PTL

\* A key in force was paid for, and the answer that brought it is on disk.
THEOREM InstalledAlwaysSaved == SignupSpec => []InstalledKeyIsSaved
<1>1. SignupSafeInv => InstalledKeyIsSaved
  BY DEF SignupSafeInv
<1> QED BY <1>1, SignupAlwaysSafe, PTL

\* Everything Signup states of its states holds for every request, crash and retry.
THEOREM SignupInvAlways == SignupSpec => []SignupInv
<1>1. SignupSafeInv /\ OnePaidUnsettled /\ ChargeAsQuoted => SignupInv
  BY DEF SignupSafeInv, SignupInv
<1> QED BY <1>1, SignupAlwaysSafe, OnePaidAlways, ChargedAsQuoted, PTL

\* Paid signup implements Payments: a signup is charged at most once, and one that
\* ended as failed, cancelled or expired never is.
THEOREM SignupImplementsPayments == SignupSpec => SignupPays
<1> DEFINE sent  == [i \in SignupIds |-> paid[i].n]
           given == {i \in SignupIds : record[i].status \in GaveUp}
<1>1. SignupInit => SignupOrders!PaymentsInit
  BY DEF SignupInit, SignupOrders!PaymentsInit, NoRecord, GaveUp
<1>2. SignupSafeInv /\ SignupSafeInv' /\ [SignupNext]_signupVars
        => [SignupOrders!PaymentsNext]_(SignupOrders!paymentVars)
  <2> SUFFICES ASSUME SignupSafeInv, SignupSafeInv', [SignupNext]_signupVars
               PROVE  SignupOrders!PaymentsNext \/ UNCHANGED <<sent, given>>
    BY DEF SignupOrders!paymentVars
  <2> USE DEF SignupSafeInv
  <2>1. CASE SignupPay /\ paid' # paid
    <3> DEFINE charge == [n |-> paid[job.id].n + 1, cents |-> spendReq[job.id].cents]
    <3>1. job.at = "pay" /\ record' = record /\ job.id \in SignupIds
      BY <2>1, JobMoves DEF SignupTypeOK
    <3>2. paid' = [paid EXCEPT ![job.id] = charge]
      BY <2>1, JobMoves
    <3>3. paid[job.id].n = 0 /\ record[job.id].status = "submitting"
      BY <3>1 DEF AtPay, JobAgrees, InStep, Fits
    <3>4. charge.n = 1
      BY <3>3
    <3> HIDE DEF charge
    <3>5. sent[job.id] = 0 /\ sent' = [sent EXCEPT ![job.id] = 1]
      BY <3>1, <3>2, <3>3, <3>4 DEF SignupTypeOK
    <3>6. job.id \notin given /\ given' = given
      BY <3>1, <3>3 DEF GaveUp
    <3>7. PICK i \in SignupIds : i = job.id
      BY <3>1
    <3>8. SignupOrders!Charge(i)
      BY <3>5, <3>6, <3>7 DEF SignupOrders!Charge
    <3> QED BY <3>8 DEF SignupOrders!PaymentsNext
  <2>2. CASE UNCHANGED paid
    <3>1. sent' = sent
      BY <2>2
    <3>2. given \subseteq given'
      <4> SUFFICES ASSUME NEW i \in SignupIds, record[i].status \in GaveUp,
                          record'[i] # record[i]
                   PROVE  record'[i].status \in GaveUp
        OBVIOUS
      <4>1. SignupNext /\ record' # record
        BY DEF signupVars
      <4>2. Recovers(i) \/ Submits(i) \/ EndsWith(i) \/ Starts(i)
        BY <4>1, RecordMoves
      <4> QED
        BY <4>2 DEF Recovers, Submits, EndsWith, Starts, Writes, Unsent, GaveUp
    <3>3. given' \subseteq SignupIds /\ \A i \in given' : sent[i] = 0
      BY <2>2 DEF PaidAsRecorded, MayBePaid, GaveUp
    <3> QED BY <3>1, <3>2, <3>3 DEF SignupOrders!PaymentsNext, SignupOrders!GiveUpOrders
  <2>3. paid' = paid \/ SignupPay
    BY EffectMoves, RecordMoves, JobMoves DEF Effects, signupVars
  <2> QED BY <2>1, <2>2, <2>3
<1> QED
  BY <1>1, <1>2, SignupAlwaysSafe, PTL DEF SignupSpec, SignupPays, SignupOrders!PaymentsSpec
=============================================================================
