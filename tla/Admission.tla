----------------------------- MODULE Admission -----------------------------
(***************************************************************************)
(* Fleet enrollment (fleet_enrollment/authority.rs, worker.rs, service.rs  *)
(* and the authorization checks of control.rs): a machine joins a fleet    *)
(* with an invitation, keeps the private key it made for itself, and       *)
(* renews its certificate; the controller admits each key once, within     *)
(* the limit of the invitation, and can revoke it. Requests and replies    *)
(* are lost, a machine stops between any two files it writes, and a        *)
(* request may be carried out after the machine has given up on it.        *)
(***************************************************************************)
EXTENDS Naturals, Sequences, FiniteSets

CONSTANTS
  Machines,     \* data directories
  Invitations,  \* fleet keys, created beforehand
  MaxWorkers,   \* max_workers of an invitation
  Lifetime,     \* CERT_LIFETIME, in ticks; renewal is due after half of it
  MaxClock,     \* bound: ticks
  MaxKeyPairs,  \* bound: key pairs generated
  MaxCerts,     \* bound: certificates signed
  MaxInbox,     \* bound: requests under way
  MaxBreak      \* bound: crashes, wiped directories and broken streams

ASSUME AdmissionAssumption ==
  /\ {MaxWorkers, Lifetime, MaxKeyPairs, MaxCerts, MaxInbox} \subseteq Nat \ {0}
  /\ {MaxClock, MaxBreak} \subseteq Nat
  /\ "none" \notin Invitations

VARIABLES
  clock,     \* the time
  fleetKey,  \* fleetKey[k]: "active", or "closed" once it is revoked or expired
  member,    \* member[p]: the row of the worker whose public key is p
  signedCerts,    \* certificates in the order they were signed
  home,      \* home[m]: the files of the worker's directory
  doing,     \* doing[m]: where the operation that holds fleet-worker.lock is
  using,     \* using[m]: the invitation it uses
  answer,    \* answer[m]: the certificate it received
  inbox,     \* requests the controller has not carried out
  stream,    \* stream[m]: the certificate of its open control stream, 0 when none
  wiped,     \* directories that were replaced by a fresh one
  breaks     \* crashes and broken streams so far

admVars == <<clock, fleetKey, member, signedCerts, home, doing, using, answer, inbox, stream, wiped, breaks>>

KeyPairs  == 1..MaxKeyPairs
Certs     == 1..MaxCerts
NoAdmission  == [state |-> "none", by |-> "none", cur |-> 0]
FreshHome == [pending |-> "none", key |-> 0, cert |-> 0, net |-> 0]
MemberRows == [state : {"none", "active", "revoked"}, by : Invitations \cup {"none"}, cur : Certs \cup {0}]
HomeFiles  == [pending : Invitations \cup {"none"}, key : KeyPairs \cup {0}, cert : Certs \cup {0}, net : Certs \cup {0}]
EnrollSteps == {"idle", "pending", "keyed", "wait", "answered", "persisted"}
EnrollRequests == [from : Machines, kind : {"register", "renew"}, key : KeyPairs, by : Invitations, cert : Certs \cup {0}, live : BOOLEAN]

AdmInit ==
  /\ clock = 0
  /\ fleetKey = [k \in Invitations |-> "active"]
  /\ member = [p \in KeyPairs |-> NoAdmission]
  /\ signedCerts = <<>>
  /\ home = [m \in Machines |-> FreshHome]
  /\ doing = [m \in Machines |-> "idle"]
  /\ using = [m \in Machines |-> "none"]
  /\ answer = [m \in Machines |-> 0]
  /\ inbox = {}
  /\ stream = [m \in Machines |-> 0]
  /\ wiped = 0
  /\ breaks = 0

Unexpired(c) == c # 0 /\ signedCerts[c].expires > clock
RenewalDue(c) == signedCerts[c].expires - (Lifetime \div 2) <= clock
KeyAdmits(k) == fleetKey[k] = "active"
UsedKeys == {home[m].key : m \in Machines} \cup {p \in KeyPairs : member[p] # NoAdmission}
                                           \cup {r.key : r \in inbox}

\* authority::identity: the runtime a certificate speaks for.
Identity(c) ==
  IF Unexpired(c) /\ member[signedCerts[c].key].state = "active" THEN signedCerts[c].key ELSE 0

----------------------------------------------------------------------------
\* The controller (one immediate transaction per request).

\* issue: an earlier certificate of the worker stays valid until it expires.
Issue(p, k) ==
  /\ Len(signedCerts) < MaxCerts
  /\ signedCerts' = Append(signedCerts, [key |-> p, expires |-> clock + Lifetime])
  /\ member' = [member EXCEPT ![p] = [state |-> "active", by |-> k, cur |-> Len(signedCerts')]]

\* register: what a request is answered with, or "refused".
Known(p, k) == member[p].by = k /\ member[p].state = "active"
Counted(k) == {p \in KeyPairs : member[p].by = k}
AdmReply(r, c) ==
  /\ inbox' = inbox \ {r}
  /\ doing' = IF r.live THEN [doing EXCEPT ![r.from] = IF c = 0 THEN "idle" ELSE "answered"] ELSE doing
  /\ answer' = IF r.live /\ c # 0 THEN [answer EXCEPT ![r.from] = c] ELSE answer
  /\ using' = IF r.live THEN [using EXCEPT ![r.from] = "none"] ELSE using
  /\ UNCHANGED <<clock, fleetKey, home, stream, wiped, breaks>>

RegisterKnown(r) ==
  /\ r.kind = "register" /\ member[r.key] # NoAdmission /\ Known(r.key, r.by)
  /\ IF Unexpired(member[r.key].cur)
     THEN AdmReply(r, member[r.key].cur) /\ UNCHANGED <<member, signedCerts>>
     ELSE KeyAdmits(r.by) /\ Issue(r.key, r.by) /\ AdmReply(r, Len(signedCerts'))
RegisterNew(r) ==
  /\ r.kind = "register" /\ member[r.key] = NoAdmission
  /\ KeyAdmits(r.by) /\ Cardinality(Counted(r.by)) < MaxWorkers
  /\ Issue(r.key, r.by) /\ AdmReply(r, Len(signedCerts'))
RenewKnown(r) ==
  /\ r.kind = "renew" /\ Identity(r.cert) = r.key
  /\ IF RenewalDue(member[r.key].cur)
     THEN Issue(r.key, member[r.key].by) /\ AdmReply(r, Len(signedCerts'))
     ELSE AdmReply(r, member[r.key].cur) /\ UNCHANGED <<member, signedCerts>>
Refusable(r) ==
  \/ r.kind = "register" /\ member[r.key] # NoAdmission /\ ~Known(r.key, r.by)
  \/ r.kind = "register" /\ ~KeyAdmits(r.by) /\ ~Unexpired(member[r.key].cur)
  \/ r.kind = "register" /\ member[r.key] = NoAdmission /\ Cardinality(Counted(r.by)) >= MaxWorkers
  \/ r.kind = "renew" /\ Identity(r.cert) # r.key
Refuse(r) == Refusable(r) /\ AdmReply(r, 0) /\ UNCHANGED <<member, signedCerts>>
Serve == \E r \in inbox : RegisterKnown(r) \/ RegisterNew(r) \/ RenewKnown(r) \/ Refuse(r)

\* revoke_key, or the invitation reaches its expiry.
CloseKey(k) ==
  /\ fleetKey[k] = "active" /\ fleetKey' = [fleetKey EXCEPT ![k] = "closed"]
  /\ UNCHANGED <<clock, member, signedCerts, home, doing, using, answer, inbox, stream, wiped, breaks>>

\* revoke_worker and runtime_directory::forget revoke the member and its enrollment together.
RevokeMember(p) ==
  /\ member[p].state = "active" /\ member' = [member EXCEPT ![p].state = "revoked"]
  /\ UNCHANGED <<clock, fleetKey, signedCerts, home, doing, using, answer, inbox, stream, wiped, breaks>>

----------------------------------------------------------------------------
\* The worker's directory, under fleet-worker.lock.

Prepared(m, k) ==
  \/ home[m].pending = "none" /\ home[m].key = 0
  \/ home[m].pending = k

\* prepare: the invitation without its token, before the key.
JoinFresh(m, k) ==
  /\ doing[m] = "idle" /\ home[m].cert = 0 /\ home[m].net = 0 /\ Prepared(m, k)
  /\ home' = [home EXCEPT ![m].pending = k]
  /\ doing' = [doing EXCEPT ![m] = "pending"] /\ using' = [using EXCEPT ![m] = k]
  /\ UNCHANGED <<clock, fleetKey, member, signedCerts, answer, inbox, stream, wiped, breaks>>
GenerateKey(m) ==
  /\ doing[m] = "pending"
  /\ IF home[m].key # 0 THEN UNCHANGED home
     ELSE \E p \in KeyPairs \ UsedKeys :
            /\ \A q \in KeyPairs \ UsedKeys : p <= q
            /\ home' = [home EXCEPT ![m].key = p]
  /\ doing' = [doing EXCEPT ![m] = "keyed"]
  /\ UNCHANGED <<clock, fleetKey, member, signedCerts, using, answer, inbox, stream, wiped, breaks>>

\* exchange: the signed request is on disk before it is sent.
Sends(m, kind, k) ==
  /\ Cardinality(inbox) < MaxInbox
  /\ inbox' = inbox \cup {[from |-> m, kind |-> kind, key |-> home[m].key, by |-> k, cert |-> home[m].cert, live |-> TRUE]}
  /\ doing' = [doing EXCEPT ![m] = "wait"] /\ using' = [using EXCEPT ![m] = k]
EnrollExchange(m) ==
  /\ doing[m] = "keyed" /\ Sends(m, "register", using[m])
  /\ UNCHANGED <<clock, fleetKey, member, signedCerts, home, answer, stream, wiped, breaks>>

\* join, bootstrap and renew_if_due on an enrolled directory: install what is
\* saved, then renew it, or reassert the invitation once it has expired.
RenewIfDue(m) ==
  /\ doing[m] = "idle" /\ home[m].cert # 0
  /\ home' = IF Unexpired(home[m].cert) THEN [home EXCEPT ![m].net = home[m].cert] ELSE home
  /\ IF RenewalDue(home[m].cert)
     THEN Sends(m, IF Unexpired(home[m].cert) THEN "renew" ELSE "register", home[m].pending)
     ELSE UNCHANGED <<inbox, doing, using>>
  /\ UNCHANGED <<clock, fleetKey, member, signedCerts, answer, stream, wiped, breaks>>

AdmGiveUp(m) ==
  /\ doing' = [doing EXCEPT ![m] = "idle"] /\ using' = [using EXCEPT ![m] = "none"]
  /\ answer' = [answer EXCEPT ![m] = 0]
  /\ inbox' = {IF r.from = m THEN [r EXCEPT !.live = FALSE] ELSE r : r \in inbox}
\* The deadline of the exchange: the request may still be carried out.
ExchangeTimesOut(m) ==
  /\ doing[m] = "wait" /\ AdmGiveUp(m)
  /\ UNCHANGED <<clock, fleetKey, member, signedCerts, home, stream, wiped, breaks>>
RequestLost(r) ==
  /\ r \in inbox /\ ~r.live /\ inbox' = inbox \ {r}
  /\ UNCHANGED <<clock, fleetKey, member, signedCerts, home, doing, using, answer, stream, wiped, breaks>>

\* validate_certificate, then persist: the state file before the network files.
PersistUnchecked(m) ==
  /\ doing[m] = "answered"
  /\ home' = [home EXCEPT ![m].net = answer[m]]
  /\ doing' = [doing EXCEPT ![m] = "persisted"]
  /\ answer' = [answer EXCEPT ![m] = 0]
  /\ UNCHANGED <<clock, fleetKey, member, signedCerts, using, inbox, stream, wiped, breaks>>
PersistState(m) ==
  /\ doing[m] = "answered"
  /\ IF Unexpired(answer[m]) /\ signedCerts[answer[m]].key = home[m].key
     THEN home' = [home EXCEPT ![m].cert = answer[m]] /\ doing' = [doing EXCEPT ![m] = "persisted"]
     ELSE doing' = [doing EXCEPT ![m] = "idle"] /\ UNCHANGED home
  /\ answer' = [answer EXCEPT ![m] = 0]
  /\ UNCHANGED <<clock, fleetKey, member, signedCerts, using, inbox, stream, wiped, breaks>>
InstallState(m) ==
  /\ doing[m] = "persisted"
  /\ home' = [home EXCEPT ![m].net = home[m].cert]
  /\ doing' = [doing EXCEPT ![m] = "idle"]
  /\ answer' = [answer EXCEPT ![m] = 0]
  /\ UNCHANGED <<clock, fleetKey, member, signedCerts, using, inbox, stream, wiped, breaks>>

MachineStops(m) ==
  /\ breaks < MaxBreak /\ doing[m] # "idle" /\ breaks' = breaks + 1
  /\ AdmGiveUp(m) /\ stream' = [stream EXCEPT ![m] = 0]
  /\ UNCHANGED <<clock, fleetKey, member, signedCerts, home, wiped>>
\* A disposable machine comes back with an empty data directory.
MachineReplaced(m) ==
  /\ breaks < MaxBreak /\ doing[m] = "idle" /\ home[m] # FreshHome /\ breaks' = breaks + 1
  /\ home' = [home EXCEPT ![m] = FreshHome] /\ wiped' = wiped + 1
  /\ stream' = [stream EXCEPT ![m] = 0]
  /\ UNCHANGED <<clock, fleetKey, member, signedCerts, doing, using, answer, inbox>>
AdmTick ==
  /\ clock < MaxClock /\ clock' = clock + 1
  /\ UNCHANGED <<fleetKey, member, signedCerts, home, doing, using, answer, inbox, stream, wiped, breaks>>

----------------------------------------------------------------------------
\* The control stream: admitted by certificate, checked again every 5 seconds.

OpenStream(m) ==
  /\ stream[m] = 0 /\ home[m].net # 0 /\ Identity(home[m].net) # 0
  /\ stream' = [stream EXCEPT ![m] = home[m].net]
  /\ UNCHANGED <<clock, fleetKey, member, signedCerts, home, doing, using, answer, inbox, wiped, breaks>>
Authorized(c) ==
  /\ member[signedCerts[c].key].state = "active" /\ Unexpired(member[signedCerts[c].key].cur)
  /\ Identity(c) = signedCerts[c].key
CloseStream(m) ==
  /\ stream[m] # 0 /\ ~Authorized(stream[m])
  /\ stream' = [stream EXCEPT ![m] = 0]
  /\ UNCHANGED <<clock, fleetKey, member, signedCerts, home, doing, using, answer, inbox, wiped, breaks>>
\* connect: the worker's own check for a renewed certificate.
RenewedStream(m) ==
  /\ stream[m] # 0 /\ stream[m] # home[m].net
  /\ stream' = [stream EXCEPT ![m] = 0]
  /\ UNCHANGED <<clock, fleetKey, member, signedCerts, home, doing, using, answer, inbox, wiped, breaks>>

AdmWorker(m) ==
  \/ GenerateKey(m) \/ EnrollExchange(m) \/ RenewIfDue(m) \/ ExchangeTimesOut(m) \/ PersistState(m)
  \/ InstallState(m) \/ MachineStops(m) \/ MachineReplaced(m)
  \/ OpenStream(m) \/ CloseStream(m) \/ RenewedStream(m)
AdmNext ==
  \/ \E m \in Machines : AdmWorker(m) \/ (\E k \in Invitations : JoinFresh(m, k))
  \/ Serve
  \/ \E r \in inbox : RequestLost(r)
  \/ \E k \in Invitations : CloseKey(k)
  \/ \E p \in KeyPairs : RevokeMember(p)
  \/ AdmTick

AdmSpec == AdmInit /\ [][AdmNext]_admVars

----------------------------------------------------------------------------
AdmTypeOK ==
  /\ clock \in 0..MaxClock
  /\ fleetKey \in [Invitations -> {"active", "closed"}]
  /\ member \in [KeyPairs -> MemberRows]
  /\ signedCerts \in Seq([key : KeyPairs, expires : 0..(MaxClock + Lifetime)]) /\ Len(signedCerts) <= MaxCerts
  /\ home \in [Machines -> HomeFiles]
  /\ doing \in [Machines -> EnrollSteps]
  /\ using \in [Machines -> Invitations \cup {"none"}]
  /\ answer \in [Machines -> Certs \cup {0}]
  /\ inbox \subseteq EnrollRequests
  /\ stream \in [Machines -> Certs \cup {0}]
  /\ wiped \in 0..MaxBreak /\ breaks \in 0..MaxBreak

\* However often an enrollment is interrupted, lost or repeated, a directory
\* takes at most one of the invitation's places.
RetriesShareASlot ==
  Cardinality({p \in KeyPairs : member[p] # NoAdmission}) <= Cardinality(Machines) + wiped

\* No invitation admits more workers than its limit, revoked ones included.
WithinQuota ==
  \A k \in Invitations : Cardinality({p \in KeyPairs : member[p].by = k}) <= MaxWorkers

\* What is installed was saved first: a directory with network files can
\* always be started again without a new enrollment.
InstalledIsSaved ==
  \A m \in Machines :
    home[m].net # 0 =>
      /\ home[m].cert >= home[m].net
      /\ signedCerts[home[m].net].key = home[m].key /\ signedCerts[home[m].cert].key = home[m].key

\* A revoked worker gets no further certificate, whatever request of it is
\* still under way, with the invitation or with an older certificate.
RevokedGetsNothing ==
  [][\A p \in KeyPairs :
       member[p].state = "revoked" =>
         \A c \in (Len(signedCerts) + 1)..Len(signedCerts') : signedCerts'[c].key # p]_admVars

\* A stream of a revoked worker is closed, also one that was opened with the
\* certificate before the current one.
RevokedDisconnects ==
  \A m \in Machines :
    (stream[m] # 0 /\ member[signedCerts[stream[m]].key].state = "revoked") ~>
      (stream[m] = 0 \/ member[signedCerts[stream[m]].key].state # "revoked")

\* A saved certificate that lasts is installed even after a crash in between.
SavedIsInstalled ==
  \A m \in Machines :
    [](home[m].cert # 0 => <>(home[m].net = home[m].cert \/ ~Unexpired(home[m].cert)))

\* An interrupted enrollment ends with a saved certificate when the join is
\* repeated, unless the invitation no longer admits it or the worker was revoked.
Enrolls ==
  \A m \in Machines :
    (doing[m] # "idle" /\ home[m].cert = 0) ~>
      \/ home[m].cert # 0
      \/ home[m].key # 0 /\ member[home[m].key].state = "revoked"
      \/ home[m].pending # "none" /\ (~KeyAdmits(home[m].pending) \/ Cardinality(Counted(home[m].pending)) >= MaxWorkers)
      \/ home[m] = FreshHome \/ Len(signedCerts) = MaxCerts

\* The invariants together: what every request, crash and retry above must preserve.
AdmInv ==
  /\ AdmTypeOK
  /\ RetriesShareASlot
  /\ WithinQuota
  /\ InstalledIsSaved
============================================================================
