------------------------------ MODULE Pairing ------------------------------
(***************************************************************************)
(* Enrollment over SSH (pairing.rs, enrollment.rs, network.rs): `network   *)
(* add` on a controller makes a packet with a certificate and a one-time   *)
(* token, records it as a pending enrollment and hands it to `network      *)
(* accept` on the worker, which writes it out file by file; the worker's   *)
(* first handshake spends the token. Two controllers may want the same     *)
(* worker, either side may stop between two writes, the SSH session may    *)
(* end before the other side does, and an operator may revoke.             *)
(***************************************************************************)
EXTENDS Naturals, FiniteSets

CONSTANTS
  Controllers,  \* data directories of controllers
  MaxPacket,    \* bound: packets a controller makes
  MaxStop       \* bound: crashes, expiries and cut SSH sessions

ASSUME PairingAssumption == {MaxPacket, MaxStop} \subseteq Nat \ {0}

VARIABLES
  trust,      \* trust[c]: "none", "keys" (written, not named yet) or "ready" (managed-network.toml)
  adding,     \* adding[c]: where `network add` is; it holds pairing.lock
  packetFile, \* packetFile[c]: pairing/<worker>.json
  enrollRow,  \* enrollRow[c]: the row of runtime_enrollments for the worker
  managed,    \* managed[c]: its row of managed_runtimes
  ssh,        \* ssh[c]: the packet on its way to the worker
  intent,     \* pairing-accept.json of the worker
  given,      \* given[f]: whose packet the worker's file f comes from
  accepting,  \* the packet `network accept` works on
  daemon,     \* the worker's daemon runs
  greeting,   \* greeting[c]: where the handshake with c is
  stops       \* crashes and cuts so far

pairVars == <<trust, adding, packetFile, enrollRow, managed, ssh, intent, given, accepting, daemon, greeting, stops>>

NoPacket == [by |-> "nobody", n |-> 0]
Packets  == [by : Controllers, n : 1..MaxPacket] \cup {NoPacket}
WorkerFiles == {"tls", "network", "identity"}  \* in the order apply_bootstrap writes them
NoRow    == [state |-> "none", print |-> NoPacket, token |-> FALSE, fresh |-> FALSE]
AddSteps == {"idle", "packet", "row", "managed", "send", "confirm", "done"}

PairInit ==
  /\ trust = [c \in Controllers |-> "none"]
  /\ adding = [c \in Controllers |-> "idle"]
  /\ packetFile = [c \in Controllers |-> NoPacket]
  /\ enrollRow = [c \in Controllers |-> NoRow]
  /\ managed = [c \in Controllers |-> "none"]
  /\ ssh = [c \in Controllers |-> NoPacket]
  /\ intent = NoPacket
  /\ given = [f \in WorkerFiles |-> NoPacket]
  /\ accepting = NoPacket
  /\ daemon = FALSE
  /\ greeting = [c \in Controllers |-> "none"]
  /\ stops = 0

----------------------------------------------------------------------------
\* The controller.

\* initialize: keys in a directory of their own, then the file that names them.
SetupKeys(c) ==
  /\ trust[c] = "none" /\ adding[c] = "idle" /\ trust' = [trust EXCEPT ![c] = "keys"]
  /\ UNCHANGED <<adding, packetFile, enrollRow, managed, ssh, intent, given, accepting, daemon, greeting, stops>>
SetupDone(c) ==
  /\ trust[c] = "keys" /\ trust' = [trust EXCEPT ![c] = "ready"]
  /\ UNCHANGED <<adding, packetFile, enrollRow, managed, ssh, intent, given, accepting, daemon, greeting, stops>>

AddStart(c) ==
  /\ trust[c] = "ready" /\ adding[c] = "idle"
  /\ adding' = [adding EXCEPT ![c] = "packet"]
  /\ UNCHANGED <<trust, packetFile, enrollRow, managed, ssh, intent, given, accepting, daemon, greeting, stops>>

\* packet: the exact packet is on disk before anything else knows of it.
NextPacket(c) == [by |-> c, n |-> packetFile[c].n + 1]
AddPacket(c) ==
  /\ adding[c] = "packet"
  /\ \/ packetFile[c] # NoPacket /\ UNCHANGED packetFile
     \/ packetFile[c] = NoPacket /\ enrollRow[c] = NoRow /\ packetFile' = [packetFile EXCEPT ![c] = NextPacket(c)]
  /\ adding' = [adding EXCEPT ![c] = "row"]
  /\ UNCHANGED <<trust, enrollRow, managed, ssh, intent, given, accepting, daemon, greeting, stops>>

\* add: INSERT OR IGNORE of the pending enrollment.
AddRowRotates(c) ==
  /\ adding[c] = "row" /\ enrollRow[c].state \in {"none", "pending"} /\ packetFile[c].n < MaxPacket
  /\ packetFile' = [packetFile EXCEPT ![c] = NextPacket(c)]
  /\ enrollRow' = [enrollRow EXCEPT ![c] = [state |-> "pending", print |-> NextPacket(c), token |-> TRUE, fresh |-> TRUE]]
  /\ adding' = [adding EXCEPT ![c] = "managed"]
  /\ UNCHANGED <<trust, managed, ssh, intent, given, accepting, daemon, greeting, stops>>
AddRow(c) ==
  /\ adding[c] = "row"
  /\ enrollRow' = IF enrollRow[c] # NoRow THEN enrollRow
            ELSE [enrollRow EXCEPT ![c] = [state |-> "pending", print |-> packetFile[c], token |-> TRUE, fresh |-> TRUE]]
  /\ adding' = [adding EXCEPT ![c] = "managed"]
  /\ UNCHANGED <<trust, packetFile, managed, ssh, intent, given, accepting, daemon, greeting, stops>>
\* add: the row must be this packet's and not revoked; only a pending row is renewed.
AddRefused(c) == enrollRow[c].print # packetFile[c] \/ enrollRow[c].state = "revoked"
AddManaged(c) ==
  /\ adding[c] = "managed"
  /\ IF AddRefused(c)
     THEN adding' = [adding EXCEPT ![c] = "idle"] /\ UNCHANGED <<enrollRow, managed>>
     ELSE /\ enrollRow' = IF enrollRow[c].state = "pending" THEN [enrollRow EXCEPT ![c].fresh = TRUE] ELSE enrollRow
          /\ managed' = IF managed[c] = "none" THEN [managed EXCEPT ![c] = "provisioned"] ELSE managed
          /\ adding' = [adding EXCEPT ![c] = "send"]
  /\ UNCHANGED <<trust, packetFile, ssh, intent, given, accepting, daemon, greeting, stops>>
AddSend(c) ==
  /\ adding[c] = "send" /\ ssh[c] = NoPacket
  /\ ssh' = [ssh EXCEPT ![c] = packetFile[c]]
  /\ adding' = [adding EXCEPT ![c] = "confirm"]
  /\ UNCHANGED <<trust, packetFile, enrollRow, managed, intent, given, accepting, daemon, greeting, stops>>
\* add: ready once the enrollment is active and the worker was just heard of.
AddConfirm(c) ==
  /\ adding[c] = "confirm" /\ ssh[c] = NoPacket
  /\ enrollRow[c].state = "active" /\ greeting[c] = "open"
  /\ adding' = [adding EXCEPT ![c] = "done"]
  /\ UNCHANGED <<trust, packetFile, enrollRow, managed, ssh, intent, given, accepting, daemon, greeting, stops>>
\* A failed or timed out SSH, or no handshake within a minute: "rerun".
AddFails(c) ==
  /\ adding[c] = "confirm" /\ adding' = [adding EXCEPT ![c] = "idle"] /\ ssh' = [ssh EXCEPT ![c] = NoPacket]
  /\ UNCHANGED <<trust, packetFile, enrollRow, managed, intent, given, accepting, daemon, greeting, stops>>

\* runtime_destroy and forget: the enrollment is revoked and its token cleared.
RevokePairing(c) ==
  /\ enrollRow[c].state \in {"pending", "active"}
  /\ enrollRow' = [enrollRow EXCEPT ![c].state = "revoked", ![c].token = FALSE]
  /\ managed' = [managed EXCEPT ![c] = "removed"]
  /\ UNCHANGED <<trust, adding, packetFile, ssh, intent, given, accepting, daemon, greeting, stops>>
ExpireRow(c) ==
  /\ enrollRow[c].state = "pending" /\ enrollRow[c].fresh /\ stops < MaxStop /\ stops' = stops + 1
  /\ enrollRow' = [enrollRow EXCEPT ![c].fresh = FALSE]
  /\ UNCHANGED <<trust, adding, packetFile, managed, ssh, intent, given, accepting, daemon, greeting>>
ControllerStops(c) ==
  /\ stops < MaxStop /\ stops' = stops + 1
  /\ adding[c] # "idle" \/ trust[c] = "keys" \/ greeting[c] # "none"
  /\ adding' = [adding EXCEPT ![c] = "idle"] /\ ssh' = [ssh EXCEPT ![c] = NoPacket]
  /\ trust' = IF trust[c] = "keys" THEN [trust EXCEPT ![c] = "none"] ELSE trust
  /\ greeting' = [greeting EXCEPT ![c] = "none"]
  /\ UNCHANGED <<packetFile, enrollRow, managed, intent, given, accepting, daemon>>

----------------------------------------------------------------------------
\* The worker.

\* accept: one at a time, a retry only with the packet of the intent, a fresh
\* account only without an identity of its own.
Acceptable(p) ==
  /\ intent \in {NoPacket, p}
  /\ (intent = NoPacket /\ given["identity"] = NoPacket) => (~daemon /\ given["network"] = NoPacket)
  /\ given["identity"] # NoPacket => given["tls"] = p
AcceptStart(c) ==
  /\ ssh[c] # NoPacket /\ accepting = NoPacket
  /\ IF Acceptable(ssh[c]) THEN accepting' = ssh[c] /\ intent' = ssh[c]
     ELSE UNCHANGED <<accepting, intent>>
  /\ ssh' = IF Acceptable(ssh[c]) THEN ssh ELSE [ssh EXCEPT ![c] = NoPacket]
  /\ adding' = IF Acceptable(ssh[c]) THEN adding ELSE [adding EXCEPT ![c] = "idle"]
  /\ UNCHANGED <<trust, packetFile, enrollRow, managed, given, daemon, greeting, stops>>

Before(f) == IF f = "tls" THEN {} ELSE IF f = "network" THEN {"tls"} ELSE {"tls", "network"}
\* write_same_private: the same bytes or nothing.
SamePrivate(f) == given[f] \in {NoPacket, accepting}
Applied == given["identity"] # NoPacket
\* apply_bootstrap returns at once when the identity is recorded.
ApplyFile(f) ==
  /\ accepting # NoPacket /\ ~Applied
  /\ given[f] # accepting /\ \A g \in Before(f) : given[g] = accepting
  /\ IF SamePrivate(f) THEN given' = [given EXCEPT ![f] = accepting] /\ UNCHANGED accepting
     ELSE accepting' = NoPacket /\ UNCHANGED given
  /\ UNCHANGED <<trust, adding, packetFile, enrollRow, managed, ssh, intent, daemon, greeting, stops>>
\* accept ends by starting the daemon; the SSH session, if it still is there, succeeds.
AcceptDone ==
  /\ accepting # NoPacket /\ Applied
  /\ accepting' = NoPacket /\ daemon' = TRUE
  /\ ssh' = [c \in Controllers |-> IF ssh[c] = accepting THEN NoPacket ELSE ssh[c]]
  /\ UNCHANGED <<trust, adding, packetFile, enrollRow, managed, intent, given, greeting, stops>>
WorkerStops ==
  /\ stops < MaxStop /\ (accepting # NoPacket \/ daemon) /\ stops' = stops + 1
  /\ accepting' = NoPacket /\ daemon' = FALSE /\ greeting' = [c \in Controllers |-> "none"]
  /\ ssh' = [c \in Controllers |-> IF ssh[c] = accepting THEN NoPacket ELSE ssh[c]]
  /\ adding' = [c \in Controllers |-> IF ssh[c] = accepting /\ ssh[c] # NoPacket THEN "idle" ELSE adding[c]]
  /\ UNCHANGED <<trust, packetFile, enrollRow, managed, intent, given>>

----------------------------------------------------------------------------
\* The handshake: guard and activate read the row, then two updates follow.

\* identity and activate: whether the row admits the certificate of packet p.
PairIdentity(c, p) ==
  /\ enrollRow[c].print = p
  /\ \/ enrollRow[c].state = "active"
     \/ enrollRow[c].state = "pending" /\ enrollRow[c].fresh /\ enrollRow[c].token
ActivateRead(c) ==
  /\ daemon /\ Applied /\ given["network"].by = c /\ greeting[c] = "none"
  /\ PairIdentity(c, given["tls"])
  /\ greeting' = [greeting EXCEPT ![c] = IF enrollRow[c].state = "active" THEN "open" ELSE "activate"]
  /\ UNCHANGED <<trust, adding, packetFile, enrollRow, managed, ssh, intent, given, accepting, daemon, stops>>
\* activate's UPDATE names the runtime only, not the state it was read in.
ActivateRow(c) ==
  /\ greeting[c] = "activate"
  /\ enrollRow' = [enrollRow EXCEPT ![c].state = "active", ![c].token = FALSE]
  /\ greeting' = [greeting EXCEPT ![c] = "ready"]
  /\ UNCHANGED <<trust, adding, packetFile, managed, ssh, intent, given, accepting, daemon, stops>>
ActivateReady(c) ==
  /\ greeting[c] = "ready"
  /\ managed' = IF managed[c] = "none" THEN managed ELSE [managed EXCEPT ![c] = "ready"]
  /\ greeting' = [greeting EXCEPT ![c] = "open"]
  /\ UNCHANGED <<trust, adding, packetFile, enrollRow, ssh, intent, given, accepting, daemon, stops>>
\* A heartbeat on the stream makes a provisioned worker ready.
PairHeartbeat(c) ==
  /\ greeting[c] = "open" /\ enrollRow[c].state = "active" /\ managed[c] = "provisioned"
  /\ managed' = [managed EXCEPT ![c] = "ready"]
  /\ UNCHANGED <<trust, adding, packetFile, enrollRow, ssh, intent, given, accepting, daemon, greeting, stops>>
\* control::accept checks again every five seconds.
PairClose(c) ==
  /\ greeting[c] = "open" /\ ~PairIdentity(c, given["tls"])
  /\ greeting' = [greeting EXCEPT ![c] = "none"]
  /\ UNCHANGED <<trust, adding, packetFile, enrollRow, managed, ssh, intent, given, accepting, daemon, stops>>

PairController(c) ==
  \/ SetupKeys(c) \/ SetupDone(c) \/ AddStart(c) \/ AddPacket(c) \/ AddRow(c) \/ AddManaged(c)
  \/ AddSend(c) \/ AddConfirm(c) \/ AddFails(c) \/ ExpireRow(c) \/ ControllerStops(c)
  \/ AcceptStart(c) \/ ActivateRead(c) \/ ActivateRow(c) \/ ActivateReady(c) \/ PairHeartbeat(c) \/ PairClose(c)
PairNext ==
  \/ \E c \in Controllers : PairController(c) \/ RevokePairing(c)
  \/ \E f \in WorkerFiles : ApplyFile(f)
  \/ AcceptDone \/ WorkerStops

PairSpec == PairInit /\ [][PairNext]_pairVars

----------------------------------------------------------------------------
PairTypeOK ==
  /\ trust \in [Controllers -> {"none", "keys", "ready"}]
  /\ adding \in [Controllers -> AddSteps]
  /\ packetFile \in [Controllers -> Packets] /\ ssh \in [Controllers -> Packets]
  /\ enrollRow \in [Controllers -> [state : {"none", "pending", "active", "revoked"}, print : Packets, token : BOOLEAN, fresh : BOOLEAN]]
  /\ managed \in [Controllers -> {"none", "provisioned", "ready", "removed"}]
  /\ {intent, accepting} \subseteq Packets
  /\ given \in [WorkerFiles -> Packets]
  /\ daemon \in BOOLEAN /\ greeting \in [Controllers -> {"none", "activate", "ready", "open"}]
  /\ stops \in 0..MaxStop

\* Whatever was interrupted, the worker's given are those of one packet, the
\* one its intent names: a retry of that packet can always complete.
OnePacket ==
  \A f \in WorkerFiles : given[f] # NoPacket => given[f] = intent

\* The certificate a worker was given is the one its controller's enrollment
\* names: no retry of `network add` replaces the identity behind it.
EnrolledAsGiven ==
  \A c \in Controllers :
    (given["tls"].by = c /\ enrollRow[c] # NoRow) => enrollRow[c].print = given["tls"]

\* A token admits once: an enrollment that holds no token any more is never
\* pending again.
TokenSpent ==
  [][\A c \in Controllers :
       (enrollRow[c] # NoRow /\ ~enrollRow[c].token) => (~enrollRow'[c].token /\ enrollRow'[c].state # "pending")]_pairVars

\* Repeating `network add` ends in an active enrollment, unless another
\* controller's packet was there first or the operator revoked it.
Pairs ==
  \A c \in Controllers :
    (adding[c] # "idle") ~>
      \/ enrollRow[c].state \in {"active", "revoked"}
      \/ intent.by \in Controllers \ {c}

\* The invariants together: what every request, crash and retry above must preserve.
PairInv ==
  /\ PairTypeOK
  /\ OnePacket
  /\ EnrolledAsGiven
============================================================================
