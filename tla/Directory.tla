----------------------------- MODULE Directory -----------------------------
(***************************************************************************)
(* Names of runtimes (runtime_directory.rs, worker_join.rs and the         *)
(* heartbeats of control.rs): a worker reports a name with its heartbeats, *)
(* an operator may assign an alias, and a command selects a worker by      *)
(* either. A joining worker waits until its controller has confirmed that  *)
(* its name selects it, and stops its daemon when it does not. Heartbeats  *)
(* and their acknowledgements travel in order on one stream, one at a      *)
(* time; what is under way is lost with the stream.                        *)
(***************************************************************************)
EXTENDS Naturals, FiniteSets

CONSTANTS
  Runtimes,  \* authenticated identities
  Names,     \* names that pass validate_name
  MaxBeats   \* bound: heartbeats of a worker

ASSUME DirectoryAssumption ==
  "none" \notin Names /\ Names \cap Runtimes = {} /\ MaxBeats \in Nat

VARIABLES
  listed,    \* identities the controller knows
  revoked,   \* those revoked or removed
  localName, \* localName[r]: the name the worker's own store holds
  heardName, \* heardName[r]: the name the controller last heard
  alias,     \* alias[r]: the name the operator assigned
  worker,    \* worker[r]: the worker's daemon is "down", "up" or "connected"
  beat,      \* beat[r]: the heartbeat or acknowledgement under way
  acked,     \* acked[r]: the acknowledgement this connection of the worker has stored
  joining,   \* joining[r]: the join command, "no", "waiting" or "stopping"
  beats      \* beats[r]: heartbeats sent

dirVars == <<listed, revoked, localName, heardName, alias, worker, beat, acked, joining, beats>>

NoAck == [name |-> "none", usable |-> FALSE]
NoMessage == [at |-> "none", name |-> "none", usable |-> FALSE]

DirInit ==
  /\ listed = {} /\ revoked = {}
  /\ localName = [r \in Runtimes |-> "none"]
  /\ heardName = [r \in Runtimes |-> "none"]
  /\ alias = [r \in Runtimes |-> "none"]
  /\ worker = [r \in Runtimes |-> "down"]
  /\ beat = [r \in Runtimes |-> NoMessage]
  /\ acked = [r \in Runtimes |-> NoAck]
  /\ joining = [r \in Runtimes |-> "no"]
  /\ beats = [r \in Runtimes |-> 0]

DisplayName(r) == IF alias[r] # "none" THEN alias[r] ELSE heardName[r]

\* resolve_known: identities whose alias is the name, or else whose display name is.
Matches(n) ==
  LET aliased == {r \in listed : alias[r] = n} IN
  IF aliased # {} THEN aliased ELSE {r \in listed : DisplayName(r) = n}
\* usable: revoked and removed identities are matched, but refused.
Resolves(n, r) == Matches(n) = {r} /\ r \notin revoked

----------------------------------------------------------------------------
(* The worker: the join command and the daemon it starts.                   *)

\* join: a worker that has a certificate keeps it, revoked or not; a new one is
\* enrolled. The name is saved, and the daemon started unless --no-start was given.
JoinStart(r, n) ==
  /\ joining[r] = "no"
  /\ listed' = listed \cup {r}
  /\ localName' = [localName EXCEPT ![r] = n]
  /\ \/ UNCHANGED <<worker, joining>>
     \/ /\ joining' = [joining EXCEPT ![r] = "waiting"]
        /\ worker' = [worker EXCEPT ![r] = IF @ = "down" THEN "up" ELSE @]
  /\ UNCHANGED <<revoked, heardName, alias, beat, acked, beats>>

\* connected: the stored acknowledgement of this name decides; a refused name has
\* the daemon shut down.
JoinDecides(r) ==
  /\ joining[r] = "waiting" /\ acked[r].name = localName[r]
  /\ joining' = [joining EXCEPT ![r] = IF acked[r].usable THEN "no" ELSE "stopping"]
  /\ UNCHANGED <<listed, revoked, localName, heardName, alias, worker, beat, acked, beats>>

\* Fifteen seconds pass, while waiting or while the daemon stops; or it has ended.
JoinGivesUp(r) ==
  /\ joining[r] # "no" /\ joining' = [joining EXCEPT ![r] = "no"]
  /\ UNCHANGED <<listed, revoked, localName, heardName, alias, worker, beat, acked, beats>>

\* The daemon ends, as the join asked or by itself, and may be started again.
DaemonEnds(r) ==
  /\ worker[r] # "down" /\ worker' = [worker EXCEPT ![r] = "down"]
  /\ beat' = [beat EXCEPT ![r] = NoMessage] /\ acked' = [acked EXCEPT ![r] = NoAck]
  /\ UNCHANGED <<listed, revoked, localName, heardName, alias, joining, beats>>
WorkerRestarts(r) ==
  /\ worker[r] = "down" /\ r \in listed /\ worker' = [worker EXCEPT ![r] = "up"]
  /\ UNCHANGED <<listed, revoked, localName, heardName, alias, beat, acked, joining, beats>>

\* ControllerPresence::new: a new connection forgets the acknowledgement of the last.
Connect(r) ==
  /\ worker[r] = "up" /\ r \notin revoked
  /\ worker' = [worker EXCEPT ![r] = "connected"] /\ acked' = [acked EXCEPT ![r] = NoAck]
  /\ UNCHANGED <<listed, revoked, localName, heardName, alias, beat, joining, beats>>
\* The stream breaks, or the controller ends that of a revoked worker.
Disconnect(r) ==
  /\ worker[r] = "connected" /\ worker' = [worker EXCEPT ![r] = "up"]
  /\ beat' = [beat EXCEPT ![r] = NoMessage] /\ acked' = [acked EXCEPT ![r] = NoAck]
  /\ UNCHANGED <<listed, revoked, localName, heardName, alias, joining, beats>>

SendBeat(r) ==
  /\ worker[r] = "connected" /\ beat[r] = NoMessage /\ beats[r] < MaxBeats
  /\ beats' = [beats EXCEPT ![r] = @ + 1]
  /\ beat' = [beat EXCEPT ![r] = [at |-> "sent", name |-> localName[r], usable |-> FALSE]]
  /\ UNCHANGED <<listed, revoked, localName, heardName, alias, worker, acked, joining>>
\* acknowledge
StoreAck(r) ==
  /\ beat[r].at = "acked"
  /\ acked' = [acked EXCEPT ![r] = [name |-> beat[r].name, usable |-> beat[r].usable]]
  /\ beat' = [beat EXCEPT ![r] = NoMessage]
  /\ UNCHANGED <<listed, revoked, localName, heardName, alias, worker, joining, beats>>

----------------------------------------------------------------------------
(* The controller: the stream's handler and the operator's commands.        *)

\* presence: the name is recorded for the identity the stream was authenticated as;
\* when the rest of the report is refused there is no acknowledgement.
HearName(r) ==
  /\ beat[r].at = "sent"
  /\ heardName' = [heardName EXCEPT ![r] = beat[r].name]
  /\ \/ beat' = [beat EXCEPT ![r].at = "heard"]
     \/ beat' = [beat EXCEPT ![r] = NoMessage]
  /\ UNCHANGED <<listed, revoked, localName, alias, worker, acked, joining, beats>>
\* heartbeat_ack: a transaction of its own asks whether the name selects the worker.
NameAck(r) ==
  /\ beat[r].at = "heard"
  /\ beat' = [beat EXCEPT ![r].at = "acked", ![r].usable = Resolves(beat[r].name, r)]
  /\ UNCHANGED <<listed, revoked, localName, heardName, alias, worker, acked, joining, beats>>

\* rename: no other identity is known by the name.
TakenAsAlias(r, n) == \E s \in listed \ {r} : alias[s] = n
Taken(r, n) == \E s \in listed \ {r} : DisplayName(s) = n
Rename(r, n) ==
  /\ r \in listed /\ ~Taken(r, n)
  /\ alias' = [alias EXCEPT ![r] = n]
  /\ UNCHANGED <<listed, revoked, localName, heardName, worker, beat, acked, joining, beats>>
\* A revoked identity keeps its names.
RevokeRuntime(r) ==
  /\ r \in listed \ revoked /\ revoked' = revoked \cup {r}
  /\ UNCHANGED <<listed, localName, heardName, alias, worker, beat, acked, joining, beats>>
\* forget: only a runtime that is not connected; its names are freed.
Forget(r) ==
  /\ r \in listed /\ worker[r] # "connected"
  /\ revoked' = revoked \cup {r}
  /\ alias' = [alias EXCEPT ![r] = "none"] /\ heardName' = [heardName EXCEPT ![r] = "none"]
  /\ UNCHANGED <<listed, localName, worker, beat, acked, joining, beats>>

DirNext ==
  \E r \in Runtimes :
    \/ JoinDecides(r) \/ JoinGivesUp(r) \/ DaemonEnds(r) \/ WorkerRestarts(r)
    \/ Connect(r) \/ Disconnect(r) \/ SendBeat(r) \/ StoreAck(r)
    \/ HearName(r) \/ NameAck(r) \/ RevokeRuntime(r) \/ Forget(r)
    \/ \E n \in Names : JoinStart(r, n) \/ Rename(r, n)

DirSpec == DirInit /\ [][DirNext]_dirVars

----------------------------------------------------------------------------
DirTypeOK ==
  /\ listed \subseteq Runtimes /\ revoked \subseteq listed
  /\ {localName, heardName, alias} \subseteq [Runtimes -> Names \cup {"none"}]
  /\ worker \in [Runtimes -> {"down", "up", "connected"}]
  /\ beat \in [Runtimes -> [at : {"none", "sent", "heard", "acked"},
                            name : Names \cup {"none"}, usable : BOOLEAN]]
  /\ acked \in [Runtimes -> [name : Names \cup {"none"}, usable : BOOLEAN]]
  /\ joining \in [Runtimes -> {"no", "waiting", "stopping"}]
  /\ beats \in [Runtimes -> 0..MaxBeats]

\* A name confirmed to a connected worker is never answered with another one:
\* it selects that worker, or is refused as ambiguous, until the operator
\* gives the worker an alias of its own; although the confirmation is late.
NoTakeover ==
  \A r \in Runtimes :
    (acked[r].usable /\ alias[r] = "none" /\ heardName[r] = acked[r].name) =>
       r \in Matches(acked[r].name)

\* An alias the operator assigned selects one runtime whatever names the
\* workers report afterwards.
AliasSelectsOne ==
  \A n \in Names : Cardinality({r \in listed : alias[r] = n}) <= 1

\* The invariants together: what every request, crash and retry above must preserve.
DirInv ==
  /\ DirTypeOK
  /\ NoTakeover
  /\ AliasSelectsOne
============================================================================
