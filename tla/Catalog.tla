------------------------------- MODULE Catalog -------------------------------
(* Skill packs: requests of a parent and of the local command line share one    *)
(* durable queue (src/src/management.rs), the daemon and any command line        *)
(* process may install its head, each pack is written to a directory of its own  *)
(* and activated by renaming the pointer CURRENT (src/src/skill_catalog.rs).     *)
EXTENDS Integers, Sequences, FiniteSets

CONSTANTS Packs, MaxRows, MaxKills   \* bounds: requests, deaths of an installing process

ASSUME CatalogAssumption == MaxRows \in Nat /\ MaxKills \in Nat /\ "default" \notin Packs

Installers == {"daemon", "cli", "boot"}

VARIABLES crows,   \* runtime_operations of runtime 'local', action runtime_skills_update: [pack, st]
          ptr,     \* the pack CURRENT names, "none" if there is no pointer
          vers,    \* packs whose directory is complete under versions/
          inst,    \* each installer: [pc, row, last]
          kills

catVars == <<crows, ptr, vers, inst, kills>>
Resting == [pc |-> "idle", row |-> 0, last |-> 0]
\* the rows db.rows returns, oldest first
Pending == {i \in DOMAIN crows : crows[i].st = "local_pending"}
Oldest == CHOOSE i \in Pending : \A j \in Pending : i <= j
\* IMMEDIATE transaction: one installer at a time is between check and commit
PackLocked == \E p \in Installers : inst[p].pc \in {"stage", "activate", "commit"}
SetInst(p, pc, row, last) == inst' = [inst EXCEPT ![p] = [pc |-> pc, row |-> row, last |-> last]]

CatInit == /\ crows = <<>> /\ ptr = "none" /\ vers = {} /\ kills = 0
           /\ inst = [p \in Installers |-> Resting]

\* management::remote_command: the parent's packet is recorded (validated first)
RequestPack(k) ==
    /\ Len(crows) < MaxRows /\ ~PackLocked
    /\ crows' = Append(crows, [pack |-> k, st |-> "local_pending"]) /\ UNCHANGED <<ptr, vers, inst, kills>>
\* install_catalog: the command line records its own packet, then works the queue up to it
CliRequest(k) ==
    /\ Len(crows) < MaxRows /\ ~PackLocked /\ inst["cli"] = Resting
    /\ crows' = Append(crows, [pack |-> k, st |-> "local_pending"])
    /\ SetInst("cli", "read", 0, Len(crows) + 1) /\ UNCHANGED <<ptr, vers, kills>>
\* the row is read outside the transaction that installs it
CliReads ==
    /\ inst["cli"].pc = "read"
    /\ IF Pending = {} \/ Oldest > inst["cli"].last THEN inst' = [inst EXCEPT !["cli"] = Resting]
                                                    ELSE SetInst("cli", "begin", Oldest, inst["cli"].last)
    /\ UNCHANGED <<crows, ptr, vers, kills>>
LocalCommandReads ==
    /\ inst["daemon"] = Resting /\ Pending # {} /\ SetInst("daemon", "begin", Oldest, 0)
    /\ UNCHANGED <<crows, ptr, vers, kills>>

\* mutant: the row is installed as it was read
StillPendingAny(i) == TRUE
\* install_skills asks again inside its transaction
StillPending(i) == crows[i].st = "local_pending"
InstallDone(p) == inst' = [inst EXCEPT ![p] = IF p = "cli" THEN [@ EXCEPT !.pc = "read"] ELSE Resting]
\* mutant: no transaction keeps other installers out
InstallBegins(p) ==
    /\ inst[p].pc = "begin" /\ p # "boot" /\ ~PackLocked
    /\ IF StillPending(inst[p].row) THEN inst' = [inst EXCEPT ![p].pc = "stage"] ELSE InstallDone(p)
    /\ UNCHANGED <<crows, ptr, vers, kills>>
PackOf(p) == IF p = "boot" THEN "default" ELSE crows[inst[p].row].pack
\* mutant: the pointer is replaced before the directory has its name
\* mutant: a failed installation leaves its row as it was
\* skill_catalog::install, first half: staged, verified, renamed into versions/; or it fails and the staging is removed
StagePack(p) ==
    /\ inst[p].pc = "stage"
    /\ \/ vers' = vers \cup {PackOf(p)} /\ inst' = [inst EXCEPT ![p].pc = "activate"] /\ crows' = crows
       \/ /\ p # "boot" /\ PackOf(p) \notin vers /\ vers' = vers /\ InstallDone(p)
          /\ crows' = [crows EXCEPT ![inst[p].row].st = "failed"]
    /\ UNCHANGED <<ptr, kills>>
\* second half: CURRENT is replaced by rename
ActivatePack(p) ==
    /\ inst[p].pc = "activate" /\ ptr' = PackOf(p) /\ inst' = [inst EXCEPT ![p].pc = "commit"]
    /\ UNCHANGED <<crows, vers, kills>>
\* the row is stored and the transaction commits
InstallCommits(p) ==
    /\ inst[p].pc = "commit" /\ InstallDone(p)
    /\ crows' = IF p = "boot" THEN crows ELSE [crows EXCEPT ![inst[p].row].st = "succeeded"]
    /\ UNCHANGED <<ptr, vers, kills>>

\* ensure_default_skills: no pointer and no pack beside the executable, so the release's pack is fetched
BootstrapChecks ==
    /\ inst["boot"] = Resting /\ ptr = "none" /\ SetInst("boot", "fetched", 0, 0) /\ UNCHANGED <<crows, ptr, vers, kills>>
\* mutant: what was seen before the download is trusted
\* bootstrap_catalog, inside its transaction: a pointer or a pending request comes first
MayBootstrap == ptr = "none" /\ Pending = {}
BootstrapBegins ==
    /\ inst["boot"].pc = "fetched" /\ ~PackLocked
    /\ inst' = [inst EXCEPT !["boot"] = IF MayBootstrap THEN [@ EXCEPT !.pc = "stage"] ELSE Resting]
    /\ UNCHANGED <<crows, ptr, vers, kills>>

\* an installing process dies; its transaction is rolled back, renames stay
KillInstaller(p) ==
    /\ inst[p].pc # "idle" /\ kills < MaxKills /\ kills' = kills + 1
    /\ inst' = [inst EXCEPT ![p] = Resting] /\ UNCHANGED <<crows, ptr, vers>>

CatStep(p) == InstallBegins(p) \/ StagePack(p) \/ ActivatePack(p) \/ InstallCommits(p)
CatNext == (\E k \in Packs : RequestPack(k) \/ CliRequest(k)) \/ CliReads \/ LocalCommandReads \/ BootstrapChecks
           \/ BootstrapBegins \/ (\E p \in Installers : CatStep(p) \/ KillInstaller(p))

CatSpec == CatInit /\ [][CatNext]_catVars

-----------------------------------------------------------------------------
\* Rows and installers hold values the code produces, and one installer at most is inside its transaction.
CatTypeOK ==
    /\ \A i \in DOMAIN crows : crows[i].pack \in Packs /\ crows[i].st \in {"local_pending", "succeeded", "failed"}
    /\ ptr \in Packs \cup {"none", "default"}
    /\ Cardinality({p \in Installers : inst[p].pc \in {"stage", "activate", "commit"}}) <= 1

\* The active pack is a complete one: submissions never resolve CURRENT to a directory that is still being written.
PointerComplete == ptr # "none" => ptr \in vers

\* Requests take effect in arrival order whoever installs them: outside a transaction the active pack is that of the
\* newest request reported as succeeded, or of the oldest pending one (its installer died before the commit).
NewestRequestActive ==
    LET good == {i \in DOMAIN crows : crows[i].st = "succeeded"} IN
    ~PackLocked /\ good # {} =>
        \/ ptr = crows[CHOOSE i \in good : \A j \in good : j <= i].pack
        \/ Pending # {} /\ ptr = crows[Oldest].pack

\* The default pack fills an empty place only: it never replaces a pack somebody asked for, nor overtakes a request.
BootstrapYields == [][ptr' = "default" /\ ptr # "default" => ptr = "none" /\ Pending = {}]_catVars

\* Every request is settled: installed or reported as failed.
RequestsSettle == \A i \in 1 .. MaxRows : (i \in DOMAIN crows) ~> (i \in DOMAIN crows /\ crows[i].st # "local_pending")

\* The invariants together: what every request, crash and retry above must preserve.
CatInv ==
  /\ CatTypeOK
  /\ PointerComplete
  /\ NewestRequestActive
=============================================================================
