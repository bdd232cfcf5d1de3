------------------------------- MODULE Login -------------------------------
(***************************************************************************)
(* Provider logins (provider_login.rs, provider_login/process.rs and       *)
(* tuara.rs): a supervisor thread per session runs a provider's CLI, or    *)
(* waits for an API key, under a lock on the credential store that         *)
(* daemons with different data roots share. A CLI that outlives its        *)
(* daemon is found through the receipt of its process.                     *)
(***************************************************************************)
EXTENDS Naturals, Sequences, FiniteSets

CONSTANTS
  LoginIds,     \* bound: request ids, each used once
  RootOf,       \* RootOf[l]: the data root (one daemon) the login is started in
  Inputs,       \* what a user may submit
  QueueLimit    \* capacity of the control channel (4 in the code)

ASSUME LoginAssumption ==
  DOMAIN RootOf = LoginIds /\ QueueLimit \in Nat \ {0}

VARIABLES
  kindOf,      \* kindOf[l]: the provider of the login
  up,          \* up[d]: "up", "stopping" or "down"
  session,     \* session[l]: what status reports
  at,          \* at[l]: where its supervisor is
  queue,       \* queue[l]: control messages not yet received
  submitted,   \* submitted[l]: inputs accepted
  fed,         \* fed[l][x]: times the CLI was given x
  store,       \* store[k]: the login that holds the lock of kind k, or NoLogin
  proc,        \* proc[l]: its CLI process: "none", "alive", "group" (descendants only), "dead"
  receipt,     \* receipt[l]: <id>.json names that process
  saved        \* logins whose credential reached the store

loginVars == <<kindOf, up, session, at, queue, submitted, fed, store, proc, receipt, saved>>

DataRoots   == {RootOf[l] : l \in LoginIds}
LoginKinds   == {"cli", "tuara"}   \* a provider's CLI; the handoff of an API key
NoLogin  == "nobody"
LoginEnded   == {"succeeded", "failed", "cancelled", "expired"}
LoginPending(l) == session[l] \in {"starting", "awaiting_user", "verifying"}
CliRunning(l) == proc[l] \in {"alive", "group"}
Served(l)   == up[RootOf[l]] # "down"

LoginInit ==
  /\ kindOf = [l \in LoginIds |-> "cli"]
  /\ up = [d \in DataRoots |-> "up"]
  /\ session = [l \in LoginIds |-> "none"]
  /\ at = [l \in LoginIds |-> "none"]
  /\ queue = [l \in LoginIds |-> <<>>]
  /\ submitted = [l \in LoginIds |-> {}]
  /\ fed = [l \in LoginIds |-> [x \in Inputs |-> 0]]
  /\ store = [k \in LoginKinds |-> NoLogin]
  /\ proc = [l \in LoginIds |-> "none"]
  /\ receipt = [l \in LoginIds |-> FALSE]
  /\ saved = {}

\* finish: a terminal status gives the store's lock back.
FinishLogin(l, s) ==
  /\ session' = [session EXCEPT ![l] = s]
  /\ store' = IF s \in LoginEnded THEN [store EXCEPT ![kindOf[l]] = NoLogin] ELSE store
MoveLogin(l, w) == at' = [at EXCEPT ![l] = w]
-----------------------------------------------------------------------------
(* Requests.                                                               *)

\* start: no pending session of this kind here, then the lock shared with other roots.
LoginStart(l, k) ==
  /\ up[RootOf[l]] = "up" /\ session[l] = "none"
  /\ \A m \in LoginIds : RootOf[m] = RootOf[l] /\ kindOf[m] = k => ~LoginPending(m)
  /\ store[k] = NoLogin
  /\ session' = [session EXCEPT ![l] = "starting"] /\ MoveLogin(l, "spawn")
  /\ kindOf' = [kindOf EXCEPT ![l] = k] /\ store' = [store EXCEPT ![k] = l]
  /\ UNCHANGED <<up, queue, submitted, fed, proc, receipt, saved>>

\* submit: a repeated response is acknowledged and not sent again.
LoginSubmit(l, x) ==
  /\ Served(l) /\ session[l] = "awaiting_user"
  /\ x \notin submitted[l] /\ Len(queue[l]) < QueueLimit
  /\ queue' = [queue EXCEPT ![l] = Append(@, x)]
  /\ submitted' = [submitted EXCEPT ![l] = @ \cup {x}]
  /\ UNCHANGED <<kindOf, up, session, at, fed, store, proc, receipt, saved>>

\* cancel, and shutdown's repeated cancellation of every pending session.
LoginCancel(l) ==
  /\ Served(l) /\ LoginPending(l) /\ Len(queue[l]) < QueueLimit
  /\ queue' = [queue EXCEPT ![l] = Append(@, "cancel")]
  /\ UNCHANGED <<kindOf, up, session, at, submitted, fed, store, proc, receipt, saved>>
-----------------------------------------------------------------------------
(* The supervisor.                                                         *)

\* The CLI is spawned and only then recorded; a failed record kills it.
LoginSpawn(l) ==
  /\ Served(l) /\ at[l] = "spawn" /\ kindOf[l] = "cli"
  /\ \/ proc' = [proc EXCEPT ![l] = "alive"] /\ MoveLogin(l, "record") /\ UNCHANGED <<session, store>>
     \/ FinishLogin(l, "failed") /\ MoveLogin(l, "done") /\ UNCHANGED proc
  /\ UNCHANGED <<kindOf, up, queue, submitted, fed, receipt, saved>>

RecordLogin(l) ==
  /\ Served(l) /\ at[l] \in {"record", "verify_record"}
  /\ \/ /\ receipt' = [receipt EXCEPT ![l] = TRUE]
        /\ MoveLogin(l, IF at[l] = "record" THEN "loop" ELSE "verify")
        /\ UNCHANGED <<session, store, proc>>
     \/ /\ proc' = [proc EXCEPT ![l] = "dead"] /\ UNCHANGED receipt
        /\ FinishLogin(l, "failed") /\ MoveLogin(l, "done")
  /\ UNCHANGED <<kindOf, up, queue, submitted, fed, saved>>

\* append: the first output makes the session wait for the user. The API-key handoff
\* prints its own instructions.
LoginOutput(l) ==
  /\ Served(l) /\ session[l] = "starting"
  /\ \/ at[l] = "loop" /\ UNCHANGED at
     \/ at[l] = "spawn" /\ kindOf[l] = "tuara" /\ MoveLogin(l, "loop")
  /\ session' = [session EXCEPT ![l] = "awaiting_user"]
  /\ UNCHANGED <<kindOf, up, queue, submitted, fed, store, proc, receipt, saved>>

\* One control message: an input is written to the CLI (the write may time out), or
\* becomes the key; anything else cancels. Verification ignores late input.
LoginReceive(l) ==
  /\ Served(l) /\ at[l] \in {"loop", "verify"} /\ queue[l] # <<>>
  /\ queue' = [queue EXCEPT ![l] = Tail(@)]
  /\ LET x == Head(queue[l]) IN
     \/ x \in Inputs /\ at[l] = "loop"
        /\ fed' = [fed EXCEPT ![l][x] = @ + 1]
        /\ IF kindOf[l] = "tuara"
           THEN FinishLogin(l, "verifying") /\ MoveLogin(l, "verify")
           ELSE UNCHANGED <<session, store>> /\ (UNCHANGED at \/ MoveLogin(l, "failed"))
     \/ x \in Inputs /\ at[l] = "verify" /\ UNCHANGED <<fed, session, store, at>>
     \/ x = "cancel" /\ UNCHANGED fed
        /\ IF kindOf[l] = "tuara" THEN FinishLogin(l, "cancelled") /\ MoveLogin(l, "done")
           ELSE MoveLogin(l, "cancelled") /\ UNCHANGED <<session, store>>
  /\ UNCHANGED <<kindOf, up, submitted, proc, receipt, saved>>

LoginDeadline(l) ==
  /\ Served(l) /\ at[l] \in {"loop", "verify"}
  /\ IF kindOf[l] = "tuara" THEN FinishLogin(l, "expired") /\ MoveLogin(l, "done")
     ELSE MoveLogin(l, "expired") /\ UNCHANGED <<session, store>>
  /\ UNCHANGED <<kindOf, up, queue, submitted, fed, proc, receipt, saved>>

\* The process ends by itself, leaving descendants or not.
LoginExit(l) ==
  /\ Served(l) /\ at[l] \in {"loop", "verify"} /\ proc[l] = "alive"
  /\ \E p \in {"group", "dead"} : proc' = [proc EXCEPT ![l] = p]
  /\ \E ok \in BOOLEAN : MoveLogin(l, IF ~ok THEN "failed"
                                 ELSE IF at[l] = "loop" THEN "exited" ELSE "verified")
  /\ UNCHANGED <<kindOf, up, session, queue, submitted, fed, store, receipt, saved>>

\* guard.stop and wait: the whole process group is gone before the status says so.
LoginStop(l) ==
  /\ Served(l) /\ at[l] \in {"cancelled", "expired", "failed", "exited", "verified"}
  /\ proc' = [proc EXCEPT ![l] = "dead"]
  /\ \/ at[l] \in {"cancelled", "expired", "failed"} /\ FinishLogin(l, at[l])
        /\ MoveLogin(l, "done") /\ UNCHANGED saved
     \/ at[l] = "exited" /\ FinishLogin(l, "verifying") /\ MoveLogin(l, "verify_spawn")
        /\ UNCHANGED saved
     \/ at[l] = "verified" /\ FinishLogin(l, "succeeded") /\ MoveLogin(l, "done")
        /\ saved' = saved \cup {l}
  /\ UNCHANGED <<kindOf, up, queue, submitted, fed, receipt>>

\* process::verify: a second process asks the CLI for its status.
VerifySpawn(l) ==
  /\ Served(l) /\ at[l] = "verify_spawn"
  /\ \/ proc' = [proc EXCEPT ![l] = "alive"] /\ MoveLogin(l, "verify_record")
        /\ UNCHANGED <<session, store>>
     \/ FinishLogin(l, "failed") /\ MoveLogin(l, "done") /\ UNCHANGED proc
  /\ UNCHANGED <<kindOf, up, queue, submitted, fed, receipt, saved>>

\* tuara: the key is verified by the provider and saved; no cancellation after that.
TuaraVerify(l) ==
  /\ Served(l) /\ at[l] = "verify" /\ kindOf[l] = "tuara"
  /\ \/ FinishLogin(l, "failed") /\ UNCHANGED saved
     \/ saved' = saved \cup {l} /\ FinishLogin(l, "succeeded")
  /\ MoveLogin(l, "done")
  /\ UNCHANGED <<kindOf, up, queue, submitted, fed, proc, receipt>>

\* The guards are dropped when the supervisor returns.
LoginReturn(l) ==
  /\ Served(l) /\ at[l] = "done" /\ receipt[l]
  /\ receipt' = [receipt EXCEPT ![l] = FALSE]
  /\ UNCHANGED <<kindOf, up, session, at, queue, submitted, fed, store, proc, saved>>
-----------------------------------------------------------------------------
(* Daemons.                                                                *)

LoginShutdown(d) ==
  /\ up[d] = "up" /\ up' = [up EXCEPT ![d] = "stopping"]
  /\ UNCHANGED <<kindOf, session, at, queue, submitted, fed, store, proc, receipt, saved>>

\* The daemon exits, having waited 5 seconds at most, or is killed: its threads and
\* locks go, its children stay.
LoginDaemonGone(d) ==
  LET mine == {l \in LoginIds : RootOf[l] = d /\ session[l] # "none"} IN
  /\ up[d] # "down" /\ up' = [up EXCEPT ![d] = "down"]
  /\ session' = [l \in LoginIds |-> IF l \in mine THEN "gone" ELSE session[l]]
  /\ at' = [l \in LoginIds |-> IF l \in mine THEN "none" ELSE at[l]]
  /\ queue' = [l \in LoginIds |-> IF l \in mine THEN <<>> ELSE queue[l]]
  /\ store' = [k \in LoginKinds |-> IF store[k] \in mine THEN NoLogin ELSE store[k]]
  /\ UNCHANGED <<kindOf, submitted, fed, proc, receipt, saved>>

RecoverLoginsLazily(d) ==
  /\ up[d] = "down" /\ up' = [up EXCEPT ![d] = "up"]
  /\ receipt' = [l \in LoginIds |-> receipt[l] /\ RootOf[l] # d]
  /\ UNCHANGED <<kindOf, session, at, queue, submitted, fed, store, proc, saved>>
\* process::recover at startup: a recorded process that still has its identity is
\* killed with its group, every receipt is removed.
RecoverLogins(d) ==
  LET mine == {l \in LoginIds : RootOf[l] = d /\ receipt[l]} IN
  /\ up[d] = "down" /\ up' = [up EXCEPT ![d] = "up"]
  /\ proc' = [l \in LoginIds |-> IF l \in mine /\ proc[l] = "alive" THEN "dead" ELSE proc[l]]
  /\ receipt' = [l \in LoginIds |-> receipt[l] /\ l \notin mine]
  /\ UNCHANGED <<kindOf, session, at, queue, submitted, fed, store, saved>>

\* A process without a supervisor ends on its own.
OrphanExit(l) ==
  /\ CliRunning(l) /\ at[l] = "none" /\ proc' = [proc EXCEPT ![l] = "dead"]
  /\ UNCHANGED <<kindOf, up, session, at, queue, submitted, fed, store, receipt, saved>>

SuperviseLogin(l) ==
  \/ LoginSpawn(l) \/ RecordLogin(l) \/ LoginReceive(l) \/ LoginDeadline(l)
  \/ LoginStop(l) \/ VerifySpawn(l) \/ TuaraVerify(l) \/ LoginReturn(l)

LoginNext ==
  \/ \E l \in LoginIds :
       \/ (\E k \in LoginKinds : LoginStart(l, k)) \/ LoginCancel(l) \/ \E x \in Inputs : LoginSubmit(l, x)
       \/ LoginOutput(l) \/ SuperviseLogin(l) \/ LoginExit(l) \/ OrphanExit(l)
  \/ \E d \in DataRoots : LoginShutdown(d) \/ LoginDaemonGone(d) \/ RecoverLogins(d)

LoginSpec == LoginInit /\ [][LoginNext]_loginVars
-----------------------------------------------------------------------------
LoginTypeOK ==
  /\ kindOf \in [LoginIds -> LoginKinds]
  /\ up \in [DataRoots -> {"up", "stopping", "down"}]
  /\ session \in [LoginIds -> LoginEnded \cup {"none", "starting", "awaiting_user",
                                          "verifying", "gone"}]
  /\ at \in [LoginIds -> {"none", "spawn", "record", "loop", "cancelled", "expired",
             "failed", "exited", "verified", "verify_spawn", "verify_record", "verify", "done"}]
  /\ \A l \in LoginIds : queue[l] \in Seq(Inputs \cup {"cancel"}) /\ Len(queue[l]) <= QueueLimit
  /\ submitted \in [LoginIds -> SUBSET Inputs]
  /\ fed \in [LoginIds -> [Inputs -> Nat]]
  /\ store \in [LoginKinds -> LoginIds \cup {NoLogin}]
  /\ proc \in [LoginIds -> {"none", "alive", "group", "dead"}]
  /\ receipt \in [LoginIds -> BOOLEAN] /\ saved \subseteq LoginIds

\* However many daemons share a credential store, one login at a time works on it,
\* and a session that ended does not keep the others out.
OneLoginPerStore ==
  /\ \A l, m \in LoginIds : l # m /\ kindOf[l] = kindOf[m] => ~(LoginPending(l) /\ LoginPending(m))
  /\ \A k \in LoginKinds : store[k] # NoLogin => LoginPending(store[k])

\* A reported end means that nothing of the login still runs, descendants included.
EndedMeansStopped == \A l \in LoginIds : session[l] \in LoginEnded => ~CliRunning(l)

\* A submitted response reaches the CLI at most once, however often it is submitted.
FedOnce == \A l \in LoginIds, x \in Inputs : fed[l][x] <= 1

\* A CLI that outlived its daemon is stopped before that daemon serves again, if it
\* was recorded and is still the process that the receipt names.
RecordedOrphansStopped ==
  [][\A d \in DataRoots : up[d] = "down" /\ up'[d] = "up" =>
       \A l \in LoginIds : RootOf[l] = d /\ receipt[l] => proc'[l] # "alive"]_loginVars

\* Every login ends, by itself, at its deadline or with its daemon.
LoginEnds == \A l \in LoginIds : LoginPending(l) ~> ~LoginPending(l)

\* The invariants together: what every request, crash and retry above must preserve.
LoginInv ==
  /\ LoginTypeOK
  /\ OneLoginPerStore
  /\ EndedMeansStopped
  /\ FedOnce
=============================================================================
