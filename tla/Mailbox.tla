------------------------------- MODULE Mailbox -------------------------------
(***************************************************************************)
(* The durable mailbox of one task (store.rs send, recipients, steer,      *)
(* acknowledge) and what makes a finished worker run again: runtime.rs     *)
(* begin and finish_ref record what an invocation has been shown,          *)
(* notify_completed_children writes one notice per result of a child, and  *)
(* wake_notified gives a notified worker a follow-up step, in two commits  *)
(* between which the daemon may crash.                                     *)
(***************************************************************************)
EXTENDS Naturals, Sequences, FiniteSets, FiniteSetsExt

CONSTANTS
  Members,       \* workers of the task, each with a step it is assigned to
  Tests,         \* workers of an environment step: not conversational
  MaxMessages,   \* bound: messages ever sent
  MaxResults,    \* bound: results the delegated child reaches
  MaxMailCrash   \* bound: daemon crashes

ASSUME MailboxAssumption ==
  Tests \subseteq Members /\ MaxMessages \in Nat /\ MaxResults \in Nat /\ MaxMailCrash \in Nat

VARIABLES
  mail,        \* messages by sequence number: [to, wakeable, about, bred]
  unread,      \* receipts with ack = 0: pairs <<seq, worker>>
  cursor,      \* cursors.seq
  dispatched,  \* notifications.dispatched_seq
  wstat,       \* workers.status
  sstat,       \* state of the step the worker is assigned to
  gen,         \* 0 for its own step, then the number of its follow-up
  waking,      \* worker whose follow-up was added and whose row was not updated yet
  strays,      \* follow-up steps of a worker that its row does not point to
  mtask,       \* tasks.status
  result,      \* results the child of worker Caller has reached
  receipts,    \* results for which external_ops has a notice
  mailCrashes

mailVars == <<mail, unread, cursor, dispatched, wstat, sstat, gen, waking, strays, mtask,
              result, receipts, mailCrashes>>

NoMember == "nobody"
Operator == "operator"
Caller   == CHOOSE w \in Members \ Tests : TRUE     \* the worker that delegated the child

MailInit ==
  /\ mail = << >> /\ unread = {} /\ strays = [w \in Members |-> 0] /\ waking = NoMember /\ mtask = "running"
  /\ cursor = [w \in Members |-> 0] /\ dispatched = [w \in Members |-> 0]
  /\ wstat = [w \in Members |-> "working"] /\ sstat = [w \in Members |-> "running"]
  /\ gen = [w \in Members |-> 0] /\ result = 0 /\ receipts = {} /\ mailCrashes = 0
-----------------------------------------------------------------------------
\* recipients: a broadcast skips the sender while it has peers.
Recipients(from, dest) ==
  IF dest # "task" THEN {dest}
  ELSE IF Members \ {from} = {} THEN {from} ELSE Members \ {from}

\* send: the receipts, and every idle recipient is notified if the message may wake. A
\* broadcast of a follow-up worker is readable and never wakes.
Deliver(from, dest, wakeable, about) ==
  LET n == Len(mail) + 1
      to == Recipients(from, dest)
  IN  /\ n <= MaxMessages
      /\ mail' = Append(mail, [to |-> to, wakeable |-> wakeable, about |-> about,
                               bred |-> dest = "task" /\ from \in Members /\ gen[from] > 0])
      /\ unread' = unread \cup {<<n, w>> : w \in to}
      /\ wstat' = [w \in Members |-> IF w \in to /\ wakeable /\ wstat[w] = "idle"
                                     THEN "notified" ELSE wstat[w]]
RecursiveBroadcast(from, dest) == dest = "task" /\ from # Operator /\ gen[from] > 0
SendMail(from, dest, actionable) ==
  /\ from \in Members => wstat[from] = "working"
  /\ Deliver(from, dest, actionable /\ ~RecursiveBroadcast(from, dest), 0)
  /\ UNCHANGED <<cursor, dispatched, sstat, gen, waking, strays, mtask, result, receipts, mailCrashes>>
\* steer: the synthetic operator worker, unless the task is cancelled.
Steer(dest, actionable) == mtask # "cancelled" /\ SendMail(Operator, dest, actionable)

Inbox(w)   == {n \in 1 .. Len(mail) : <<n, w>> \in unread}
Waiting(w) == {n \in Inbox(w) : mail[n].wakeable /\ n > dispatched[w]}

\* acknowledge: the cursor stops before the first message that is still unread.
AcknowledgePast(w, ns) ==
  /\ wstat[w] = "working" /\ ns \subseteq Inbox(w) /\ ns # {}
  /\ unread' = {u \in unread : ~(u[2] = w /\ u[1] \in ns)}
  /\ cursor' = [cursor EXCEPT ![w] = Max(ns)]
  /\ UNCHANGED <<mail, dispatched, wstat, sstat, gen, waking, strays, mtask, result, receipts, mailCrashes>>
Acknowledge(w, ns) ==
  /\ wstat[w] = "working" /\ ns \subseteq Inbox(w) /\ ns # {}
  /\ unread' = {u \in unread : ~(u[2] = w /\ u[1] \in ns)}
  /\ LET left == Inbox(w) \ ns
     IN  cursor' = [cursor EXCEPT ![w] = IF left = {} THEN Len(mail) ELSE Min(left) - 1]
  /\ UNCHANGED <<mail, dispatched, wstat, sstat, gen, waking, strays, mtask, result, receipts, mailCrashes>>
-----------------------------------------------------------------------------
(* The invocation: begin and finish_ref.                                   *)

BeginStep(w) ==
  /\ waking = NoMember /\ mtask = "running" /\ sstat[w] = "pending"
  /\ sstat' = [sstat EXCEPT ![w] = "running"] /\ wstat' = [wstat EXCEPT ![w] = "working"]
  /\ dispatched' = [dispatched EXCEPT ![w] = LET got == {n \in 1 .. Len(mail) : w \in mail[n].to}
                                             IN  IF got = {} THEN 0 ELSE Max(got)]
  /\ UNCHANGED <<mail, unread, cursor, gen, waking, strays, mtask, result, receipts, mailCrashes>>
FinishStep(w) ==
  /\ waking = NoMember /\ sstat[w] = "running"
  /\ \/ sstat' = [sstat EXCEPT ![w] = "succeeded"]
        /\ wstat' = [wstat EXCEPT ![w] = IF Waiting(w) # {} THEN "notified" ELSE "idle"]
     \/ sstat' = [sstat EXCEPT ![w] = "failed"] /\ wstat' = [wstat EXCEPT ![w] = "failed"]
  /\ UNCHANGED <<mail, unread, cursor, dispatched, gen, waking, strays, mtask, result, receipts, mailCrashes>>
\* A stray follow-up is run by a worker of its own and ends.
FinishStray ==
  /\ waking = NoMember /\ mtask = "running"
  /\ \E w \in Members : strays[w] > 0 /\ strays' = [strays EXCEPT ![w] = @ - 1]
  /\ UNCHANGED <<mail, unread, cursor, dispatched, wstat, sstat, gen, waking, mtask, result, receipts, mailCrashes>>
SettleTask ==
  /\ waking = NoMember /\ mtask = "running" /\ \A w \in Members : strays[w] = 0
  /\ \A w \in Members : sstat[w] \in {"succeeded", "failed"}
  /\ mtask' = IF \E w \in Members : sstat[w] = "failed" THEN "failed" ELSE "succeeded"
  /\ UNCHANGED <<mail, unread, cursor, dispatched, wstat, sstat, gen, waking, strays, result, receipts, mailCrashes>>
CancelTask ==
  /\ mtask \in {"running", "succeeded"} /\ mtask' = "cancelled"
  /\ UNCHANGED <<mail, unread, cursor, dispatched, wstat, sstat, gen, waking, strays, result, receipts, mailCrashes>>
-----------------------------------------------------------------------------
(* The scheduler's two passes over the mailbox.                            *)

ChildEnds ==
  /\ result < MaxResults /\ result' = result + 1
  /\ UNCHANGED <<mail, unread, cursor, dispatched, wstat, sstat, gen, waking, strays, mtask, receipts, mailCrashes>>
\* notify_completed_children: the receipt for this version, revision and status, and the
\* message of the caller to itself, commit together.
NotifyCompletedChild ==
  /\ waking = NoMember /\ result > 0 /\ result \notin receipts
  /\ Deliver(Caller, Caller, TRUE, result) /\ receipts' = receipts \cup {result}
  /\ UNCHANGED <<cursor, dispatched, sstat, gen, waking, strays, mtask, result, mailCrashes>>

\* wake_notified: the follow-up step is added (and a succeeded task runs again) ...
Wakeable(w) == /\ wstat[w] = "notified" /\ mtask \in {"running", "succeeded"}
               /\ sstat[w] = "succeeded" /\ w \notin Tests
WakeNotified(w) ==
  /\ waking = NoMember /\ Wakeable(w)
  /\ waking' = w /\ strays' = [strays EXCEPT ![w] = @ + 1] /\ mtask' = "running"
  /\ UNCHANGED <<mail, unread, cursor, dispatched, wstat, sstat, gen, result, receipts, mailCrashes>>
\* ... and then the worker's row is pointed to it.
WakeCommit ==
  /\ waking # NoMember
  /\ LET w == waking
     IN  /\ gen' = [gen EXCEPT ![w] = @ + 1] /\ strays' = [strays EXCEPT ![w] = @ - 1]
         /\ sstat' = [sstat EXCEPT ![w] = "pending"] /\ wstat' = [wstat EXCEPT ![w] = "idle"]
  /\ waking' = NoMember
  /\ UNCHANGED <<mail, unread, cursor, dispatched, mtask, result, receipts, mailCrashes>>

\* A crash between the two commits: the wake is forgotten. Running attempts become
\* uncertain; their workers stay where they are until the operator reconciles them as
\* failed. (A crash elsewhere leaves the mailbox as it is; Scheduler has those.)
MailCrash ==
  /\ waking # NoMember /\ mailCrashes < MaxMailCrash /\ mailCrashes' = mailCrashes + 1 /\ waking' = NoMember
  /\ LET hit == {w \in Members : sstat[w] = "running"}
     IN  /\ sstat' = [w \in Members |-> IF w \in hit THEN "failed" ELSE sstat[w]]
         /\ wstat' = [w \in Members |-> IF w \in hit THEN "failed" ELSE wstat[w]]
  /\ UNCHANGED <<mail, unread, cursor, dispatched, gen, strays, mtask, result, receipts>>
-----------------------------------------------------------------------------
MailWork ==
  \/ NotifyCompletedChild \/ WakeCommit \/ SettleTask \/ FinishStray
  \/ \E w \in Members : BeginStep(w) \/ FinishStep(w) \/ WakeNotified(w)
MailNext ==
  \/ MailWork \/ ChildEnds \/ CancelTask \/ MailCrash
  \/ \E w \in Members, d \in Members \cup {"task"} : SendMail(w, d, TRUE)
  \/ \E w \in Members : SendMail(w, "task", FALSE)
  \/ Steer("task", TRUE)
  \/ \E w \in Members, ns \in SUBSET (1 .. Len(mail)) : Acknowledge(w, ns)
MailSpec == MailInit /\ [][MailNext]_mailVars
-----------------------------------------------------------------------------
MailTypeOK ==
  /\ wstat \in [Members -> {"working", "idle", "notified", "failed"}]
  /\ sstat \in [Members -> {"pending", "running", "succeeded", "failed"}]
  /\ mtask \in {"running", "succeeded", "failed", "cancelled"}
  /\ waking \in Members \cup {NoMember} /\ strays \in [Members -> Nat] /\ unread \subseteq (1 .. Len(mail)) \X Members
  /\ \A w \in Tests : gen[w] = 0
  /\ \A w \in Members : cursor[w] <= Len(mail) /\ dispatched[w] <= Len(mail)

\* "never skips an unread message": whatever the order of acknowledgements, nothing a
\* reader that starts at its cursor could miss is unread.
CursorSkipsNothing == \A u \in unread : cursor[u[2]] < u[1]

\* Follow-ups do not breed: every follow-up of a worker was caused by a message of its
\* own that is actionable and not a follow-up's broadcast, or by a crash between the two
\* commits of wake_notified.
Causes(w) == {n \in 1 .. Len(mail) : w \in mail[n].to /\ ~mail[n].bred}
NoCascade ==
  \A w \in Members : gen[w] + strays[w] <= Cardinality(Causes(w)) + mailCrashes

\* One notice for each result of the child, however often the scheduler looks.
NoticeOnce ==
  \A n, k \in 1 .. Len(mail) : (mail[n].about = mail[k].about /\ mail[n].about > 0) => n = k

\* A message that may wake reaches an invocation: the worker is begun again with the
\* message in its mailbox, acknowledges it, or the task or its step has failed.
MailSeen ==
  \A w \in Members \ Tests, n \in 1 .. MaxMessages :
    (n \in Waiting(w)) ~> (n \notin Waiting(w) \/ wstat[w] = "failed"
                              \/ mtask \notin {"running", "succeeded"})

\* The invariants together: what every request, crash and retry above must preserve.
MailInv ==
  /\ MailTypeOK
  /\ CursorSkipsNothing
  /\ NoCascade
  /\ NoticeOnce
=============================================================================
