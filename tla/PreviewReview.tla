---------------------------- MODULE PreviewReview ----------------------------
(* What lets a revision of a Run become a preview job (preview/review.rs,     *)
(* feedback.rs, enqueue and setup): a review step of a real agent, executed   *)
(* at the exact head with main integrated, under the policy and the browser   *)
(* feedback of the moment.                                                    *)
(*                                                                            *)
(* Commits, pushes to main, feedback and policy changes arrive while the      *)
(* review is prepared, dispatched, executed and judged.                       *)
EXTENDS Naturals, Sequences, FiniteSets

CONSTANTS MaxReviews,   \* bound: review steps (12 in schedule_review)
          MaxPvMoves    \* bound: commits, pushes, feedback and policy changes

ASSUME PrBounds == MaxReviews \in Nat \ {0} /\ MaxPvMoves \in Nat

VARIABLES
  prHead,     \* head of the Run branch: own commits and integrated main
  prMain,     \* main
  prGen,      \* preview_policies.generation
  prFeedback, \* number of feedback messages
  prSteps,    \* review steps: state, row of preview_reviews, fingerprint, execution, verdict
  prTries,    \* attempts of each step
  prEnq,      \* the enqueue under way: where it is and what it has read
  prJobs,     \* preview_jobs: the revisions enqueued
  prMoves,
  prDone,     \* history: reviews carried out and accepted: what the agent saw
  prCurrent   \* history: the feedback that each job's enqueue looked at

prVars == <<prHead, prMain, prGen, prFeedback, prSteps, prTries, prEnq, prJobs, prMoves, prDone,
            prCurrent>>
prFacts == <<prHead, prMain, prGen, prFeedback>>

NoBind == [head |-> <<>>, main |-> 0, gen |-> 0, fb |-> 0, try |-> 0]
NoEnq == [pc |-> "idle", head |-> <<>>, main |-> 0, gen |-> 0, fb |-> 0]
PrStep == [st |-> "pending", bind |-> NoBind, exec |-> NoBind, ok |-> FALSE]

PrInit ==
  /\ prHead = [own |-> 0, main |-> 0] /\ prMain = 0 /\ prGen = 0 /\ prFeedback = 0
  /\ prSteps = <<PrStep>> /\ prTries = <<0>> /\ prEnq = NoEnq
  /\ prJobs = {} /\ prMoves = 0 /\ prDone = {} /\ prCurrent = {}

ReviewSteps == 1..Len(prSteps)

-----------------------------------------------------------------------------
(* feedback::snapshot: the operator's messages of this Run, in order.           *)
FeedbackSnapshot == prFeedback

(* prepare_review, just before the step is dispatched, on a thread of its own:  *)
(* the policy, main, the integration of that main and the feedback are read    *)
(* one after the other; the row and the event then bind the step to them. What *)
(* moved under the integration blocks the task until the operator resumes it.  *)
Bound(s, bind, st) == [prSteps EXCEPT ![s].bind = bind, ![s].st = st]

PrepareReview(s) ==
  /\ prSteps[s].st = "pending" /\ prTries[s] < 2
  /\ prSteps' = Bound(s, [NoBind EXCEPT !.gen = prGen], "policy")
  /\ UNCHANGED <<prFacts, prTries, prEnq, prJobs, prMoves, prDone, prCurrent>>

ReadMain(s) ==
  /\ prSteps[s].st = "policy"
  /\ prSteps' = Bound(s, [prSteps[s].bind EXCEPT !.main = prMain, !.head = <<prHead>>], "main")
  /\ UNCHANGED <<prFacts, prTries, prEnq, prJobs, prMoves, prDone, prCurrent>>

IntegrateReviewed(s) ==
  LET bind == prSteps[s].bind  h == [prHead EXCEPT !.main = bind.main] IN
  /\ prSteps[s].st = "main"
  /\ IF bind.head = <<prHead>> /\ bind.main = prMain
     THEN prHead' = h /\ prSteps' = Bound(s, [bind EXCEPT !.head = <<h>>], "integrated")
     ELSE prSteps' = Bound(s, NoBind, "pending") /\ UNCHANGED prHead
  /\ UNCHANGED <<prMain, prGen, prFeedback, prTries, prEnq, prJobs, prMoves, prDone, prCurrent>>

BindRevision(s) ==
  /\ prSteps[s].st = "integrated"
  /\ prSteps' = Bound(s, [prSteps[s].bind EXCEPT !.fb = FeedbackSnapshot], "prepared")
  /\ UNCHANGED <<prFacts, prTries, prEnq, prJobs, prMoves, prDone, prCurrent>>

(* bind_attempt                                                               *)
BindAttempt(s) ==
  /\ prSteps[s].st = "prepared"
  /\ prTries' = [prTries EXCEPT ![s] = @ + 1]
  /\ prSteps' = [prSteps EXCEPT ![s].bind.try = prTries'[s], ![s].st = "bound"]
  /\ UNCHANGED <<prFacts, prEnq, prJobs, prMoves, prDone, prCurrent>>

(* verify_execution: the worker's worktree is at the bound head (or fast-       *)
(* forwarded to it) and the execution is recorded; then feedback_prompt        *)
(* refuses feedback that arrived since the preparation.                       *)

VerifyExecution(s) ==
  /\ prSteps[s].st = "bound"
  /\ IF prSteps[s].bind.fb = FeedbackSnapshot
     THEN prSteps' = [prSteps EXCEPT ![s].st = "running", ![s].exec = prSteps[s].bind]
     ELSE prSteps' = [prSteps EXCEPT ![s].st = IF prTries[s] < 2 THEN "pending" ELSE "failed"]
  /\ UNCHANGED <<prFacts, prTries, prEnq, prJobs, prMoves, prDone, prCurrent>>

(* The agent's verdict, or a failed attempt that is tried again.               *)
ReviewEnds(s) ==
  /\ prSteps[s].st = "running"
  /\ \/ \E ok \in BOOLEAN :
          /\ prSteps' = [prSteps EXCEPT ![s].st = "succeeded", ![s].ok = ok]
          /\ prDone' = IF ok THEN prDone \cup {prSteps[s].exec} ELSE prDone
     \/ /\ prSteps' = [prSteps EXCEPT ![s].st = IF prTries[s] < 2 THEN "pending" ELSE "failed"]
        /\ UNCHANGED prDone
  /\ UNCHANGED <<prFacts, prTries, prEnq, prJobs, prMoves, prCurrent>>

(* reviewed: the latest step with this head and generation whose bound attempt  *)
(* succeeded and was executed at the head; its feedback must be current.       *)
Evidence(s) ==
  /\ prSteps[s].bind.head = prEnq.head /\ prSteps[s].bind.gen = prEnq.gen
  /\ prSteps[s].st = "succeeded"
  /\ prSteps[s].exec.try = prSteps[s].bind.try /\ prSteps[s].exec.head = prSteps[s].bind.head

FeedbackCurrent(s) == prSteps[s].bind.fb = FeedbackSnapshot

Latest(S) == CHOOSE s \in S : \A t \in S : t <= s
EvidenceSteps == {s \in ReviewSteps : Evidence(s)}
ReviewedOnce == \E s \in EvidenceSteps : prSteps[s].ok

Reviewed ==
  /\ EvidenceSteps # {} /\ FeedbackCurrent(Latest(EvidenceSteps))
  /\ prSteps[Latest(EvidenceSteps)].ok /\ prSteps[Latest(EvidenceSteps)].bind.main = prEnq.main

(* A refusal of the current tree stops the scan with an error.                 *)
PrRefused ==
  /\ EvidenceSteps # {} /\ FeedbackCurrent(Latest(EvidenceSteps))
  /\ ~prSteps[Latest(EvidenceSteps)].ok

TaskQuiet == \A s \in ReviewSteps : prSteps[s].st = "succeeded"

(* enqueue of a succeeded task reads the policy, the head, main and then the    *)
(* evidence with the feedback; only then it inserts a job, or another review.   *)
EnqueueReads ==
  /\ \/ TaskQuiet /\ prEnq = NoEnq /\ prEnq' = [NoEnq EXCEPT !.pc = "head", !.gen = prGen]
     \/ prEnq.pc = "head" /\ prEnq' = [prEnq EXCEPT !.pc = "main", !.head = <<prHead>>]
     \/ prEnq.pc = "main" /\ prEnq' = [prEnq EXCEPT !.pc = "reviewed", !.main = prMain]
     \/ /\ prEnq.pc = "reviewed" /\ Reviewed
        /\ prEnq' = [prEnq EXCEPT !.pc = "insert", !.fb = prFeedback]
     \/ prEnq.pc = "reviewed" /\ PrRefused /\ prEnq' = NoEnq
  /\ UNCHANGED <<prFacts, prSteps, prTries, prJobs, prMoves, prDone, prCurrent>>

EnqueueRevision ==
  /\ prEnq.pc = "insert" /\ prEnq' = NoEnq
  /\ LET job == [head |-> prEnq.head, main |-> prEnq.main, gen |-> prEnq.gen] IN
       /\ prJobs' = prJobs \cup {job}
       /\ prCurrent' = IF job \in prJobs THEN prCurrent
                       ELSE prCurrent \cup {[job |-> job, fb |-> prEnq.fb]}
  /\ UNCHANGED <<prFacts, prSteps, prTries, prMoves, prDone>>

(* schedule_review: a review step of one attempt.                             *)
ScheduleReview ==
  /\ prEnq.pc = "reviewed" /\ ~Reviewed /\ ~PrRefused /\ prEnq' = NoEnq
  /\ Len(prSteps) < MaxReviews
  /\ prSteps' = Append(prSteps, PrStep) /\ prTries' = Append(prTries, 1)
  /\ UNCHANGED <<prFacts, prJobs, prMoves, prDone, prCurrent>>

-----------------------------------------------------------------------------
(* A commit on the Run branch, a push to main, feedback from the browser, a new  *)
(* policy (setup).                                                            *)
SetupPolicy == prGen' = prGen + 1 /\ UNCHANGED <<prHead, prMain, prFeedback>>
OthersRevise ==
  /\ prMoves < MaxPvMoves /\ prMoves' = prMoves + 1
  /\ \/ prHead' = [prHead EXCEPT !.own = @ + 1] /\ UNCHANGED <<prMain, prGen, prFeedback>>
     \/ prMain' = prMain + 1 /\ UNCHANGED <<prHead, prGen, prFeedback>>
     \/ prFeedback' = prFeedback + 1 /\ UNCHANGED <<prHead, prMain, prGen>>
     \/ SetupPolicy
  /\ UNCHANGED <<prSteps, prTries, prEnq, prJobs, prDone, prCurrent>>

PrNext ==
  \/ \E s \in ReviewSteps :
       \/ PrepareReview(s) \/ ReadMain(s) \/ IntegrateReviewed(s) \/ BindRevision(s)
       \/ BindAttempt(s) \/ VerifyExecution(s) \/ ReviewEnds(s)
  \/ EnqueueReads \/ EnqueueRevision \/ ScheduleReview \/ OthersRevise

PrSpec == PrInit /\ [][PrNext]_prVars

-----------------------------------------------------------------------------
(* Type invariant.                                                            *)
PrTypeOK ==
  /\ prHead \in [own : 0..MaxPvMoves, main : 0..prMain]
  /\ prMain + prGen + prFeedback + prHead.own = prMoves
  /\ Len(prSteps) = Len(prTries) /\ Len(prSteps) \in 1..MaxReviews
  /\ \A s \in ReviewSteps :
       /\ prSteps[s].st \in {"pending", "policy", "main", "integrated", "prepared", "bound",
                              "running", "succeeded", "failed"}
       /\ prSteps[s].bind.try \in {0, prTries[s]}
       /\ (prSteps[s].st \in {"running", "succeeded"}) =>
            prSteps[s].exec = prSteps[s].bind

(* A job is enqueued only for a revision that a review agent accepted after     *)
(* looking at exactly that head, with exactly that main integrated, under that *)
(* policy and with every feedback message that had arrived when the enqueue    *)
(* looked for the evidence. Feedback after that is left to the checks of the   *)
(* publication.                                                               *)
PreviewWasReviewed ==
  \A c \in prCurrent : \E d \in prDone :
    d.head = c.job.head /\ d.main = c.job.main /\ d.gen = c.job.gen /\ d.fb = c.fb

(* Main, as it was when the job was enqueued or a little before, is part of     *)
(* every head a preview is built from.                                        *)
PreviewContainsMain == \A j \in prJobs : j.head[1].main = j.main

\* The invariants together: what every request, crash and retry above must preserve.
PrInv ==
  /\ PrTypeOK
  /\ PreviewWasReviewed
  /\ PreviewContainsMain
=============================================================================
