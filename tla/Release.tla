------------------------------- MODULE Release -------------------------------
(* Publication of a package after a qualified merge                           *)
(* (package_release/{mod,publication,artifacts}.rs): an immutable tag, the    *)
(* workflow the tag starts, the published release and its verification.       *)
(*                                                                            *)
(* Tag, workflow runs, release and main live on GitHub, where others change   *)
(* them between any two calls.  The step may die anywhere; an answer may be   *)
(* lost; a later attempt continues from the records in external_ops.          *)
EXTENDS Naturals, FiniteSets

CONSTANTS MaxRelTries,   \* bound: attempts of the step
          MaxOthers      \* bound: changes made by others

ASSUME RelBounds == MaxRelTries \in Nat /\ MaxOthers \in Nat

VARIABLES
  relValid,     \* check_online and package_policy pass
  relMain,      \* the base branch is still at the merged commit
  relTag,       \* tag on GitHub: "none", "ours" (created by this step),
                \* "same" (another's, at the commit), "other"
  relRuns,      \* tag-push workflow runs of the commit on GitHub
  relPub,       \* identity of the published release and its assets, 0: none
  relIntent,    \* package-release.intent on record
  relRun,       \* package-release.workflow, 0: none
  relPinned,    \* package-release.publication, 0: none
  relVerified,  \* package-release.verified: run and publication, or <<>>
  relTry,       \* the running attempt
  relTries, relOthers,
  relHad        \* history: runs and publications accepted by any attempt

relVars == <<relValid, relMain, relTag, relRuns, relPub, relIntent, relRun, relPinned,
             relVerified, relTry, relTries, relOthers, relHad>>
relGithub == <<relMain, relTag, relRuns, relPub>>
relRecord == <<relIntent, relRun, relPinned, relVerified>>

RelIdle == [pc |-> "idle", prior |-> FALSE, pub |-> 0]

RelInit ==
  /\ relValid = TRUE /\ relMain = TRUE
  /\ relTag \in {"none", "same", "other"}
  /\ relRuns = IF relTag = "same" THEN {1} ELSE {}
  /\ relPub = 0
  /\ relIntent = FALSE /\ relRun = 0 /\ relPinned = 0 /\ relVerified = <<>>
  /\ relTry = RelIdle /\ relTries = 0 /\ relOthers = 0 /\ relHad = {}

RelAt(pc) == relTry.pc = pc
RelTo(pc) == relTry' = [relTry EXCEPT !.pc = pc]

-----------------------------------------------------------------------------
(* tag_action: no tag, create it; a tag is ours only with an intent on record   *)
(* and at the commit.                                                         *)
TagAdopt(intent) == intent /\ relTag \in {"ours", "same"}

RelStart ==
  /\ relTry = RelIdle /\ relTries < MaxRelTries /\ relVerified = <<>>
  /\ relValid
  /\ \/ relTag = "none" /\ relTry' = [RelIdle EXCEPT !.pc = "qualify", !.prior = relIntent]
     \/ TagAdopt(relIntent) /\ relTry' = [RelIdle EXCEPT !.pc = "confirm", !.prior = relIntent]
  /\ relTries' = relTries + 1
  /\ UNCHANGED <<relValid, relGithub, relRecord, relOthers, relHad>>

(* Authority and policy, then main must not have moved; the version check runs. *)
QualifyBase ==
  /\ RelAt("qualify")
  /\ relValid /\ relMain
  /\ RelTo("intent")
  /\ UNCHANGED <<relValid, relGithub, relRecord, relTries, relOthers, relHad>>

(* The intent is on record before anything is published.                      *)

SaveIntent ==
  /\ RelAt("intent")
  /\ relIntent' = TRUE
  /\ RelTo("recheck")
  /\ UNCHANGED <<relValid, relGithub, relRun, relPinned, relVerified, relTries, relOthers, relHad>>

RecheckAuthority ==
  /\ RelAt("recheck") /\ relValid
  /\ RelTo("post")
  /\ UNCHANGED <<relValid, relGithub, relRecord, relTries, relOthers, relHad>>

(* POST git/refs: GitHub creates the tag and starts its workflow, or refuses   *)
(* because the tag exists; the answer may be lost.                            *)
PostTag ==
  /\ RelAt("post")
  /\ IF relTag = "none"
     THEN /\ relTag' = "ours" /\ relRuns' = relRuns \cup {relTries}
          /\ RelTo("confirm") \/ relTry' = RelIdle
     ELSE relTry' = RelIdle /\ UNCHANGED <<relTag, relRuns>>
  /\ UNCHANGED <<relValid, relMain, relPub, relRecord, relTries, relOthers, relHad>>

ConfirmTag ==
  /\ RelAt("confirm")
  /\ TagAdopt(TRUE)
  /\ RelTo("workflow")
  /\ UNCHANGED <<relValid, relGithub, relRecord, relTries, relOthers, relHad>>

(* select_workflow: exactly one tag-push run; a retry must find the same one.   *)
RunAny(w) == TRUE
RunSame(w) == relRun \in {0, w}
FindWorkflow ==
  /\ RelAt("workflow")
  /\ \E w \in relRuns :
       /\ relRuns = {w} /\ RunSame(w)
       /\ relRun' = w /\ relHad' = relHad \cup {<<"run", w>>}
  /\ RelTo("watch")
  /\ UNCHANGED <<relValid, relGithub, relIntent, relPinned, relVerified, relTries, relOthers>>

(* gh run watch and view: the run completed with success.                     *)
WatchWorkflow ==
  /\ RelAt("watch") /\ relRun \in relRuns
  /\ RelTo("publication")
  /\ UNCHANGED <<relValid, relGithub, relRecord, relTries, relOthers, relHad>>

(* publication::identity against the pinned one; the first is pinned.          *)
IdentityHolds(pinned) == relPub # 0 /\ pinned \in {0, relPub}

PinPublication ==
  /\ RelAt("publication")
  /\ IdentityHolds(relPinned)
  /\ relPinned' = IF relPinned = 0 THEN relPub ELSE relPinned
  /\ relTry' = [relTry EXCEPT !.pc = "files", !.pub = relPub]
  /\ relHad' = relHad \cup {<<"pub", relPub>>}
  /\ UNCHANGED <<relValid, relGithub, relIntent, relRun, relVerified, relTries, relOthers>>

(* verify_files: what is downloaded has the digests of the pinned publication.  *)
FilesAsPinned == relPub = relTry.pub

(* Download, digests against the pinned assets, archives, native binary.       *)
VerifyFiles ==
  /\ RelAt("files") /\ FilesAsPinned
  /\ RelTo("lasttag")
  /\ UNCHANGED <<relValid, relGithub, relRecord, relTries, relOthers, relHad>>

FinalTag ==
  /\ RelAt("lasttag") /\ TagAdopt(TRUE)
  /\ RelTo("lastpub")
  /\ UNCHANGED <<relValid, relGithub, relRecord, relTries, relOthers, relHad>>

FinalPublication ==
  /\ RelAt("lastpub")
  /\ IdentityHolds(relTry.pub)
  /\ relHad' = relHad \cup {<<"pub", relPub>>}
  /\ RelTo("lastcheck")
  /\ UNCHANGED <<relValid, relGithub, relRecord, relTries, relOthers>>

(* Authority and policy once more, then the result is recorded.               *)
RecordVerified ==
  /\ RelAt("lastcheck") /\ relValid
  /\ relVerified' = <<relRun, relTry.pub>>
  /\ relTry' = RelIdle
  /\ UNCHANGED <<relValid, relGithub, relIntent, relRun, relPinned, relTries, relOthers, relHad>>

(* An error, a deadline, cancellation or death of the attempt.                 *)
RelGiveUp ==
  /\ relTry # RelIdle /\ relTry' = RelIdle
  /\ UNCHANGED <<relValid, relGithub, relRecord, relTries, relOthers, relHad>>

-----------------------------------------------------------------------------
(* The tag's workflow publishes the release.                                  *)
WorkflowPublishes ==
  /\ relRuns # {} /\ relPub = 0 /\ relTag \in {"ours", "same"}
  /\ relPub' = 1
  /\ UNCHANGED <<relValid, relMain, relTag, relRuns, relRecord, relTry, relTries, relOthers, relHad>>

(* Revocation or a new policy; a push to main; a tag created, moved or deleted  *)
(* by others, with a workflow run of its own; a run deleted; a release deleted  *)
(* and published anew.                                                        *)
OthersAct ==
  /\ relOthers < MaxOthers /\ relOthers' = relOthers + 1
  /\ \/ relValid' = ~relValid /\ UNCHANGED <<relMain, relTag, relRuns, relPub>>
     \/ relMain' = FALSE /\ UNCHANGED <<relValid, relTag, relRuns, relPub>>
     \/ /\ relTag' \in {"none", "same", "other"} \ {relTag}
        /\ relRuns' = IF relTag' = "same" THEN relRuns \cup {10 + relOthers} ELSE relRuns
        /\ UNCHANGED <<relValid, relMain, relPub>>
     \/ /\ \E w \in relRuns : relRuns' = relRuns \ {w}
        /\ UNCHANGED <<relValid, relMain, relTag, relPub>>
     \/ relPub # 0 /\ relPub' = relPub + 1 /\ UNCHANGED <<relValid, relMain, relTag, relRuns>>
  /\ UNCHANGED <<relRecord, relTry, relTries, relHad>>

RelNext ==
  \/ RelStart \/ QualifyBase \/ SaveIntent \/ RecheckAuthority \/ PostTag \/ ConfirmTag
  \/ FindWorkflow \/ WatchWorkflow \/ PinPublication \/ VerifyFiles
  \/ FinalTag \/ FinalPublication \/ RecordVerified \/ RelGiveUp
  \/ WorkflowPublishes \/ OthersAct

RelSpec == RelInit /\ [][RelNext]_relVars

-----------------------------------------------------------------------------
(* Type invariant.                                                            *)
RelTypeOK ==
  /\ relValid \in BOOLEAN /\ relMain \in BOOLEAN /\ relIntent \in BOOLEAN
  /\ relTag \in {"none", "ours", "same", "other"}
  /\ relRuns \subseteq (1..MaxRelTries) \cup (10..(10 + MaxOthers))
  /\ relPub \in 0..(MaxOthers + 1) /\ relPinned \in 0..(MaxOthers + 1)
  /\ relTry.pub \in {0, relPinned}
  /\ relVerified = <<>> \/ relVerified = <<relRun, relPinned>>

(* A tag this step created is always backed by a recorded intent, whenever the  *)
(* step died: a later attempt recognises it as its own.                       *)
OurTagHasIntent == relTag = "ours" => relIntent

(* A version somebody else had used is never taken over: what is verified was   *)
(* intended by this task first.                                               *)
VerifiedWasIntended == relVerified # <<>> => relIntent

(* Over all attempts of a verified release, one workflow run and one            *)
(* publication were observed: neither was exchanged between two attempts or    *)
(* between two reads.                                                         *)
VerifiedOneIdentity ==
  relVerified # <<>> => relHad = {<<"run", relVerified[1]>>, <<"pub", relVerified[2]>>}

\* The invariants together: what every request, crash and retry above must preserve.
RelInv ==
  /\ RelTypeOK
  /\ OurTagHasIntent
  /\ VerifiedWasIntended
  /\ VerifiedOneIdentity
=============================================================================
