------------------------------- MODULE Preview -------------------------------
(* Publication of preview artifacts (preview/{pipeline,lease,lease_receipts,  *)
(* retry,process}.rs): one publication at a time, the registry reservation it *)
(* holds, and the scan that settles reservations nobody heard the end of.     *)
(*                                                                            *)
(* The admission service and the registry are external: a request or its      *)
(* answer can be lost, a lease expires by itself.  The daemon dies anywhere   *)
(* and resumes jobs that were under way.                                      *)
EXTENDS Naturals, FiniteSets

CONSTANTS Previews,     \* preview jobs, each of a task of its own; numbers, by rowid
          MaxOrd,       \* bound: reservation attempts of one job
          MaxPubs       \* bound: publications started

ASSUME PvBounds == Previews \subseteq Nat /\ MaxOrd \in Nat \ {0} /\ MaxPubs \in Nat

VARIABLES
  pvPhase,    \* preview_jobs.phase; "working" for preparing .. publishing_branch
  pvFresh,    \* head, main, policy and review of the job are still current
  pvReceipt,  \* recorded artifact of the job, 0: none
  pvRes,      \* preview_jobs.reservation: its ordinal, 0: NULL
  pvRec,      \* preview_admission_receipts: state and generation by ordinal
  pvAdm,      \* admission service: state by ordinal
  pvPub,      \* the active publication
  pvScan,     \* the reservation scan in flight
  pvCursor,   \* preview.reservation_cursor
  pvMute,     \* jobs whose status the service never answers
  pvCount     \* publications started

pvVars == <<pvPhase, pvFresh, pvReceipt, pvRes, pvRec, pvAdm, pvPub, pvScan, pvCursor, pvMute, pvCount>>

Ords     == 1..MaxOrd
PvEnd    == {"held", "released", "expired"}
NoRec    == [st |-> "none", gen |-> 0]
NoPub    == [j |-> 0, pc |-> "none", ord |-> 0, round |-> 0, prior |-> 0, art |-> 0, ans |-> "none"]
NoScan   == [j |-> 0, ord |-> 0, gen |-> 0, ans |-> "none"]

PvInit ==
  /\ pvPhase = [j \in Previews |-> "none"] /\ pvFresh = [j \in Previews |-> TRUE]
  /\ pvReceipt = [j \in Previews |-> 0] /\ pvRes = [j \in Previews |-> 0]
  /\ pvRec = [j \in Previews |-> [o \in Ords |-> NoRec]]
  /\ pvAdm = [j \in Previews |-> [o \in Ords |-> "none"]]
  /\ pvPub = NoPub /\ pvScan = NoScan /\ pvCursor = 0 /\ pvCount = 0
  /\ pvMute \in {{}, {1}}

(* lease_receipts::pending: what a drain waits for.                           *)
Unsettled(j) == {o \in Ords : pvRec[j][o].st \notin PvEnd \cup {"none"}}
PvPending(j) == pvRes[j] # 0 \/ Unsettled(j) # {}

-----------------------------------------------------------------------------
(* enqueue: a reviewed revision becomes a job, once.                          *)
Enqueue(j) ==
  /\ pvPub = NoPub /\ pvPhase[j] = "none"
  /\ pvPhase' = [pvPhase EXCEPT ![j] = "queued"]
  /\ UNCHANGED <<pvFresh, pvReceipt, pvRes, pvRec, pvAdm, pvPub, pvScan, pvCursor, pvMute, pvCount>>

(* enqueue of a newer revision of the task.                                   *)
Supersede(j) ==
  /\ pvPub = NoPub /\ ~pvFresh[j]
  /\ pvPhase[j] \notin {"none", "succeeded", "superseded"}
  /\ pvPhase' = [pvPhase EXCEPT ![j] = "superseded"]
  /\ UNCHANGED <<pvFresh, pvReceipt, pvRes, pvRec, pvAdm, pvPub, pvScan, pvCursor, pvMute, pvCount>>

(* phase                                                                      *)
SetPhase(j, p) == pvPhase' = [pvPhase EXCEPT ![j] = p]

(* tick: the oldest job that is not finished; interrupted ones are replayed,    *)
(* also while the runtime drains, when queued ones are passed over.           *)
StartPublication(j) ==
  /\ pvPub = NoPub /\ pvCount < MaxPubs
  /\ pvPhase[j] \in {"queued", "working"}
  /\ \A k \in Previews : k < j =>
       pvPhase[k] # "working" /\ (pvPhase[k] = "queued" => pvPhase[j] = "working")
  /\ SetPhase(j, "working")
  /\ pvPub' = [NoPub EXCEPT !.j = j, !.pc = "validate", !.prior = pvReceipt[j]]
  /\ pvCount' = pvCount + 1
  /\ UNCHANGED <<pvFresh, pvReceipt, pvRes, pvRec, pvAdm, pvScan, pvCursor, pvMute>>

PubAt(pc) == pvPub.pc = pc
PubTo(pc) == pvPub' = [pvPub EXCEPT !.pc = pc]

(* check_fresh, and what the admission service answers.                        *)
CheckFresh == pvFresh[pvPub.j]
AdmissionState(j, o) == pvAdm[j][o]

(* check_fresh between the steps: validation, checkpoint, branch.             *)
AdvanceFresh(from, to) ==
  /\ PubAt(from) /\ CheckFresh
  /\ PubTo(to)
  /\ UNCHANGED <<pvPhase, pvFresh, pvReceipt, pvRes, pvRec, pvAdm, pvScan, pvCursor, pvMute, pvCount>>

(* probe: the artifact is in the registry already, or a reservation is needed;  *)
(* reserve begins with the highest ordinal on record.                         *)
HighestOrd(j) ==
  LET used == {o \in Ords : pvRec[j][o].st # "none"}
  IN  IF used = {} THEN 1 ELSE CHOOSE o \in used : \A p \in used : p <= o

Probe ==
  /\ PubAt("probe")
  /\ \/ PubTo("build")
     \/ pvPub' = [pvPub EXCEPT !.pc = "intent", !.ord = HighestOrd(pvPub.j), !.round = 1]
  /\ UNCHANGED <<pvPhase, pvFresh, pvReceipt, pvRes, pvRec, pvAdm, pvScan, pvCursor, pvMute, pvCount>>

(* lease_receipts::intent, before the request.                                *)
RecordIntent(j, o) ==
  /\ pvRec' = [pvRec EXCEPT ![j][o] = [st |-> "pending", gen |-> @.gen + 1]]
  /\ pvRes' = [pvRes EXCEPT ![j] = o]
ReserveIntent ==
  LET j == pvPub.j  o == pvPub.ord IN
  /\ PubAt("intent") /\ o \in Ords
  /\ RecordIntent(j, o)
  /\ PubTo("post")
  /\ UNCHANGED <<pvPhase, pvFresh, pvReceipt, pvAdm, pvScan, pvCursor, pvMute, pvCount>>

(* POST /v1/reservations arrives: a new or held key is admitted or held, any    *)
(* other state is repeated.                                                   *)
PostReservation ==
  LET j == pvPub.j  o == pvPub.ord IN
  /\ PubAt("post")
  /\ \E s \in (IF pvAdm[j][o] \in {"none", "held"} THEN {"admitted", "held"} ELSE {pvAdm[j][o]}) :
       /\ pvAdm' = [pvAdm EXCEPT ![j][o] = s]
       /\ pvPub' = [pvPub EXCEPT !.pc = "answer", !.ans = s]
  /\ UNCHANGED <<pvPhase, pvFresh, pvReceipt, pvRes, pvRec, pvScan, pvCursor, pvMute, pvCount>>

(* lease_receipts::release: receipt and reservation of the job.                *)
PvDropped(j, o) == IF pvRes[j] = o THEN [pvRes EXCEPT ![j] = 0] ELSE pvRes

(* The answer, which may be out of date: admitted, build; released or expired,   *)
(* the next ordinal, at most twice; otherwise the publication fails.           *)
ReserveAnswer ==
  LET j == pvPub.j  o == pvPub.ord  s == pvPub.ans IN
  /\ PubAt("answer")
  /\ pvRec' = [pvRec EXCEPT ![j][o].st = s]
  /\ \/ s = "admitted" /\ PubTo("build") /\ UNCHANGED pvRes
     \/ /\ s \in {"released", "expired"} /\ pvPub.round = 1
        /\ pvRes' = PvDropped(j, o)
        /\ pvPub' = [pvPub EXCEPT !.pc = "intent", !.ord = o + 1, !.round = 2]
     \/ /\ s = "held" \/ (s \in {"released", "expired"} /\ pvPub.round = 2)
        /\ pvRes' = PvDropped(j, o) /\ PubTo("failed")
  /\ UNCHANGED <<pvPhase, pvFresh, pvReceipt, pvAdm, pvScan, pvCursor, pvMute, pvCount>>

(* Every minute of the build the lease is renewed; one that is lost ends it.     *)
RenewLost ==
  /\ PubAt("build") /\ pvPub.ord # 0 /\ AdmissionState(pvPub.j, pvPub.ord) # "admitted"
  /\ PubTo("failed")
  /\ UNCHANGED <<pvPhase, pvFresh, pvReceipt, pvRes, pvRec, pvAdm, pvScan, pvCursor, pvMute, pvCount>>

(* The publisher ends with a receipt for this source, tree and recipe, which     *)
(* verify_receipt checks; two runs need not produce the same artifact.         *)
PublishedArtifacts == {1, 2}
Build ==
  /\ PubAt("build")
  /\ \E a \in PublishedArtifacts : pvPub' = [pvPub EXCEPT !.pc = "release", !.art = a]
  /\ UNCHANGED <<pvPhase, pvFresh, pvReceipt, pvRes, pvRec, pvAdm, pvScan, pvCursor, pvMute, pvCount>>

(* lease::release of the reservation on record: asked and confirmed by the       *)
(* service, which may say that it has expired, then recorded.                  *)
ReleaseAsk ==
  LET j == pvPub.j  o == pvRes[j] IN
  /\ PubAt("release")
  /\ pvAdm' = IF o # 0 /\ pvAdm[j][o] = "admitted" THEN [pvAdm EXCEPT ![j][o] = "released"] ELSE pvAdm
  /\ pvPub' = [pvPub EXCEPT !.pc = "released", !.ord = o, !.ans = IF o = 0 THEN "none" ELSE pvAdm'[j][o]]
  /\ UNCHANGED <<pvPhase, pvFresh, pvReceipt, pvRes, pvRec, pvScan, pvCursor, pvMute, pvCount>>

ReleaseConfirm ==
  LET j == pvPub.j  o == pvPub.ord IN
  /\ PubAt("released")
  /\ IF o = 0 THEN UNCHANGED <<pvRec, pvRes>>
     ELSE /\ pvPub.ans \in {"released", "expired"}
          /\ pvRec' = [pvRec EXCEPT ![j][o].st = pvPub.ans] /\ pvRes' = PvDropped(j, o)
  /\ PubTo("receipt")
  /\ UNCHANGED <<pvPhase, pvFresh, pvReceipt, pvAdm, pvScan, pvCursor, pvMute, pvCount>>

(* verify_receipt, the earlier receipt, check_fresh, then the receipt is        *)
(* written.                                                                   *)
ArtifactSame == pvPub.prior \in {0, pvPub.art}

RecordReceipt ==
  /\ PubAt("receipt") /\ CheckFresh
  /\ ArtifactSame
  /\ pvReceipt' = [pvReceipt EXCEPT ![pvPub.j] = pvPub.art]
  /\ PubTo("checkpoint")
  /\ UNCHANGED <<pvPhase, pvFresh, pvRes, pvRec, pvAdm, pvScan, pvCursor, pvMute, pvCount>>

Succeed ==
  /\ PubAt("branch") /\ CheckFresh
  /\ SetPhase(pvPub.j, "succeeded")
  /\ pvPub' = NoPub
  /\ UNCHANGED <<pvFresh, pvReceipt, pvRes, pvRec, pvAdm, pvScan, pvCursor, pvMute, pvCount>>

(* Any step fails, a call times out, an answer is lost: the job is held.       *)
PublicationFails ==
  /\ pvPub # NoPub
  /\ SetPhase(pvPub.j, "held")
  /\ pvPub' = NoPub
  /\ UNCHANGED <<pvFresh, pvReceipt, pvRes, pvRec, pvAdm, pvScan, pvCursor, pvMute, pvCount>>

(* The publication task itself ended abnormally: every job under way is held.   *)
PublicationInterrupted ==
  /\ pvPub # NoPub
  /\ pvPhase' = [j \in Previews |-> IF pvPhase[j] \in {"queued", "working"} THEN "held" ELSE pvPhase[j]]
  /\ pvPub' = NoPub
  /\ UNCHANGED <<pvFresh, pvReceipt, pvRes, pvRec, pvAdm, pvScan, pvCursor, pvMute, pvCount>>

(* Shutdown or death of the daemon.                                           *)
PvDaemonStops ==
  /\ pvPub # NoPub
  /\ pvPub' = NoPub /\ pvScan' = NoScan
  /\ UNCHANGED <<pvPhase, pvFresh, pvReceipt, pvRes, pvRec, pvAdm, pvCursor, pvMute, pvCount>>

(* retry, by the operator, of an exact held revision.                         *)
PvRetry(j) ==
  /\ pvPhase[j] = "held" /\ pvFresh[j]
  /\ pvPhase' = [pvPhase EXCEPT ![j] = "queued"]
  /\ UNCHANGED <<pvFresh, pvReceipt, pvRes, pvRec, pvAdm, pvPub, pvScan, pvCursor, pvMute, pvCount>>

-----------------------------------------------------------------------------
(* reconcile_reservation: one job per scan, the next one after the cursor.      *)
Scannable == {j \in Previews : PvPending(j) /\ pvPhase[j] \in {"held", "superseded", "succeeded", "queued"}}

FirstScan == CHOOSE j \in Scannable : \A k \in Scannable : j <= k

NextScan ==
  LET later == {j \in Scannable : j > pvCursor} IN
  IF later # {} THEN CHOOSE j \in later : \A k \in later : j <= k ELSE FirstScan

ScanStarts ==
  /\ pvPub = NoPub /\ pvScan = NoScan /\ Scannable # {}
  /\ LET j == NextScan IN
       /\ pvCursor' = j
       /\ pvScan' = IF Unsettled(j) = {} THEN NoScan
                    ELSE LET o == CHOOSE p \in Unsettled(j) : \A q \in Unsettled(j) : p <= q
                         IN  [j |-> j, ord |-> o, gen |-> pvRec[j][o].gen, ans |-> "asked"]
  /\ UNCHANGED <<pvPhase, pvFresh, pvReceipt, pvRes, pvRec, pvAdm, pvPub, pvMute, pvCount>>

(* GET /v1/reservations: the state of the moment, or no answer.                *)
StatusAnswer ==
  LET j == pvScan.j  o == pvScan.ord IN
  /\ pvScan.ans = "asked"
  /\ pvScan' = IF j \in pvMute \/ AdmissionState(j, o) = "none" THEN NoScan
               ELSE [pvScan EXCEPT !.ans = AdmissionState(j, o)]
  /\ UNCHANGED <<pvPhase, pvFresh, pvReceipt, pvRes, pvRec, pvAdm, pvPub, pvCursor, pvMute, pvCount>>

(* settle: only the generation that was read.                                 *)
GenerationAny == TRUE
SameGeneration == pvRec[pvScan.j][pvScan.ord].gen = pvScan.gen

Settle ==
  LET j == pvScan.j  o == pvScan.ord IN
  /\ pvScan.ans \notin {"none", "asked"}
  /\ IF SameGeneration
     THEN /\ pvRec' = [pvRec EXCEPT ![j][o].st = pvScan.ans]
          /\ pvRes' = IF pvScan.ans \in PvEnd THEN PvDropped(j, o) ELSE pvRes
     ELSE UNCHANGED <<pvRec, pvRes>>
  /\ pvScan' = NoScan
  /\ UNCHANGED <<pvPhase, pvFresh, pvReceipt, pvAdm, pvPub, pvCursor, pvMute, pvCount>>

-----------------------------------------------------------------------------
(* The service ends a lease that is not renewed in time, also during a build.   *)
LeaseExpires(j, o) ==
  /\ pvAdm[j][o] = "admitted"
  /\ pvAdm' = [pvAdm EXCEPT ![j][o] = "expired"]
  /\ UNCHANGED <<pvPhase, pvFresh, pvReceipt, pvRes, pvRec, pvPub, pvScan, pvCursor, pvMute, pvCount>>

(* A new commit, main, policy, review or feedback.                            *)
RevisionMoves(j) ==
  /\ pvFresh[j]
  /\ pvFresh' = [pvFresh EXCEPT ![j] = FALSE]
  /\ UNCHANGED <<pvPhase, pvReceipt, pvRes, pvRec, pvAdm, pvPub, pvScan, pvCursor, pvMute, pvCount>>

PvPublish ==
  \/ AdvanceFresh("validate", "probe") \/ Probe
  \/ ReserveIntent \/ PostReservation \/ ReserveAnswer \/ RenewLost \/ Build \/ ReleaseAsk \/ ReleaseConfirm
  \/ RecordReceipt \/ AdvanceFresh("checkpoint", "branch") \/ Succeed
  \/ PublicationFails \/ PublicationInterrupted \/ PvDaemonStops

PvNext ==
  \/ PvPublish
  \/ ScanStarts \/ StatusAnswer \/ Settle
  \/ \E j \in Previews :
       \/ Enqueue(j) \/ Supersede(j) \/ StartPublication(j) \/ PvRetry(j) \/ RevisionMoves(j)
       \/ \E o \in Ords : LeaseExpires(j, o)

PvSpec == PvInit /\ [][PvNext]_pvVars

-----------------------------------------------------------------------------
(* Type invariant; the reservation of a job is one that is not settled.         *)
PvTypeOK ==
  /\ pvPhase \in [Previews -> {"none", "queued", "working", "held", "superseded", "succeeded"}]
  /\ pvFresh \in [Previews -> BOOLEAN] /\ pvReceipt \in [Previews -> 0..2]
  /\ pvRes \in [Previews -> 0..MaxOrd] /\ pvCursor \in Previews \cup {0}
  /\ \A j \in Previews, o \in Ords :
       /\ pvRec[j][o].st \in PvEnd \cup {"none", "pending", "admitted"}
       /\ pvAdm[j][o] \in PvEnd \cup {"none", "admitted"}
  /\ \A j \in Previews : pvRes[j] # 0 => pvRes[j] \in Unsettled(j)
  /\ pvPub.j \in Previews \cup {0} /\ pvScan.j \in Previews \cup {0}

(* A drain never ends while the registry still holds a reservation for a job:   *)
(* whatever was lost, whichever status answer comes late.                     *)
LeaseIsPending ==
  \A j \in Previews, o \in Ords : pvAdm[j][o] = "admitted" => PvPending(j)

(* The publisher writes to the registry only for an artifact that is there      *)
(* already, or under a reservation the service did admit, which the job holds  *)
(* on record until the build is over: no late answer about an earlier request  *)
(* settles it. The lease itself may expire before the next renewal finds out.  *)
BuildsAdmitted ==
  (PubAt("build") /\ pvPub.ord # 0) =>
    /\ pvAdm[pvPub.j][pvPub.ord] \in {"admitted", "expired"}
    /\ pvRes[pvPub.j] = pvPub.ord /\ pvRec[pvPub.j][pvPub.ord].st = "admitted"

(* The artifact of a job never changes once it is recorded, over replays,       *)
(* retries and restarts.                                                      *)
OneArtifact ==
  [][\A j \in Previews : pvReceipt[j] # 0 => pvReceipt'[j] = pvReceipt[j]]_pvVars

(* A reservation of which the service knows the end is settled here, also when  *)
(* another job's status never answers.                                        *)
Settleable(j) ==
  /\ j \notin pvMute /\ j \in Scannable
  /\ \A o \in Unsettled(j) : pvAdm[j][o] \in PvEnd
  /\ Unsettled(j) # {}
ReservationsSettle == \A j \in Previews : Settleable(j) ~> ~Settleable(j)

\* The invariants together: what every request, crash and retry above must preserve.
PvInv ==
  /\ PvTypeOK
  /\ LeaseIsPending
  /\ BuildsAdmitted
=============================================================================
