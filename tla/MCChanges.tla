----------------------------- MODULE MCChanges -------------------------------
(* The life of a change: the plan of its task, its run branch, recovery of a  *)
(* failed step, advice, previews, delivery, release and upstream maintenance; *)
(* and the updates and skill packs of an installation. The parts share no     *)
(* state: part says which one a behaviour is of, and the others rest in one   *)
(* initial state.                                                             *)
EXTENDS MCScheduler, RunBranch, Recover, Decision, Preview, PreviewReview, Delivery, Release, Maintenance, Update, Catalog

VARIABLE part

\* Bounds: two reviews whose requests are sent once; or beside one review that abstains
\* two routing decisions, or one and a restart.
Once(i) == dcTries[i] >= 1 => dcJob[i] # "call"
DcBound ==
  /\ Once(1)'
  /\ IF part = "reviews" THEN Once(2)' /\ dcRow'[3].st = "none" /\ dcRow'[4].st = "none"
     ELSE /\ Once(3)' /\ dcPlan' = 1 /\ dcAuth' /\ dcTask' \notin {"succeeded", "failed"}
          /\ dcEvents' \in {<<>>, <<[checkpoint |-> TRUE, rev |-> 0]>>}
          /\ (dcUp' /\ dcDaemon' = 1) \/ dcRow'[4].st = "none"

\* Bounds: one preview that ages, or two that do not.
PvBound == IF part = "preview" THEN pvPhase'[2] = "none" /\ pvFresh'[2]
           ELSE pvFresh' = pvFresh /\ pvCount' <= 2

\* The variables of all parts.
mcVars == <<part, vars, rbVars, rvVars, dcVars, pvVars, prVars, dlVars, relVars, mtVars, updVars, catVars>>

Parts == {"scheduler", "runBranch", "recover", "reviews", "routes", "preview", "previews", "previewReview", "delivery", "release", "maintenance", "update", "catalog"}

MCInit ==
  /\ part \in Parts
  /\ Init
  /\ RbInit
  /\ part # "runBranch" => rbGithub = FALSE
  /\ RvInit
  /\ part # "recover" => rvTask = "failed" /\ Len(rvCommits) = 1
  /\ DcInit
  /\ PvInit
  /\ part = "preview" => pvMute = {}
  /\ part = "previews" => pvMute = {1}
  /\ part \notin {"preview", "previews"} => pvMute = {}
  /\ PrInit
  /\ DlInit
  /\ part # "delivery" => dlAuto = FALSE
  /\ RelInit
  /\ part # "release" => relTag = "none"
  /\ MtInit
  /\ UpdInit
  /\ part # "update" => build = [supervised |-> TRUE, good |-> TRUE, migrates |-> TRUE]
  /\ CatInit

\* One part moves.
MCNext ==
  /\ UNCHANGED part
  /\ \/ /\ part = "scheduler" /\ Next
        /\ UNCHANGED <<rbVars, rvVars, dcVars, pvVars, prVars, dlVars, relVars, mtVars, updVars,
                       catVars>>
     \/ /\ part = "runBranch" /\ RbNext
        /\ UNCHANGED <<vars, rvVars, dcVars, pvVars, prVars, dlVars, relVars, mtVars, updVars,
                       catVars>>
     \/ /\ part = "recover" /\ RvNextStep
        /\ UNCHANGED <<vars, rbVars, dcVars, pvVars, prVars, dlVars, relVars, mtVars, updVars,
                       catVars>>
     \/ /\ part = "reviews" /\ DcNext /\ DcBound
        /\ UNCHANGED <<vars, rbVars, rvVars, pvVars, prVars, dlVars, relVars, mtVars, updVars,
                       catVars>>
     \/ /\ part = "routes" /\ DcNext /\ DcBound
        /\ UNCHANGED <<vars, rbVars, rvVars, pvVars, prVars, dlVars, relVars, mtVars, updVars,
                       catVars>>
     \/ /\ part = "preview" /\ PvNext /\ PvBound
        /\ UNCHANGED <<vars, rbVars, rvVars, dcVars, prVars, dlVars, relVars, mtVars, updVars,
                       catVars>>
     \/ /\ part = "previews" /\ PvNext /\ PvBound
        /\ UNCHANGED <<vars, rbVars, rvVars, dcVars, prVars, dlVars, relVars, mtVars, updVars,
                       catVars>>
     \/ /\ part = "previewReview" /\ PrNext
        /\ UNCHANGED <<vars, rbVars, rvVars, dcVars, pvVars, dlVars, relVars, mtVars, updVars,
                       catVars>>
     \/ /\ part = "delivery" /\ DlNext
        /\ UNCHANGED <<vars, rbVars, rvVars, dcVars, pvVars, prVars, relVars, mtVars, updVars,
                       catVars>>
     \/ /\ part = "release" /\ RelNext
        /\ UNCHANGED <<vars, rbVars, rvVars, dcVars, pvVars, prVars, dlVars, mtVars, updVars,
                       catVars>>
     \/ /\ part = "maintenance" /\ MtNext
        /\ UNCHANGED <<vars, rbVars, rvVars, dcVars, pvVars, prVars, dlVars, relVars, updVars,
                       catVars>>
     \/ /\ part = "update" /\ UpdNext
        /\ UNCHANGED <<vars, rbVars, rvVars, dcVars, pvVars, prVars, dlVars, relVars, mtVars,
                       catVars>>
     \/ /\ part = "catalog" /\ CatNext
        /\ UNCHANGED <<vars, rbVars, rvVars, dcVars, pvVars, prVars, dlVars, relVars, mtVars,
                       updVars>>

MCSpec == MCInit /\ [][MCNext]_mcVars

\* The branch of a run and the recovery of its failed steps: nobody else's commits are
\* overwritten, what is recorded as observed, verified or published is exactly that, and a
\* recovery records what it checked, on the head it names, unless the operator was there
\* first.
BranchSafe ==
  /\ [](part = "runBranch" => RbInv)
  /\ ObservedGrows /\ OthersWorkKept
  /\ [](part = "recover" => RvInv)
  /\ RecoveryYields /\ ModelFixed

\* Advice and previews: a request that may have been charged is not sent again, a finished
\* decision stays, a fresh one is about the current plan; a preview is built under an
\* admitted reservation, once, from the reviewed revision on top of main.
ReviewSafe ==
  /\ [](part \in {"reviews", "routes"} => DcInv)
  /\ FinishedStays
  /\ [](part \in {"preview", "previews"} => PvInv)
  /\ OneArtifact
  /\ [](part = "previewReview" => PrInv)

\* Delivery and release: a merge is sent once, for the reviewed head, on facts that held
\* together, and completed as authorized; a tag of ours has its intent, and a verified
\* release is one identity that was intended.
DeliverySafe ==
  /\ [](part = "delivery" => DlInv)
  /\ MergedHeadIsOurs
  /\ [](part = "release" => RelInv)

\* Upkeep: a revoked policy is revoked for every task and never valid again, and nothing is
\* spent after an overrun; the hold of an update ends only with its verification, the
\* operator or a restart, a new release runs nothing before, and a completed handoff stays;
\* the newest requested pack is active, completely.
UpkeepSafe ==
  /\ [](part = "maintenance" => MtInv)
  /\ NothingAfterOverrun
  /\ [](part = "update" => UpdInv)
  /\ CompletedStays
  /\ [](part = "catalog" => CatInv)
  /\ BootstrapYields
=============================================================================
