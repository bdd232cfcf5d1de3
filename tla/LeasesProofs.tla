----------------------------- MODULE LeasesProofs -----------------------------
(***************************************************************************)
(* Proofs about Leases. The inductive invariant says what the controller's *)
(* tables and the calls in flight must look like at each place where the   *)
(* worker's tick waits: a reservation is never asked back, nor is a call   *)
(* for its release still under way, while the lease can lead to an attempt.*)
(***************************************************************************)
EXTENDS Leases, FiniteSetTheorems, TLAPS

Lease == [state : {"none", "pending", "active", "release_pending", "released"}, req : 0..MaxLease]
Places == {"idle", "project_acquire", "account_acquire", "begin", "account_release",
           "project_release"}
CallAnswers == [is : {"granted", "no", "error", "null", "bound", "released"},
                version : 1..MaxCredential, grant : 0..MaxGrant]
Replies == CallAnswers \cup {NoReply}
CallKinds == {"project_acquire", "account_acquire", "account_release", "project_release"}
Mine == [version : 0..MaxCredential, auth : BOOLEAN, grant : 0..MaxGrant, revoked : 0..MaxGrant]
Removals == [m : {"revocation_pending", "replacement_pending"}, s : RemoteSteps,
             v : 0..MaxCredential,
             at : {"sent", "revoked", "counted", "ungranted", "deleted", "outdated"}]

ShapeOK ==
  /\ LeasesTypeOK
  /\ call \in [RemoteSteps -> [at : Places, reply : Replies]]
  /\ mine \in [RemoteSteps -> Mine]
  /\ calls \subseteq [m : CallKinds, req : Requests]
  /\ removals \subseteq Removals

Asking(s) == call[s].at \in {"project_acquire", "account_acquire", "begin"}
ReturningAccount(s) == [m |-> "account_release", req |-> Req(s)] \in calls
ReturningProject(s) == [m |-> "project_release", req |-> Req(s)] \in calls

\* Calls are for requests drawn so far; an older request is over.
OldOver ==
  /\ \A c \in calls : c.req[2] <= lease[c.req[1]].req
  /\ \A s \in RemoteSteps, k \in 1..MaxLease :
       k < lease[s].req => projectRes[<<s, k>>] = "released"
  /\ \A s \in RemoteSteps :
       /\ lease[s].state # "none" \/ call[s].at # "idle" => lease[s].req > 0
       /\ lease[s].state = "none" => lease[s].req = 0

\* Where the worker is, and what it may still have asked for.
LeasePlaces ==
  \A s \in RemoteSteps :
    /\ Asking(s) => lease[s].state \in {"pending", "active"}
    /\ call[s].at = "begin" => lease[s].state = "active"
    /\ live[s] => lease[s].state = "active" /\ call[s].at = "idle"
    /\ ReturningAccount(s) => \/ lease[s].state \in {"release_pending", "released"}
                              \/ call[s].at \in {"account_release", "project_release"}
    /\ ReturningProject(s) => \/ lease[s].state \in {"release_pending", "released"}
                              \/ call[s].at = "project_release"

\* What the controller holds for it.
ProjectHeld(s) == projectRes[Req(s)] = "active"
AccountHeld(s) == accountRes[Req(s)].state \in {"active", "revoked"}
HeldWhileNeeded ==
  \A s \in RemoteSteps :
    /\ call[s].at = "project_acquire" /\ call[s].reply.is = "granted" => ProjectHeld(s)
    /\ call[s].at \in {"account_acquire", "begin"} => ProjectHeld(s)
    /\ call[s].at = "account_acquire" /\ call[s].reply.is = "bound" => AccountHeld(s)
    /\ call[s].at = "begin" => AccountHeld(s)
    /\ live[s] => ProjectHeld(s) /\ AccountHeld(s)
    /\ call[s].at = "project_release" /\ call[s].reply.is = "released" =>
         projectRes[Req(s)] = "released"
    /\ lease[s].state = "released" => projectRes[Req(s)] = "released"

LeasesSafeInv ==
  ShapeOK /\ OldOver /\ LeasePlaces /\ HeldWhileNeeded /\ RevokedGrantStaysOut
-----------------------------------------------------------------------------
(* What the helpers of the actions do, pointwise.                          *)

SameCall(t) == call'[t].at = call[t].at /\ call'[t].reply = call[t].reply
CallShape == call \in [RemoteSteps -> [at : Places, reply : Replies]]

LEMMA NoReplyShape ==
  NoReply \in Replies /\ NoReply.is = "none" /\ NoCall \in [at : Places, reply : Replies]
  /\ NoCall.at = "idle" /\ NoCall.reply = NoReply
BY DEF NoReply, NoCall, Replies, Places

LEMMA SendIs ==
  ASSUME ShapeOK, NEW s \in RemoteSteps, NEW m \in CallKinds, NEW r \in Requests, Send(s, m, r)
  PROVE  /\ CallShape' /\ call'[s].at = m /\ call'[s].reply.is = "none"
         /\ \A t \in RemoteSteps \ {s} : SameCall(t)
         /\ calls' = calls \cup {[m |-> m, req |-> r]}
         /\ calls' \subseteq [m : CallKinds, req : Requests]
<1> DEFINE sent == [at |-> m, reply |-> NoReply]
<1>1. sent \in [at : Places, reply : Replies] /\ sent.at = m /\ sent.reply = NoReply
  BY NoReplyShape DEF CallKinds, Places
<1>2. call' = [call EXCEPT ![s] = sent] /\ calls' = calls \cup {[m |-> m, req |-> r]}
  BY DEF Send
<1> HIDE DEF sent
<1>3. CallShape' /\ call'[s] = sent /\ \A t \in RemoteSteps \ {s} : call'[t] = call[t]
  BY <1>1, <1>2 DEF ShapeOK, CallShape
<1> QED BY <1>1, <1>2, <1>3, NoReplyShape DEF ShapeOK, SameCall

LEMMA RestIs ==
  ASSUME ShapeOK, NEW s \in RemoteSteps, Rest(s)
  PROVE  /\ CallShape' /\ call'[s].at = "idle" /\ call'[s].reply.is = "none"
         /\ \A t \in RemoteSteps \ {s} : SameCall(t)
         /\ calls' = calls
BY NoReplyShape DEF Rest, ShapeOK, CallShape, SameCall

LEMMA SetLeaseIs ==
  ASSUME ShapeOK, NEW s \in RemoteSteps,
         NEW st \in {"none", "pending", "active", "release_pending", "released"}, SetLease(s, st)
  PROVE  /\ lease' \in [RemoteSteps -> Lease]
         /\ lease'[s].state = st /\ lease'[s].req = lease[s].req
         /\ \A t \in RemoteSteps \ {s} : lease'[t] = lease[t]
<1> DEFINE new == [lease[s] EXCEPT !.state = st]
<1>1. lease \in [RemoteSteps -> Lease]
  BY DEF ShapeOK, LeasesTypeOK, Lease
<1>2. new \in Lease /\ new.state = st /\ new.req = lease[s].req
  BY <1>1 DEF Lease
<1>3. lease' = [lease EXCEPT ![s] = new]
  BY DEF SetLease
<1> HIDE DEF new
<1> QED BY <1>1, <1>2, <1>3

LEMMA ReplyIs ==
  ASSUME ShapeOK, NEW c \in calls, NEW is, Reply(c, is),
         is \in {"granted", "no", "error", "null", "bound", "released"}
  PROVE  /\ CallShape'
         /\ \A t \in RemoteSteps :
              \/ SameCall(t)
              \/ /\ t = c.req[1] /\ Req(t) = c.req /\ call[t].at = c.m /\ call'[t].at = c.m
                 /\ call'[t].reply.is = is
<1> DEFINE s == c.req[1]
           new == [call[s] EXCEPT !.reply = Answer(s, is)]
<1>1. s \in RemoteSteps /\ call[s] \in [at : Places, reply : Replies]
  BY DEF ShapeOK, Requests
<1>2. Answer(s, is) \in Replies /\ Answer(s, is).is = is
  BY LeasesAssumption DEF Answer, CallAnswers, Replies, ShapeOK, LeasesTypeOK
<1>3. new \in [at : Places, reply : Replies] /\ new.at = call[s].at /\ new.reply = Answer(s, is)
  BY <1>1, <1>2
<1>4. \/ call' = call
      \/ call' = [call EXCEPT ![s] = new] /\ call[s].at = c.m /\ Req(s) = c.req
  BY DEF Reply, Waits
<1> HIDE DEF new, s
<1>5. call \in [RemoteSteps -> [at : Places, reply : Replies]]
  BY DEF ShapeOK
<1>6. CallShape'
  BY <1>1, <1>3, <1>4, <1>5 DEF CallShape
<1>7. \A t \in RemoteSteps : call'[t] = call[t]
        \/ (t = s /\ call'[t] = new /\ call[s].at = c.m /\ Req(s) = c.req)
  BY <1>1, <1>4, <1>5
<1> QED BY <1>2, <1>3, <1>6, <1>7 DEF SameCall, s
-----------------------------------------------------------------------------
(* The steps of a worker, by what they do to its lease and its call.       *)

Others(s) ==
  \A t \in RemoteSteps \ {s} :
    SameCall(t) /\ lease'[t] = lease[t] /\ live'[t] = live[t]
    /\ mine'[t] = mine[t] /\ copy'[t] = copy[t]
WorkerShape ==
  /\ CallShape /\ lease \in [RemoteSteps -> Lease] /\ live \in [RemoteSteps -> BOOLEAN]
  /\ mine \in [RemoteSteps -> Mine] /\ copy \in [RemoteSteps -> SUBSET (1..MaxCredential)]
  /\ open \in [RemoteSteps -> BOOLEAN]
  /\ calls \subseteq [m : CallKinds, req : Requests]
Asks(s, m) ==
  /\ call'[s].at = m /\ call'[s].reply.is = "none"
  /\ calls' = calls \cup {[m |-> m, req |-> <<s, lease'[s].req>>]}
Rests(s) == call'[s].at = "idle" /\ call'[s].reply.is = "none" /\ calls' = calls
Same(s)  == live'[s] = live[s] /\ mine'[s] = mine[s] /\ copy'[s] = copy[s]

Draws(s) ==
  /\ call[s].at = "idle" /\ ~live[s] /\ Same(s) /\ Asks(s, "project_acquire")
  /\ \/ lease[s].state \in {"pending", "active"} /\ lease'[s] = lease[s]
     \/ /\ lease[s].state \in {"none", "released"}
        /\ lease'[s].state = "pending" /\ lease'[s].req = lease[s].req + 1
GoesOn(s) ==
  /\ call[s].at = "project_acquire" /\ lease'[s] = lease[s] /\ Same(s)
  /\ \/ call[s].reply.is = "granted" /\ Asks(s, "account_acquire")
     \/ Rests(s)
Receives(s) ==
  /\ call[s].at = "account_acquire" /\ call[s].reply.is = "bound"
  /\ call'[s].at = "begin" /\ call'[s].reply.is = "none" /\ calls' = calls
  /\ lease'[s].state = "active" /\ lease'[s].req = lease[s].req
  /\ live'[s] = live[s]
  /\ mine'[s].revoked = mine[s].revoked
  /\ mine'[s].grant # mine[s].grant => mine'[s].grant > mine'[s].revoked
Returns(s) ==
  /\ call[s].at \notin {"account_release", "project_release"}
  /\ ~live[s] /\ Same(s) /\ Asks(s, "account_release")
  /\ lease[s].state # "released" /\ lease[s].req > 0 /\ lease'[s].req = lease[s].req
  /\ lease'[s].state = lease[s].state \/ lease'[s].state = "release_pending"
Begins(s) ==
  /\ call[s].at = "begin" /\ live'[s] /\ Rests(s)
  /\ lease'[s] = lease[s] /\ mine'[s] = mine[s] /\ copy'[s] = copy[s]
Ends(s) ==
  /\ call[s].at = "idle" /\ ~live'[s] /\ lease'[s] = lease[s] /\ SameCall(s) /\ calls' = calls
  /\ mine'[s] = mine[s] /\ copy'[s] = copy[s]
GivesBack(s) ==
  /\ Same(s) /\ lease'[s].req = lease[s].req
  /\ \/ /\ call[s].at = "account_release" /\ lease'[s] = lease[s]
        /\ Asks(s, "project_release")
     \/ /\ call[s].at = "project_release" /\ call[s].reply.is = "released"
        /\ lease'[s].state = "released" /\ Rests(s)
     \/ /\ call[s].at \in {"account_release", "project_release"}
        /\ lease'[s].state = "release_pending" /\ Rests(s)
Dies(s) ==
  /\ call[s].at # "idle" /\ call'[s].at = "idle" /\ call'[s].reply.is = "none"
  /\ lease'[s] = lease[s] /\ Same(s)
  /\ calls' = {c \in calls : c.req[1] # s}
WorkerMove(s) ==
  \/ Draws(s) \/ GoesOn(s) \/ Receives(s) \/ Returns(s) \/ Begins(s) \/ Ends(s)
  \/ GivesBack(s) \/ Dies(s)

LEMMA ShapeParts ==
  ASSUME ShapeOK
  PROVE  /\ WorkerShape /\ lease \in [RemoteSteps -> Lease]
         /\ \A s \in RemoteSteps : lease[s].req > 0 => Req(s) \in Requests
BY DEF ShapeOK, LeasesTypeOK, WorkerShape, CallShape, Lease, Req, Requests

LEMMA AcquireMoves ==
  ASSUME ShapeOK, OldOver, NEW s \in RemoteSteps, AcquireRemote(s)
  PROVE  Others(s) /\ WorkerShape' /\ Draws(s)
<1>1. /\ call[s].at = "idle" /\ ~live[s] /\ lease[s].state # "release_pending"
      /\ UNCHANGED <<live, open, copy, mine>>
  BY DEF AcquireRemote, Hung
<1> DEFINE new == [state |-> "pending", req |-> lease[s].req + 1]
<1>2. \/ lease[s].state \notin {"none", "released"} /\ lease' = lease
      \/ /\ lease[s].state \in {"none", "released"} /\ lease[s].req < MaxLease
         /\ lease' = [lease EXCEPT ![s] = new]
  BY DEF AcquireRemote
<1>3. lease[s] \in Lease /\ (lease[s].req < MaxLease => new \in Lease)
      /\ new.state = "pending" /\ new.req = lease[s].req + 1
  BY ShapeParts, LeasesAssumption DEF Lease
<1> HIDE DEF new
<1>4. /\ lease' \in [RemoteSteps -> Lease]
      /\ \A t \in RemoteSteps \ {s} : lease'[t] = lease[t]
      /\ \/ lease[s].state \in {"pending", "active"} /\ lease'[s] = lease[s]
         \/ lease[s].state \in {"none", "released"} /\ lease'[s] = new
  BY <1>1, <1>2, <1>3, ShapeParts DEF Lease
<1>5. lease'[s].req \in 1..MaxLease
  BY <1>3, <1>4, LeasesAssumption DEF Lease, OldOver
<1>6. PICK r : r = <<s, lease'[s].req>> /\ Send(s, "project_acquire", r)
  BY DEF AcquireRemote
<1>7. r \in Requests /\ "project_acquire" \in CallKinds
  BY <1>5, <1>6 DEF Requests, CallKinds
<1>8. /\ CallShape' /\ call'[s].at = "project_acquire" /\ call'[s].reply.is = "none"
      /\ \A t \in RemoteSteps \ {s} : SameCall(t)
      /\ calls' = calls \cup {[m |-> "project_acquire", req |-> r]}
      /\ calls' \subseteq [m : CallKinds, req : Requests]
  BY <1>6, <1>7, SendIs
<1> QED
  BY <1>1, <1>3, <1>4, <1>6, <1>8, ShapeParts
  DEF Others, WorkerShape, Draws, Same, Asks

\* Sending for the request of the lease, with the lease as it is or was set.
LEMMA AsksIs ==
  ASSUME ShapeOK, NEW s \in RemoteSteps, NEW m \in CallKinds, lease[s].req > 0,
         Send(s, m, Req(s)), lease'[s].req = lease[s].req
  PROVE  /\ CallShape' /\ Asks(s, m) /\ calls' \subseteq [m : CallKinds, req : Requests]
         /\ \A t \in RemoteSteps \ {s} : SameCall(t)
BY ShapeParts, SendIs DEF Asks, Req

LEMMA RestsIs ==
  ASSUME ShapeOK, NEW s \in RemoteSteps, Rest(s)
  PROVE  /\ CallShape' /\ Rests(s) /\ calls' \subseteq [m : CallKinds, req : Requests]
         /\ \A t \in RemoteSteps \ {s} : SameCall(t)
BY RestIs DEF Rests, ShapeOK

\* An answer was awaited, so the request was drawn.
LEMMA AwaitedDrawn ==
  ASSUME ShapeOK, OldOver, NEW s \in RemoteSteps,
         call[s].at # "idle" \/ lease[s].state # "none"
  PROVE  lease[s].req > 0
BY DEF OldOver

LEMMA AskingMoves ==
  ASSUME ShapeOK, OldOver, NEW s \in RemoteSteps, AcquireAccount(s)
  PROVE  Others(s) /\ WorkerShape' /\ GoesOn(s)
<1>1. /\ call[s].at = "project_acquire" /\ UNCHANGED <<lease, live, open, copy, mine>>
      /\ \/ call[s].reply.is = "granted" /\ Send(s, "account_acquire", Req(s))
         \/ Rest(s)
  BY DEF AcquireAccount, Waits
<1>2. lease[s].req > 0 /\ "account_acquire" \in CallKinds
  BY <1>1, AwaitedDrawn DEF CallKinds
<1>3. CASE call[s].reply.is = "granted" /\ Send(s, "account_acquire", Req(s))
  BY <1>1, <1>2, <1>3, AsksIs, ShapeParts DEF Others, WorkerShape, GoesOn, Same
<1>4. CASE Rest(s)
  BY <1>1, <1>4, RestsIs, ShapeParts DEF Others, WorkerShape, GoesOn, Same
<1> QED BY <1>1, <1>3, <1>4

\* The four places where a worker starts to return a lease.
LEMMA ReturnMoves ==
  ASSUME ShapeOK, OldOver, NEW s \in RemoteSteps,
         call[s].at \notin {"account_release", "project_release"},
         ReleaseRemote(s), UNCHANGED <<lease, live, open, copy, mine>>
  PROVE  Others(s) /\ WorkerShape' /\ Returns(s)
<1>1. ~live[s] /\ lease[s].state # "released" /\ lease[s].req > 0
      /\ Send(s, "account_release", Req(s)) /\ "account_release" \in CallKinds
  BY DEF ReleaseRemote, CallKinds
<1> QED BY <1>1, AsksIs, ShapeParts DEF Others, WorkerShape, Returns, Same

LEMMA ReconcileMoves ==
  ASSUME ShapeOK, OldOver, NEW s \in RemoteSteps, ReconcileReleases(s)
  PROVE  Others(s) /\ WorkerShape' /\ Returns(s)
<1>1. /\ call[s].at = "idle"
      /\ ~live[s] /\ lease[s].state \in {"pending", "active", "release_pending"}
      /\ Send(s, "account_release", Req(s)) /\ "account_release" \in CallKinds
      /\ UNCHANGED <<live, open, copy, mine>>
  BY DEF ReconcileReleases, CallKinds, Hung
<1>2. /\ lease' \in [RemoteSteps -> Lease] /\ lease'[s].req = lease[s].req
      /\ lease'[s].state = lease[s].state \/ lease'[s].state = "release_pending"
      /\ \A t \in RemoteSteps \ {s} : lease'[t] = lease[t]
  <2>1. CASE SetLease(s, "release_pending")
    BY <2>1, SetLeaseIs
  <2>2. CASE lease' = lease
    BY <2>2, ShapeParts
  <2> QED BY <2>1, <2>2 DEF ReconcileReleases
<1>3. lease[s].req > 0
  BY <1>1, AwaitedDrawn
<1> QED BY <1>1, <1>2, <1>3, AsksIs, ShapeParts DEF Others, WorkerShape, Returns, Same

LEMMA ReceiveMoves ==
  ASSUME ShapeOK, OldOver, NEW s \in RemoteSteps, ReceiveCredential(s)
  PROVE  Others(s) /\ WorkerShape' /\ Receives(s)
<1> DEFINE e == call[s].reply
           own == [version |-> e.version, auth |-> TRUE, revoked |-> mine[s].revoked,
                   grant   |-> IF mine[s].grant = 0 THEN e.grant ELSE mine[s].grant]
           new == [at |-> "begin", reply |-> NoReply]
<1>1. /\ call[s].at = "account_acquire" /\ e.is = "bound" /\ mine[s].revoked < e.grant
      /\ UNCHANGED <<live, open, calls>>
  BY DEF ReceiveCredential, Waits, Receivable
<1>2. /\ mine' = [mine EXCEPT ![s] = own] /\ call' = [call EXCEPT ![s] = new]
      /\ copy' = [copy EXCEPT ![s] = copy[s] \cup {e.version}]
      /\ SetLease(s, "active")
  <2>1. mine' = [mine EXCEPT ![s] = own]
    BY Zenon DEF ReceiveCredential
  <2>2. call' = [call EXCEPT ![s] = new]
    BY Zenon DEF ReceiveCredential
  <2>3. copy' = [copy EXCEPT ![s] = copy[s] \cup {e.version}] /\ SetLease(s, "active")
    BY Zenon DEF ReceiveCredential
  <2> QED BY <2>1, <2>2, <2>3
<1>3. e.version \in 1..MaxCredential /\ e.grant \in 0..MaxGrant
  BY <1>1, NoReplyShape DEF ShapeOK, Replies, CallAnswers
<1>4. own \in Mine /\ own.auth /\ own.version = e.version /\ own.revoked = mine[s].revoked
      /\ own.grant = IF mine[s].grant = 0 THEN e.grant ELSE mine[s].grant
  <2>1. mine[s] \in Mine
    BY DEF ShapeOK
  <2> HIDE DEF e
  <2> QED BY <1>3, <2>1 DEF Mine
<1>5. new \in [at : Places, reply : Replies] /\ new.at = "begin" /\ new.reply = NoReply
  BY NoReplyShape DEF NoCall, Places
<1> HIDE DEF e, own, new
<1>6. /\ CallShape' /\ call'[s] = new
      /\ \A t \in RemoteSteps \ {s} : call'[t] = call[t]
  BY <1>2, <1>5 DEF ShapeOK, CallShape
<1>7. /\ mine' \in [RemoteSteps -> Mine] /\ mine'[s] = own
      /\ \A t \in RemoteSteps \ {s} : mine'[t] = mine[t]
  BY <1>2, <1>4 DEF ShapeOK
<1>8. /\ copy' \in [RemoteSteps -> SUBSET (1..MaxCredential)]
      /\ e.version \in copy'[s] /\ \A t \in RemoteSteps \ {s} : copy'[t] = copy[t]
  BY <1>2, <1>3 DEF ShapeOK, LeasesTypeOK
<1>9. /\ lease' \in [RemoteSteps -> Lease] /\ lease'[s].state = "active"
      /\ lease'[s].req = lease[s].req /\ \A t \in RemoteSteps \ {s} : lease'[t] = lease[t]
  BY <1>2, SetLeaseIs
<1>10. Others(s)
  BY <1>1, <1>6, <1>7, <1>8, <1>9 DEF Others, SameCall
<1>11. WorkerShape'
  BY <1>1, <1>6, <1>7, <1>8, <1>9, ShapeParts DEF WorkerShape
<1>12. Receives(s)
  BY <1>1, <1>4, <1>5, <1>6, <1>7, <1>8, <1>9, NoReplyShape DEF Receives, e
<1> QED BY <1>10, <1>11, <1>12

LEMMA FailedMoves ==
  ASSUME ShapeOK, OldOver, NEW s \in RemoteSteps, AcquireFailed(s)
  PROVE  Others(s) /\ WorkerShape' /\ Returns(s)
BY ReturnMoves DEF AcquireFailed, Waits

LEMMA ReapMoves ==
  ASSUME ShapeOK, OldOver, NEW s \in RemoteSteps, ReapLease(s)
  PROVE  Others(s) /\ WorkerShape' /\ Returns(s)
BY ReturnMoves DEF ReapLease, Hung

LEMMA BeginMoves ==
  ASSUME ShapeOK, OldOver, NEW s \in RemoteSteps, BeginRemote(s)
  PROVE  Others(s) /\ WorkerShape' /\ (Begins(s) \/ Returns(s))
<1>1. call[s].at = "begin" /\ UNCHANGED <<lease, open, copy, mine>>
  BY DEF BeginRemote, Waits
<1>2. CASE mine[s].auth /\ live' = [live EXCEPT ![s] = TRUE] /\ Rest(s)
  <2>1. live' \in [RemoteSteps -> BOOLEAN] /\ live'[s]
        /\ \A t \in RemoteSteps \ {s} : live'[t] = live[t]
    BY <1>2 DEF ShapeOK, LeasesTypeOK
  <2> QED BY <1>1, <1>2, <2>1, RestsIs, ShapeParts DEF Others, WorkerShape, Begins
<1>3. CASE ReleaseRemote(s) /\ UNCHANGED live
  BY <1>1, <1>3, ReturnMoves
<1> QED BY <1>2, <1>3 DEF BeginRemote

LEMMA EndMoves ==
  ASSUME ShapeOK, OldOver, NEW s \in RemoteSteps, AttemptEnds(s)
  PROVE  Others(s) /\ WorkerShape' /\ Ends(s)
<1>1. /\ call[s].at = "idle" /\ live' = [live EXCEPT ![s] = FALSE]
      /\ open' = open \/ open' = [open EXCEPT ![s] = FALSE]
      /\ UNCHANGED <<lease, call, copy, mine, calls>>
  BY DEF AttemptEnds, Hung
<1>2. /\ live' \in [RemoteSteps -> BOOLEAN] /\ ~live'[s] /\ open' \in [RemoteSteps -> BOOLEAN]
      /\ \A t \in RemoteSteps \ {s} : live'[t] = live[t]
  BY <1>1 DEF ShapeOK, LeasesTypeOK
<1> QED BY <1>1, <1>2, ShapeParts DEF Others, WorkerShape, Ends, SameCall, CallShape

LEMMA GiveMoves ==
  ASSUME ShapeOK, OldOver, NEW s \in RemoteSteps, ReleaseNext(s)
  PROVE  Others(s) /\ WorkerShape' /\ GivesBack(s)
<1>1. call[s].at \in {"account_release", "project_release"} /\ UNCHANGED <<live, open, copy, mine>>
  BY DEF ReleaseNext, Waits
<1>2. lease[s].req > 0 /\ "project_release" \in CallKinds
  BY <1>1, AwaitedDrawn DEF CallKinds
<1>3. CASE call[s].at = "account_release" /\ Send(s, "project_release", Req(s)) /\ UNCHANGED lease
  BY <1>1, <1>2, <1>3, AsksIs, ShapeParts DEF Others, WorkerShape, GivesBack, Same
<1>4. CASE /\ call[s].reply.is = "released" /\ call[s].at = "project_release"
           /\ SetLease(s, "released") /\ Rest(s)
  BY <1>1, <1>4, SetLeaseIs, RestsIs, ShapeParts DEF Others, WorkerShape, GivesBack, Same
<1>5. CASE SetLease(s, "release_pending") /\ Rest(s)
  BY <1>1, <1>5, SetLeaseIs, RestsIs, ShapeParts DEF Others, WorkerShape, GivesBack, Same
<1> QED BY <1>3, <1>4, <1>5 DEF ReleaseNext, Waits

LEMMA DeathMoves ==
  ASSUME ShapeOK, OldOver, NEW s \in RemoteSteps, WorkerDies(s)
  PROVE  Others(s) /\ WorkerShape' /\ Dies(s)
<1>1. /\ call[s].at # "idle" /\ call' = [call EXCEPT ![s] = NoCall]
      /\ calls' = {c \in calls : c.req[1] # s} /\ UNCHANGED <<lease, live, open, copy, mine>>
  BY DEF WorkerDies, Hung
<1>2. /\ CallShape' /\ call'[s] = NoCall /\ \A t \in RemoteSteps \ {s} : call'[t] = call[t]
  BY <1>1, NoReplyShape DEF ShapeOK, CallShape
<1>3. calls' \subseteq [m : CallKinds, req : Requests]
  BY <1>1 DEF ShapeOK
<1> QED BY <1>1, <1>2, <1>3, NoReplyShape, ShapeParts
        DEF Others, WorkerShape, Dies, Same, SameCall

\* Every step of a worker, and of its attempt.
LEMMA WorkerMoves ==
  ASSUME ShapeOK, OldOver, NEW s \in RemoteSteps,
         WorkerStep(s) \/ AttemptEnds(s) \/ WorkerDies(s)
  PROVE  /\ Others(s) /\ WorkerShape' /\ WorkerMove(s) /\ UNCHANGED controllerVars
         /\ UNCHANGED removals /\ lostCalls' \in 0..MaxLost
<1>1. Others(s) /\ WorkerShape' /\ WorkerMove(s)
  BY AcquireMoves, AskingMoves, ReceiveMoves, FailedMoves, BeginMoves, ReapMoves,
     ReconcileMoves, GiveMoves, EndMoves, DeathMoves DEF WorkerStep, WorkerMove
<1>2. lostCalls \in 0..MaxLost
  BY DEF ShapeOK, LeasesTypeOK
<1> DEFINE Kept == /\ UNCHANGED <<controllerVars, removals>>
                   /\ lostCalls' \in {lostCalls, lostCalls + 1}
                   /\ lostCalls' = lostCalls \/ lostCalls < MaxLost
<1>3. AcquireRemote(s) \/ AcquireAccount(s) \/ AttemptEnds(s) => Kept
  BY DEF AcquireRemote, AcquireAccount, AttemptEnds, controllerVars
<1>9. ReceiveCredential(s) => Kept
  BY DEF ReceiveCredential, controllerVars
<1>4. BeginRemote(s) \/ ReapLease(s) \/ ReconcileReleases(s) => Kept
  BY DEF BeginRemote, ReapLease, ReconcileReleases, controllerVars
<1>5. AcquireFailed(s) => Kept
  BY DEF AcquireFailed, CountLost, controllerVars
<1>6. ReleaseNext(s) => Kept
  BY DEF ReleaseNext, CountLost, controllerVars
<1>7. WorkerDies(s) => Kept
  BY DEF WorkerDies, CountLost, controllerVars
<1>8. Kept
  BY <1>3, <1>4, <1>5, <1>6, <1>7, <1>9 DEF WorkerStep
<1> QED BY <1>1, <1>2, <1>8, LeasesAssumption
-----------------------------------------------------------------------------
(* A step of a worker preserves the invariant.                             *)

LEMMA NewCall ==
  ASSUME ShapeOK, WorkerShape', NEW s \in RemoteSteps, Others(s), WorkerMove(s),
         NEW c \in calls'
  PROVE  \/ c \in calls
         \/ \E m \in CallKinds : Asks(s, m) /\ c = [m |-> m, req |-> <<s, lease'[s].req>>]
BY DEF WorkerMove, Draws, GoesOn, Receives, Returns, Begins, Ends, GivesBack, Dies, Asks, Rests,
       CallKinds

LEMMA ReqMoves ==
  ASSUME ShapeOK, NEW s \in RemoteSteps, Others(s), WorkerMove(s)
  PROVE  /\ \A t \in RemoteSteps \ {s} : lease'[t] = lease[t]
         /\ \/ lease'[s].req = lease[s].req
            \/ Draws(s) /\ lease'[s].req = lease[s].req + 1
BY DEF Others, WorkerMove, Draws, GoesOn, Receives, Returns, Begins, Ends, GivesBack, Dies

LEMMA WorkerOldOver ==
  ASSUME LeasesSafeInv, WorkerShape', NEW s \in RemoteSteps, Others(s), WorkerMove(s),
         UNCHANGED projectRes
  PROVE  OldOver'
<1>1. ShapeOK /\ OldOver /\ lease \in [RemoteSteps -> Lease] /\ lease' \in [RemoteSteps -> Lease]
  BY ShapeParts DEF LeasesSafeInv, WorkerShape
<1>2. ASSUME NEW c \in calls'
      PROVE  c.req[2] <= lease'[c.req[1]].req
  <2>1. CASE c \in calls
    <3>1. c.req \in Requests /\ c.req[1] \in RemoteSteps /\ c.req[2] <= lease[c.req[1]].req
      BY <1>1, <2>1 DEF ShapeOK, OldOver, Requests
    <3>2. lease'[c.req[1]].req \in {lease[c.req[1]].req, lease[c.req[1]].req + 1}
      BY <1>1, <3>1, ReqMoves
    <3> QED BY <1>1, <3>1, <3>2 DEF Requests, Lease
  <2>2. CASE c.req = <<s, lease'[s].req>>
    BY <1>1, <2>2 DEF Lease
  <2> QED BY <1>1, <2>1, <2>2, NewCall
<1>3. ASSUME NEW t \in RemoteSteps, NEW k \in 1..MaxLease, k < lease'[t].req
      PROVE  projectRes'[<<t, k>>] = "released"
  <2>1. CASE lease'[t].req = lease[t].req
    BY <1>1, <1>3, <2>1 DEF OldOver
  <2>2. CASE t = s /\ Draws(s) /\ lease'[s].req = lease[s].req + 1
    <3>1. lease[s].state = "released" \/ lease[s].req = 0
      BY <1>1, <2>2 DEF Draws, OldOver, Lease
    <3>2. k < lease[s].req \/ k = lease[s].req
      <4>1. k \in Nat /\ lease[s].req \in Nat
        BY <1>1, LeasesAssumption DEF Lease
      <4>2. k < lease[s].req + 1
        BY <1>3, <2>2
      <4> QED BY <4>1, <4>2
    <3>3. lease[s].state = "released" => projectRes[<<s, lease[s].req>>] = "released"
      BY DEF LeasesSafeInv, HeldWhileNeeded, Req
    <3> QED BY <1>1, <2>2, <3>1, <3>2, <3>3 DEF OldOver
  <2> QED BY <1>1, <2>1, <2>2, ReqMoves
<1>4. ASSUME NEW t \in RemoteSteps
      PROVE  /\ lease'[t].state # "none" \/ call'[t].at # "idle" => lease'[t].req > 0
             /\ lease'[t].state = "none" => lease'[t].req = 0
  <2>1. CASE t # s
    BY <1>1, <2>1 DEF Others, SameCall, OldOver
  <2>2. CASE t = s /\ Draws(s)
    BY <1>1, <2>2 DEF Draws, OldOver, Lease
  <2>3. CASE t = s /\ GoesOn(s)
    BY <1>1, <2>3 DEF GoesOn, OldOver, Asks, Rests
  <2>4. CASE t = s /\ Receives(s)
    BY <1>1, <2>4 DEF Receives, OldOver, Asks, Rests
  <2>5. CASE t = s /\ Returns(s)
    BY <1>1, <2>5 DEF Returns, OldOver, Asks, Rests, Lease
  <2>6. CASE t = s /\ (Begins(s) \/ Ends(s) \/ Dies(s))
    BY <1>1, <2>6 DEF Begins, Ends, Dies, OldOver, SameCall, Rests
  <2>7. CASE t = s /\ GivesBack(s)
    BY <1>1, <2>7 DEF GivesBack, OldOver, Asks, Rests, Lease
  <2> QED BY <2>1, <2>2, <2>3, <2>4, <2>5, <2>6, <2>7 DEF WorkerMove
<1> QED BY <1>2, <1>3, <1>4 DEF OldOver

\* What may still be asked back: a worker's own steps decide, and only for itself.
LEMMA OthersReturning ==
  ASSUME ShapeOK, WorkerShape', NEW s \in RemoteSteps, Others(s), WorkerMove(s),
         NEW t \in RemoteSteps \ {s}
  PROVE  /\ ReturningAccount(t)' => ReturningAccount(t)
         /\ ReturningProject(t)' => ReturningProject(t)
<1>1. lease'[t] = lease[t] /\ t # s
  BY DEF Others
<1>2. ASSUME NEW m \in CallKinds, [m |-> m, req |-> <<t, lease[t].req>>] \in calls'
      PROVE  [m |-> m, req |-> <<t, lease[t].req>>] \in calls
  BY <1>1, <1>2, NewCall
<1> QED BY <1>1, <1>2 DEF ReturningAccount, ReturningProject, Req, CallKinds

LEMMA OwnReturning ==
  ASSUME ShapeOK, OldOver, WorkerShape', NEW s \in RemoteSteps, Others(s), WorkerMove(s)
  PROVE  /\ ReturningAccount(s)' =>
              \/ lease'[s].req = lease[s].req /\ ReturningAccount(s) /\ ~Dies(s)
              \/ Asks(s, "account_release")
         /\ ReturningProject(s)' =>
              \/ lease'[s].req = lease[s].req /\ ReturningProject(s) /\ ~Dies(s)
              \/ Asks(s, "project_release")
<1> DEFINE r == <<s, lease'[s].req>>
<1>1. ASSUME NEW m \in CallKinds, [m |-> m, req |-> r] \in calls'
      PROVE  \/ lease'[s].req = lease[s].req /\ [m |-> m, req |-> r] \in calls /\ ~Dies(s)
             \/ Asks(s, m)
  <2>1. CASE [m |-> m, req |-> r] \in calls
    <3>1. ([m |-> m, req |-> r]).req = r /\ r[1] = s /\ r[2] = lease'[s].req
      OBVIOUS
    <3>2. lease'[s].req <= lease[s].req /\ ~Dies(s)
      BY <1>1, <2>1, <3>1 DEF OldOver, Dies
    <3>3. lease'[s].req = lease[s].req
      BY <3>2, ReqMoves, ShapeParts DEF Lease
    <3> QED BY <2>1, <3>2, <3>3
  <2>2. CASE \E n \in CallKinds : Asks(s, n) /\ [m |-> m, req |-> r] = [m |-> n, req |-> r]
    BY <2>2
  <2> QED BY <1>1, <2>1, <2>2, NewCall
<1> QED BY <1>1 DEF ReturningAccount, ReturningProject, Req, CallKinds

LEMMA WorkerPlaces ==
  ASSUME LeasesSafeInv, WorkerShape', NEW s \in RemoteSteps, Others(s), WorkerMove(s)
  PROVE  LeasePlaces'
<1>1. ShapeOK /\ OldOver /\ LeasePlaces
  BY DEF LeasesSafeInv
<1> DEFINE Place(t) ==
      /\ Asking(t) => lease[t].state \in {"pending", "active"}
      /\ call[t].at = "begin" => lease[t].state = "active"
      /\ live[t] => lease[t].state = "active" /\ call[t].at = "idle"
      /\ ReturningAccount(t) => \/ lease[t].state \in {"release_pending", "released"}
                                \/ call[t].at \in {"account_release", "project_release"}
      /\ ReturningProject(t) => \/ lease[t].state \in {"release_pending", "released"}
                                \/ call[t].at = "project_release"
<1>2. \A t \in RemoteSteps : Place(t)
  BY <1>1 DEF LeasePlaces
<1>3. ASSUME NEW t \in RemoteSteps \ {s}
      PROVE  Place(t)'
  <2>1. call'[t].at = call[t].at /\ lease'[t] = lease[t] /\ live'[t] = live[t]
    BY DEF Others, SameCall
  <2>2. /\ ReturningAccount(t)' => ReturningAccount(t)
        /\ ReturningProject(t)' => ReturningProject(t)
    BY <1>1, OthersReturning
  <2>3. Place(t)
    BY <1>2
  <2> QED BY <2>1, <2>2, <2>3 DEF Asking
<1>4. Place(s)'
  <2>1. Place(s) /\ (live[s] \in BOOLEAN)
    BY <1>1, <1>2 DEF ShapeOK, LeasesTypeOK
  <2> USE <1>1, <2>1, OwnReturning DEF Asking, Asks, Rests, Same
  <2>2. CASE Draws(s)
    <3>1. lease[s].req \in Nat
      BY ShapeParts, LeasesAssumption DEF Lease
    <3>2. /\ ~live'[s] /\ call'[s].at = "project_acquire"
          /\ lease'[s].state \in {"pending", "active"}
      BY <2>2 DEF Draws
    <3>3. lease'[s].req = lease[s].req => ~ReturningAccount(s) /\ ~ReturningProject(s)
      BY <2>2, <3>1 DEF Draws
    <3>4. ~ReturningAccount(s)' /\ ~ReturningProject(s)'
      BY <3>2, <3>3
    <3> QED BY <3>2, <3>4
  <2>3. CASE GoesOn(s)
    BY <2>3 DEF GoesOn
  <2>4. CASE Receives(s)
    BY <2>4 DEF Receives
  <2>5. CASE Returns(s)
    BY <2>5 DEF Returns
  <2>6. CASE Begins(s)
    BY <2>6 DEF Begins
  <2>7. CASE Ends(s)
    BY <2>7 DEF Ends, SameCall
  <2>8. CASE GivesBack(s)
    BY <2>8 DEF GivesBack
  <2>9. CASE Dies(s)
    BY <2>9 DEF Dies
  <2> QED BY <2>2, <2>3, <2>4, <2>5, <2>6, <2>7, <2>8, <2>9 DEF WorkerMove
<1>5. \A t \in RemoteSteps : Place(t)'
  BY <1>3, <1>4
<1> QED BY <1>5 DEF LeasePlaces

LEMMA WorkerHeld ==
  ASSUME LeasesSafeInv, WorkerShape', NEW s \in RemoteSteps, Others(s), WorkerMove(s),
         UNCHANGED <<projectRes, accountRes>>
  PROVE  HeldWhileNeeded'
<1>1. ShapeOK /\ OldOver /\ LeasePlaces /\ HeldWhileNeeded
  BY DEF LeasesSafeInv
<1> DEFINE Has(t) ==
      /\ call[t].at = "project_acquire" /\ call[t].reply.is = "granted" => ProjectHeld(t)
      /\ call[t].at \in {"account_acquire", "begin"} => ProjectHeld(t)
      /\ call[t].at = "account_acquire" /\ call[t].reply.is = "bound" => AccountHeld(t)
      /\ call[t].at = "begin" => AccountHeld(t)
      /\ live[t] => ProjectHeld(t) /\ AccountHeld(t)
      /\ call[t].at = "project_release" /\ call[t].reply.is = "released" =>
           projectRes[Req(t)] = "released"
      /\ lease[t].state = "released" => projectRes[Req(t)] = "released"
<1>2. \A t \in RemoteSteps : Has(t)
  BY <1>1 DEF HeldWhileNeeded
<1>3. ASSUME NEW t \in RemoteSteps, lease'[t].req = lease[t].req
      PROVE  /\ Req(t)' = Req(t)
             /\ ProjectHeld(t)' = ProjectHeld(t) /\ AccountHeld(t)' = AccountHeld(t)
  BY <1>3 DEF ProjectHeld, AccountHeld, Req
<1>4. ASSUME NEW t \in RemoteSteps \ {s}
      PROVE  Has(t)'
  <2>1. /\ call'[t].at = call[t].at /\ call'[t].reply = call[t].reply
        /\ lease'[t] = lease[t] /\ live'[t] = live[t]
    BY DEF Others, SameCall
  <2> QED BY <1>2, <1>3, <2>1
<1>5. Has(s)'
  <2>1. Has(s) /\ (live[s] \in BOOLEAN)
    BY <1>1, <1>2 DEF ShapeOK, LeasesTypeOK
  <2>10. lease'[s].req = lease[s].req =>
           /\ Req(s)' = Req(s)
           /\ ProjectHeld(s)' = ProjectHeld(s) /\ AccountHeld(s)' = AccountHeld(s)
    BY <1>3
  <2> HIDE <1>1, <1>2, <1>3
  <2>2. CASE Draws(s)
    BY <2>1, <2>2 DEF Draws, Asks, Same
  <2>3. CASE GoesOn(s)
    BY <2>1, <2>10, <2>3 DEF GoesOn, Asks, Rests, Same
  <2>4. CASE Receives(s)
    BY <2>1, <2>10, <2>4 DEF Receives
  <2>5. CASE Returns(s)
    BY <2>1, <2>10, <2>5 DEF Returns, Asks, Same
  <2>6. CASE Begins(s)
    BY <2>1, <2>10, <2>6 DEF Begins, Rests
  <2>7. CASE Ends(s)
    BY <2>1, <2>10, <2>7 DEF Ends, SameCall
  <2>8. CASE GivesBack(s)
    BY <2>1, <2>10, <2>8 DEF GivesBack, Asks, Rests, Same
  <2>9. CASE Dies(s)
    BY <2>1, <2>10, <2>9 DEF Dies, Same
  <2> QED BY <2>2, <2>3, <2>4, <2>5, <2>6, <2>7, <2>8, <2>9 DEF WorkerMove
<1>6. \A t \in RemoteSteps : Has(t)'
  BY <1>4, <1>5
<1> QED BY <1>6 DEF HeldWhileNeeded

LEMMA WorkerGrants ==
  ASSUME LeasesSafeInv, WorkerShape', NEW s \in RemoteSteps, Others(s), WorkerMove(s)
  PROVE  RevokedGrantStaysOut'
<1>1. ASSUME NEW t \in RemoteSteps
      PROVE  mine'[t].grant > 0 => mine'[t].grant > mine'[t].revoked
  <2>1. mine[t].grant > 0 => mine[t].grant > mine[t].revoked
    BY DEF LeasesSafeInv, RevokedGrantStaysOut
  <2>2. CASE t # s
    BY <2>1, <2>2 DEF Others
  <2>3. CASE t = s /\ Receives(s)
    BY <2>1, <2>3 DEF Receives
  <2>4. CASE t = s /\ (Draws(s) \/ GoesOn(s) \/ Returns(s) \/ GivesBack(s) \/ Dies(s))
    BY <2>1, <2>4 DEF Draws, GoesOn, Returns, GivesBack, Dies, Same
  <2>5. CASE t = s /\ (Begins(s) \/ Ends(s))
    BY <2>1, <2>5 DEF Begins, Ends
  <2> QED BY <2>2, <2>3, <2>4, <2>5 DEF WorkerMove
<1> QED BY <1>1 DEF RevokedGrantStaysOut

LEMMA WorkerShapeOK ==
  ASSUME ShapeOK, WorkerShape', UNCHANGED <<controllerVars, removals>>, lostCalls' \in 0..MaxLost
  PROVE  ShapeOK'
<1>1. /\ LeasesTypeOK /\ removals' \subseteq Removals
      /\ UNCHANGED <<projectRes, accountRes, delivery, credVersion, granted, grants, linked>>
  BY DEF ShapeOK, controllerVars
<1>2. \A t \in RemoteSteps :
        /\ call'[t].at \in Places
        /\ call'[t].reply.is \in {"none", "granted", "no", "error", "null", "bound", "released"}
  BY NoReplyShape DEF WorkerShape, CallShape, Replies, CallAnswers
<1>3. LeasesTypeOK'
  BY <1>1, <1>2 DEF LeasesTypeOK, WorkerShape, Lease, Mine, Places
<1> QED BY <1>1, <1>3 DEF ShapeOK, WorkerShape, CallShape

LEMMA WorkerKeepsSafe ==
  ASSUME LeasesSafeInv, NEW s \in RemoteSteps, WorkerStep(s) \/ AttemptEnds(s) \/ WorkerDies(s)
  PROVE  LeasesSafeInv'
<1>1. /\ Others(s) /\ WorkerShape' /\ WorkerMove(s) /\ UNCHANGED controllerVars
      /\ UNCHANGED removals /\ lostCalls' \in 0..MaxLost /\ ShapeOK
  BY WorkerMoves DEF LeasesSafeInv
<1>2. UNCHANGED <<projectRes, accountRes>>
  BY <1>1 DEF controllerVars
<1> QED BY <1>1, <1>2, WorkerShapeOK, WorkerOldOver, WorkerPlaces, WorkerHeld, WorkerGrants
        DEF LeasesSafeInv
-----------------------------------------------------------------------------
(* The controller: a call is handled, and its caller answered.             *)

WorkersKept == UNCHANGED <<lease, live, open, copy, mine, removals, lostCalls>>
TablesTyped ==
  /\ projectRes \in [Requests -> {"none", "active", "released"}]
  /\ accountRes \in [Requests -> [state : {"none", "active", "revoked", "released"},
                                  version : 0..MaxCredential]]
  /\ delivery \in [Requests -> [state : {"none", "delivered", "revocation_pending",
                                         "replacement_pending", "removed"},
                                version : 0..MaxCredential]]
Admits(c) ==
  /\ c.m = "project_acquire" /\ UNCHANGED accountRes
  /\ projectRes' = projectRes
     \/ (projectRes[c.req] = "none" /\ projectRes' = [projectRes EXCEPT ![c.req] = "active"])
  /\ \E is \in {"granted", "no", "error"} :
       Reply(c, is) /\ (is = "granted" => projectRes'[c.req] = "active")
Binds(c) ==
  /\ c.m = "account_acquire" /\ UNCHANGED projectRes
  /\ \E is \in {"bound", "null", "error"} :
       /\ Reply(c, is)
       /\ \/ is # "bound" /\ UNCHANGED accountRes
          \/ accountRes' = [accountRes EXCEPT ![c.req] =
                              [state |-> "active", version |-> credVersion]]
Frees(c) ==
  /\ c.m = "account_release" /\ UNCHANGED projectRes /\ Reply(c, "released")
  /\ \A r \in Requests : r # c.req => accountRes'[r] = accountRes[r]
Closes(c) ==
  /\ c.m = "project_release" /\ UNCHANGED accountRes /\ Reply(c, "released")
  /\ projectRes' = [projectRes EXCEPT ![c.req] = "released"]
Handles(c) == Admits(c) \/ Binds(c) \/ Frees(c) \/ Closes(c)

LEMMA AdmitMoves ==
  ASSUME ShapeOK, NEW c \in calls, ProjectAcquire(c)
  PROVE  /\ Admits(c) /\ TablesTyped' /\ WorkersKept /\ calls' = calls \ {c}
         /\ UNCHANGED <<credVersion, granted, grants, linked>>
<1>1. c.req \in Requests /\ projectRes \in [Requests -> {"none", "active", "released"}]
  BY DEF ShapeOK, LeasesTypeOK
<1>2. UNCHANGED <<accountRes, delivery>> /\ TablesTyped
  BY DEF ProjectAcquire, ShapeOK, LeasesTypeOK, TablesTyped
<1>3. /\ WorkersKept /\ calls' = calls \ {c} /\ UNCHANGED <<credVersion, granted, grants, linked>>
  BY DEF ProjectAcquire, Handled, WorkersKept
<1>4. \/ projectRes[c.req] = "active" /\ Reply(c, "granted") /\ projectRes' = projectRes
      \/ /\ projectRes[c.req] = "none" /\ projectRes' = [projectRes EXCEPT ![c.req] = "active"]
         /\ Reply(c, "granted")
      \/ (Reply(c, "no") \/ Reply(c, "error")) /\ projectRes' = projectRes
  BY DEF ProjectAcquire
<1>5. Admits(c)
  <2>1. c.m = "project_acquire"
    BY DEF ProjectAcquire
  <2> QED BY <1>1, <1>2, <1>4, <2>1 DEF Admits
<1>6. TablesTyped'
  BY <1>1, <1>2, <1>4 DEF TablesTyped
<1> QED BY <1>3, <1>5, <1>6

LEMMA BindMoves ==
  ASSUME ShapeOK, NEW c \in calls, AccountAcquire(c)
  PROVE  /\ Binds(c) /\ TablesTyped' /\ WorkersKept /\ calls' = calls \ {c}
         /\ UNCHANGED <<credVersion, granted, grants, linked>>
<1>1. /\ UNCHANGED projectRes /\ TablesTyped /\ c.m = "account_acquire"
      /\ c.req \in Requests /\ credVersion \in 0..MaxCredential
  BY LeasesAssumption DEF AccountAcquire, ShapeOK, LeasesTypeOK, TablesTyped
<1>2. /\ WorkersKept /\ calls' = calls \ {c} /\ UNCHANGED <<credVersion, granted, grants, linked>>
  BY DEF AccountAcquire, Handled, WorkersKept
<1> DEFINE row == [state |-> "active", version |-> credVersion]
           note == [state |-> "delivered", version |-> credVersion]
<1>3. \/ /\ accountRes' = [accountRes EXCEPT ![c.req] = row]
         /\ delivery' = [delivery EXCEPT ![c.req] = note] /\ Reply(c, "bound")
      \/ (Reply(c, "null") \/ Reply(c, "error")) /\ UNCHANGED <<accountRes, delivery>>
  BY DEF AccountAcquire
<1>4. Binds(c)
  BY <1>1, <1>3 DEF Binds
<1>5. row \in [state : {"none", "active", "revoked", "released"}, version : 0..MaxCredential]
      /\ note \in [state : {"none", "delivered", "revocation_pending", "replacement_pending",
                            "removed"}, version : 0..MaxCredential]
  BY <1>1
<1> HIDE DEF row, note
<1>6. TablesTyped'
  <2>1. accountRes' = accountRes \/ accountRes' = [accountRes EXCEPT ![c.req] = row]
    BY <1>3
  <2>2. delivery' = delivery \/ delivery' = [delivery EXCEPT ![c.req] = note]
    BY <1>3
  <2>3. accountRes' \in [Requests -> [state : {"none", "active", "revoked", "released"},
                                     version : 0..MaxCredential]]
    BY <1>1, <1>5, <2>1 DEF TablesTyped
  <2>4. delivery' \in [Requests -> [state : {"none", "delivered", "revocation_pending",
                                            "replacement_pending", "removed"},
                                   version : 0..MaxCredential]]
    BY <1>1, <1>5, <2>2 DEF TablesTyped
  <2> QED BY <1>1, <2>3, <2>4 DEF TablesTyped
<1> QED BY <1>2, <1>4, <1>6

LEMMA FreeMoves ==
  ASSUME ShapeOK, NEW c \in calls, AccountRelease(c)
  PROVE  /\ Frees(c) /\ TablesTyped' /\ WorkersKept /\ calls' = calls \ {c}
         /\ UNCHANGED <<credVersion, granted, grants, linked>>
<1>1. /\ UNCHANGED <<projectRes, delivery>> /\ TablesTyped /\ c.m = "account_release"
      /\ c.req \in Requests /\ Reply(c, "released")
  BY DEF AccountRelease, ShapeOK, LeasesTypeOK, TablesTyped
<1>2. /\ WorkersKept /\ calls' = calls \ {c} /\ UNCHANGED <<credVersion, granted, grants, linked>>
  BY DEF AccountRelease, Handled, WorkersKept
<1> DEFINE row == [accountRes[c.req] EXCEPT !.state = "released"]
<1>3. accountRes' = accountRes \/ accountRes' = [accountRes EXCEPT ![c.req] = row]
  BY DEF AccountRelease
<1>4. row \in [state : {"none", "active", "revoked", "released"}, version : 0..MaxCredential]
  BY <1>1 DEF TablesTyped
<1> HIDE DEF row
<1> QED BY <1>1, <1>2, <1>3, <1>4 DEF TablesTyped, Frees

LEMMA CloseMoves ==
  ASSUME ShapeOK, NEW c \in calls, ProjectRelease(c)
  PROVE  /\ Closes(c) /\ TablesTyped' /\ WorkersKept /\ calls' = calls \ {c}
         /\ UNCHANGED <<credVersion, granted, grants, linked>>
<1>1. /\ UNCHANGED <<accountRes, delivery>> /\ TablesTyped /\ c.m = "project_release"
      /\ c.req \in Requests /\ Reply(c, "released")
      /\ projectRes' = [projectRes EXCEPT ![c.req] = "released"]
  BY DEF ProjectRelease, ShapeOK, LeasesTypeOK, TablesTyped
<1>2. /\ WorkersKept /\ calls' = calls \ {c} /\ UNCHANGED <<credVersion, granted, grants, linked>>
  BY DEF ProjectRelease, Handled, WorkersKept
<1> QED BY <1>1, <1>2 DEF TablesTyped, Closes

LEMMA HandleMoves ==
  ASSUME ShapeOK, NEW c \in calls,
         ProjectAcquire(c) \/ AccountAcquire(c) \/ AccountRelease(c) \/ ProjectRelease(c)
  PROVE  /\ Handles(c) /\ TablesTyped' /\ WorkersKept /\ calls' = calls \ {c}
         /\ UNCHANGED <<credVersion, granted, grants, linked>>
BY AdmitMoves, BindMoves, FreeMoves, CloseMoves DEF Handles

LEMMA HandledAnswers ==
  ASSUME ShapeOK, NEW c \in calls, Handles(c)
  PROVE  /\ CallShape'
         /\ \A t \in RemoteSteps :
              \/ SameCall(t)
              \/ /\ Req(t) = c.req /\ call[t].at = c.m /\ call'[t].at = c.m
                 /\ call'[t].reply.is = "granted" =>
                      c.m # "project_acquire" \/ projectRes'[c.req] = "active"
                 /\ call'[t].reply.is = "bound" =>
                      c.m # "account_acquire" \/ accountRes'[c.req].state = "active"
                 /\ call'[t].reply.is = "released" =>
                      c.m # "project_release" \/ projectRes'[c.req] = "released"
<1>1. PICK is \in {"granted", "no", "error", "null", "bound", "released"} :
        /\ Reply(c, is)
        /\ is = "granted" => c.m # "project_acquire" \/ projectRes'[c.req] = "active"
        /\ is = "bound" => c.m # "account_acquire" \/ accountRes'[c.req].state = "active"
        /\ is = "released" => c.m # "project_release" \/ projectRes'[c.req] = "released"
  <2>1. c.req \in Requests /\ TablesTyped
    BY DEF ShapeOK, LeasesTypeOK, TablesTyped
  <2>2. CASE Admits(c)
    BY <2>1, <2>2 DEF Admits
  <2>3. CASE Binds(c)
    BY <2>1, <2>3 DEF Binds, TablesTyped
  <2>4. CASE Frees(c)
    BY <2>1, <2>4 DEF Frees
  <2>5. CASE Closes(c)
    BY <2>1, <2>5 DEF Closes, TablesTyped
  <2> QED BY <2>2, <2>3, <2>4, <2>5 DEF Handles
<1>2. /\ CallShape'
      /\ \A t \in RemoteSteps :
           \/ SameCall(t)
           \/ /\ t = c.req[1] /\ Req(t) = c.req /\ call[t].at = c.m /\ call'[t].at = c.m
              /\ call'[t].reply.is = is
  BY <1>1, ReplyIs
<1> QED BY <1>1, <1>2

LEMMA ShapeAgain ==
  ASSUME ShapeOK, TablesTyped', CallShape', UNCHANGED <<lease, live, open>>,
         credVersion' \in 1..MaxCredential, granted' \in 0..grants', grants' \in 1..MaxGrant,
         linked' \in [RemoteSteps -> BOOLEAN], lostCalls' \in 0..MaxLost,
         copy' \in [RemoteSteps -> SUBSET (1..MaxCredential)], mine' \in [RemoteSteps -> Mine],
         calls' \subseteq [m : CallKinds, req : Requests], removals' \subseteq Removals
  PROVE  ShapeOK'
<1>1. \A t \in RemoteSteps :
        /\ call'[t].at \in Places
        /\ call'[t].reply.is \in {"none", "granted", "no", "error", "null", "bound", "released"}
  BY NoReplyShape DEF CallShape, Replies, CallAnswers
<1>2. LeasesTypeOK
  BY DEF ShapeOK
<1>3. LeasesTypeOK'
  BY <1>1, <1>2 DEF LeasesTypeOK, TablesTyped, Mine, Places
<1> QED BY <1>3 DEF ShapeOK, CallShape

LEMMA HandleKeepsSafe ==
  ASSUME LeasesSafeInv, NEW c \in calls,
         ProjectAcquire(c) \/ AccountAcquire(c) \/ AccountRelease(c) \/ ProjectRelease(c)
  PROVE  LeasesSafeInv'
<1>1. /\ ShapeOK /\ OldOver /\ LeasePlaces /\ HeldWhileNeeded /\ RevokedGrantStaysOut
      /\ c.req \in Requests
  BY DEF LeasesSafeInv, ShapeOK
<1>2. /\ Handles(c) /\ TablesTyped' /\ calls' = calls \ {c}
      /\ UNCHANGED <<credVersion, granted, grants, linked>>
      /\ UNCHANGED <<lease, live, open, copy, mine, removals, lostCalls>>
  BY <1>1, HandleMoves DEF WorkersKept
<1>3. CallShape' /\ \A t \in RemoteSteps : call'[t].at = call[t].at
  BY <1>1, <1>2, HandledAnswers DEF SameCall
<1>4. ShapeOK'
  BY <1>1, <1>2, <1>3, ShapeAgain DEF ShapeOK, LeasesTypeOK
<1>5. RevokedGrantStaysOut'
  BY <1>1, <1>2 DEF RevokedGrantStaysOut
<1>6. \A t \in RemoteSteps : Req(t)' = Req(t)
  BY <1>2 DEF Req
<1>7. LeasePlaces'
  <2>1. \A t \in RemoteSteps : /\ ReturningAccount(t)' => ReturningAccount(t)
                               /\ ReturningProject(t)' => ReturningProject(t)
    BY <1>2, <1>6 DEF ReturningAccount, ReturningProject
  <2> QED BY <1>1, <1>2, <1>3, <2>1 DEF LeasePlaces, Asking
\* What a call may change: a table row that its request owns.
<1>8. /\ \A r \in Requests : projectRes[r] = "released" => projectRes'[r] = "released"
      /\ \A r \in Requests : projectRes'[r] # projectRes[r] =>
           \/ projectRes[r] = "none" /\ projectRes'[r] = "active"
           \/ r = c.req /\ c.m = "project_release"
      /\ \A r \in Requests : accountRes'[r] # accountRes[r] =>
           accountRes'[r].state = "active" \/ (r = c.req /\ c.m = "account_release")
  <2>1. TablesTyped
    BY <1>1 DEF ShapeOK, LeasesTypeOK, TablesTyped
  <2>2. CASE Admits(c)
    BY <1>1, <2>1, <2>2 DEF Admits, TablesTyped
  <2>3. CASE Binds(c)
    BY <1>1, <2>1, <2>3 DEF Binds, TablesTyped
  <2>4. CASE Frees(c)
    BY <1>1, <2>1, <2>4 DEF Frees
  <2>5. CASE Closes(c)
    BY <1>1, <2>1, <2>5 DEF Closes, TablesTyped
  <2> QED BY <1>2, <2>2, <2>3, <2>4, <2>5 DEF Handles
<1>9. OldOver'
  <2>1. \A t \in RemoteSteps, k \in 1..MaxLease : <<t, k>> \in Requests
    BY DEF Requests
  <2> QED BY <1>1, <1>2, <1>3, <1>8, <2>1 DEF OldOver
<1>10. ASSUME NEW t \in RemoteSteps
       PROVE  /\ call'[t].at = "project_acquire" /\ call'[t].reply.is = "granted" => ProjectHeld(t)'
              /\ call'[t].at \in {"account_acquire", "begin"} => ProjectHeld(t)'
              /\ call'[t].at = "account_acquire" /\ call'[t].reply.is = "bound" => AccountHeld(t)'
              /\ call'[t].at = "begin" => AccountHeld(t)'
              /\ live'[t] => ProjectHeld(t)' /\ AccountHeld(t)'
              /\ call'[t].at = "project_release" /\ call'[t].reply.is = "released" =>
                   projectRes'[Req(t)'] = "released"
              /\ lease'[t].state = "released" => projectRes'[Req(t)'] = "released"
  <2> DEFINE in == Asking(t) \/ live[t]
             r == Req(t)
  <2>1. in => lease[t].state \in {"pending", "active"}
              /\ call[t].at \notin {"account_release", "project_release"}
    BY <1>1 DEF LeasePlaces, Asking
  <2>2. in => ~ReturningAccount(t) /\ ~ReturningProject(t)
    BY <1>1, <2>1 DEF LeasePlaces
  <2>3. in => ~(r = c.req /\ c.m \in {"account_release", "project_release"})
    <3>1. c = [m |-> c.m, req |-> c.req]
      BY <1>1 DEF ShapeOK
    <3> QED BY <2>2, <3>1 DEF ReturningAccount, ReturningProject
  <2>4. call[t].at # "idle" \/ lease[t].state # "none" => r \in Requests
    BY <1>1, ShapeParts DEF OldOver
  <2>5. live[t] => lease[t].state = "active"
    BY <1>1 DEF LeasePlaces
  <2>6. in /\ ProjectHeld(t) => ProjectHeld(t)'
    BY <1>6, <1>8, <2>1, <2>3, <2>4 DEF ProjectHeld
  <2>7. in /\ AccountHeld(t) => AccountHeld(t)'
    BY <1>6, <1>8, <2>1, <2>3, <2>4 DEF AccountHeld
  <2>8. \/ SameCall(t)
        \/ /\ r = c.req /\ call[t].at = c.m /\ call'[t].at = c.m
           /\ call'[t].reply.is = "granted" =>
                c.m # "project_acquire" \/ projectRes'[c.req] = "active"
           /\ call'[t].reply.is = "bound" =>
                c.m # "account_acquire" \/ accountRes'[c.req].state = "active"
           /\ call'[t].reply.is = "released" =>
                c.m # "project_release" \/ projectRes'[c.req] = "released"
    BY <1>1, <1>2, HandledAnswers
  <2>9. /\ call[t].at = "project_acquire" /\ call[t].reply.is = "granted" => ProjectHeld(t)
        /\ call[t].at \in {"account_acquire", "begin"} => ProjectHeld(t)
        /\ call[t].at = "account_acquire" /\ call[t].reply.is = "bound" => AccountHeld(t)
        /\ call[t].at = "begin" => AccountHeld(t)
        /\ live[t] => ProjectHeld(t) /\ AccountHeld(t)
        /\ call[t].at = "project_release" /\ call[t].reply.is = "released" =>
             projectRes[r] = "released"
        /\ lease[t].state = "released" => projectRes[r] = "released"
    BY <1>1 DEF HeldWhileNeeded
  <2>10. call'[t].at = call[t].at /\ live'[t] = live[t] /\ lease'[t] = lease[t] /\ Req(t)' = r
    BY <1>2, <1>3, <1>6
  <2> HIDE DEF in, r
  <2>11. in <=> call[t].at \in {"project_acquire", "account_acquire", "begin"} \/ live[t]
    BY DEF in, Asking
  <2>12. /\ call'[t].at = "project_acquire" /\ call'[t].reply.is = "granted" => ProjectHeld(t)'
    <3>1. CASE SameCall(t)
      BY <2>6, <2>9, <2>11, <3>1 DEF SameCall
    <3>2. CASE ~SameCall(t)
      BY <2>8, <2>10, <3>2 DEF ProjectHeld
    <3> QED BY <3>1, <3>2
  <2>13. /\ call'[t].at = "account_acquire" /\ call'[t].reply.is = "bound" => AccountHeld(t)'
    <3>1. CASE SameCall(t)
      BY <2>7, <2>9, <2>11, <3>1 DEF SameCall
    <3>2. CASE ~SameCall(t)
      BY <2>8, <2>10, <3>2 DEF AccountHeld
    <3> QED BY <3>1, <3>2
  <2>14. /\ call'[t].at = "project_release" /\ call'[t].reply.is = "released" =>
              projectRes'[r] = "released"
    <3>1. CASE SameCall(t)
      BY <1>8, <2>4, <2>9, <3>1 DEF SameCall
    <3>2. CASE ~SameCall(t)
      BY <2>8, <2>10, <3>2
    <3> QED BY <3>1, <3>2
  <2>15. lease'[t].state = "released" => projectRes'[r] = "released"
    BY <1>8, <2>4, <2>9, <2>10
  <2> QED BY <2>6, <2>7, <2>9, <2>10, <2>11, <2>12, <2>13, <2>14, <2>15
<1>11. HeldWhileNeeded'
  BY <1>10 DEF HeldWhileNeeded
<1> QED BY <1>4, <1>5, <1>7, <1>9, <1>11 DEF LeasesSafeInv
-----------------------------------------------------------------------------
(* The operator: grants, credentials, cancellations and the copies.        *)

\* What none of its steps touches.
Untouched == UNCHANGED <<projectRes, lease, call, live, calls, lostCalls>>

LEMMA OperatorShape ==
  ASSUME ShapeOK, Untouched, TablesTyped', open' \in [RemoteSteps -> BOOLEAN],
         credVersion' \in 1..MaxCredential, granted' \in 0..grants', grants' \in 1..MaxGrant,
         linked' \in [RemoteSteps -> BOOLEAN],
         copy' \in [RemoteSteps -> SUBSET (1..MaxCredential)], mine' \in [RemoteSteps -> Mine],
         removals' \subseteq Removals
  PROVE  ShapeOK'
<1>1. LeasesTypeOK
  BY DEF ShapeOK
<1>2. \A t \in RemoteSteps :
        /\ mine'[t].version \in 0..MaxCredential /\ mine'[t].grant \in 0..MaxGrant
        /\ mine'[t].revoked \in 0..MaxGrant
  BY DEF Mine
<1>3. LeasesTypeOK'
  BY <1>1, <1>2 DEF LeasesTypeOK, TablesTyped, Untouched
<1> QED BY <1>3 DEF ShapeOK, Untouched

LEMMA OperatorKeepsSafe ==
  ASSUME LeasesSafeInv, Untouched, ShapeOK', RevokedGrantStaysOut',
         \A r \in Requests : accountRes'[r] = accountRes[r]
           \/ (accountRes[r].state = "active" /\ accountRes'[r].state = "revoked")
  PROVE  LeasesSafeInv'
<1>1. \A t \in RemoteSteps : Req(t)' = Req(t) /\ (lease[t].req > 0 => Req(t) \in Requests)
  BY ShapeParts DEF LeasesSafeInv, Untouched, Req
<1>2. OldOver' /\ LeasePlaces'
  BY DEF LeasesSafeInv, Untouched, OldOver, LeasePlaces, Asking, ReturningAccount,
         ReturningProject, Req
<1>3. \A t \in RemoteSteps : call[t].at # "idle" \/ lease[t].state # "none" => lease[t].req > 0
  BY DEF LeasesSafeInv, OldOver
<1>4. \A t \in RemoteSteps : live[t] => lease[t].state = "active"
  BY DEF LeasesSafeInv, LeasePlaces
<1>5. \A t \in RemoteSteps : ProjectHeld(t)' = ProjectHeld(t)
  BY <1>1 DEF ProjectHeld, Untouched
<1>6. \A t \in RemoteSteps : lease[t].req > 0 /\ AccountHeld(t) => AccountHeld(t)'
  BY <1>1 DEF AccountHeld
<1>7. HeldWhileNeeded'
  BY <1>1, <1>3, <1>4, <1>5, <1>6 DEF LeasesSafeInv, HeldWhileNeeded, Untouched
<1> QED BY <1>2, <1>7 DEF LeasesSafeInv

LEMMA CancelKeepsSafe ==
  ASSUME LeasesSafeInv, NEW s \in RemoteSteps, CancelAssignment(s) \/ CancelStep(s)
  PROVE  LeasesSafeInv'
<1>1. /\ Untouched /\ UNCHANGED <<accountRes, delivery, credVersion, granted, grants, copy, mine,
                                 removals>>
      /\ linked' = linked \/ linked' = [linked EXCEPT ![s] = FALSE]
      /\ open' = open \/ open' = [open EXCEPT ![s] = FALSE]
  BY DEF CancelAssignment, CancelStep, Untouched, workerVars, controllerVars
<1>2. ShapeOK /\ LeasesTypeOK /\ RevokedGrantStaysOut
  BY DEF LeasesSafeInv, ShapeOK
<1>3. linked' \in [RemoteSteps -> BOOLEAN] /\ open' \in [RemoteSteps -> BOOLEAN] /\ TablesTyped'
  BY <1>1, <1>2 DEF LeasesTypeOK, TablesTyped, Untouched
<1>4. ShapeOK'
  BY <1>1, <1>2, <1>3, OperatorShape DEF ShapeOK, LeasesTypeOK
<1>5. RevokedGrantStaysOut'
  BY <1>1, <1>2 DEF RevokedGrantStaysOut, Untouched
<1> QED BY <1>1, <1>4, <1>5, OperatorKeepsSafe

\* A delivery row whose state alone changes keeps its type.
DeliveryTyped ==
  delivery \in [Requests -> [state : {"none", "delivered", "revocation_pending",
                                     "replacement_pending", "removed"},
                            version : 0..MaxCredential]]
LEMMA DeliveryMoves ==
  ASSUME DeliveryTyped, NEW D \in SUBSET Requests,
         NEW st \in {"revocation_pending", "replacement_pending", "removed"},
         delivery' = [r \in Requests |-> IF r \in D THEN [delivery[r] EXCEPT !.state = st]
                                         ELSE delivery[r]]
  PROVE  DeliveryTyped'
<1>1. \A r \in Requests :
        [delivery[r] EXCEPT !.state = st] \in
          [state : {"none", "delivered", "revocation_pending", "replacement_pending", "removed"},
           version : 0..MaxCredential]
  BY DEF DeliveryTyped
<1> QED BY <1>1 DEF DeliveryTyped

LEMMA RevokeKeepsSafe ==
  ASSUME LeasesSafeInv, RevokeGrant
  PROVE  LeasesSafeInv'
<1>1. ShapeOK /\ LeasesTypeOK /\ RevokedGrantStaysOut
  BY DEF LeasesSafeInv, ShapeOK
<1>2. /\ Untouched /\ granted' = 0
      /\ UNCHANGED <<credVersion, grants, linked, open, copy, mine, removals>>
  BY DEF RevokeGrant, Untouched, workerVars
<1>3. \A r \in Requests :
        /\ accountRes'[r] \in [state : {"none", "active", "revoked", "released"},
                               version : 0..MaxCredential]
        /\ \/ accountRes'[r] = accountRes[r]
           \/ accountRes[r].state = "active" /\ accountRes'[r].state = "revoked"
  <2> TAKE r \in Requests
  <2> DEFINE row == [accountRes[r] EXCEPT !.state = "revoked"]
  <2>1. accountRes[r] \in [state : {"none", "active", "revoked", "released"},
                          version : 0..MaxCredential]
    BY <1>1 DEF LeasesTypeOK
  <2>2. row \in [state : {"none", "active", "revoked", "released"}, version : 0..MaxCredential]
        /\ row.state = "revoked"
    BY <2>1
  <2> HIDE DEF row
  <2>3. accountRes'[r] = IF accountRes[r].state = "active" THEN row ELSE accountRes[r]
    BY Zenon DEF RevokeGrant, row
  <2> QED BY <2>1, <2>2, <2>3
<1>4. accountRes' \in [Requests -> [state : {"none", "active", "revoked", "released"},
                                   version : 0..MaxCredential]]
  <2>1. accountRes' = [r \in Requests |-> accountRes'[r]]
    BY Zenon DEF RevokeGrant
  <2> QED BY <1>3, <2>1
<1>5. DeliveryTyped'
  <2> DEFINE D == {r \in Requests : delivery[r].state = "delivered"}
  <2>1. delivery' = [r \in Requests |-> IF r \in D
          THEN [delivery[r] EXCEPT !.state = "revocation_pending"] ELSE delivery[r]]
    BY DEF RevokeGrant
  <2> QED BY <1>1, <2>1, DeliveryMoves DEF DeliveryTyped, LeasesTypeOK
<1>6. TablesTyped'
  BY <1>1, <1>2, <1>4, <1>5 DEF TablesTyped, DeliveryTyped, LeasesTypeOK, Untouched
<1>7. ShapeOK'
  <2>1. granted' \in 0..grants' /\ grants' \in 1..MaxGrant
    BY <1>1, <1>2, LeasesAssumption DEF LeasesTypeOK
  <2> QED BY <1>1, <1>2, <1>6, <2>1, OperatorShape DEF ShapeOK, LeasesTypeOK
<1>8. RevokedGrantStaysOut'
  BY <1>1, <1>2 DEF RevokedGrantStaysOut, Untouched
<1> QED BY <1>2, <1>3, <1>7, <1>8, OperatorKeepsSafe

LEMMA GrantKeepsSafe ==
  ASSUME LeasesSafeInv, GrantAgain \/ ReplaceCredential \/ \E r \in Requests : AskRemoval(r)
  PROVE  LeasesSafeInv'
<1>1. ShapeOK /\ LeasesTypeOK /\ RevokedGrantStaysOut
  BY DEF LeasesSafeInv, ShapeOK
<1>2. /\ Untouched /\ UNCHANGED <<accountRes, linked, open, copy, mine>>
  BY DEF GrantAgain, ReplaceCredential, AskRemoval, Untouched, workerVars, controllerVars
<1>3. /\ credVersion' \in 1..MaxCredential /\ granted' \in 0..grants' /\ grants' \in 1..MaxGrant
  <2>1. CASE GrantAgain
    <3>1. /\ grants' = grants + 1 /\ granted' = grants + 1 /\ grants < MaxGrant
          /\ UNCHANGED credVersion
      BY <2>1 DEF GrantAgain
    <3>2. grants \in 1..MaxGrant /\ credVersion \in 1..MaxCredential
      BY <1>1 DEF LeasesTypeOK
    <3> QED BY <3>1, <3>2, LeasesAssumption
  <2>2. CASE ReplaceCredential
    <3>1. /\ UNCHANGED <<granted, grants>> /\ credVersion < MaxCredential
          /\ credVersion' = credVersion + 1
      BY <2>2 DEF ReplaceCredential
    <3> QED BY <1>1, <3>1, LeasesAssumption DEF LeasesTypeOK
  <2>3. CASE \E r \in Requests : AskRemoval(r)
    BY <1>1, <2>3 DEF AskRemoval, controllerVars, LeasesTypeOK
  <2> QED BY <2>1, <2>2, <2>3
<1>4. DeliveryTyped'
  <2>1. CASE ReplaceCredential
    <3> DEFINE D == {r \in Requests : delivery[r].state = "delivered"}
    <3>1. delivery' = [r \in Requests |-> IF r \in D
            THEN [delivery[r] EXCEPT !.state = "replacement_pending"] ELSE delivery[r]]
      BY <2>1 DEF ReplaceCredential
    <3> QED BY <1>1, <3>1, DeliveryMoves DEF DeliveryTyped, LeasesTypeOK
  <2>2. CASE UNCHANGED delivery
    BY <1>1, <2>2 DEF DeliveryTyped, LeasesTypeOK
  <2> QED BY <2>1, <2>2 DEF GrantAgain, AskRemoval, controllerVars
<1>5. TablesTyped'
  BY <1>1, <1>2, <1>4 DEF TablesTyped, DeliveryTyped, LeasesTypeOK, Untouched
<1>6. removals' \subseteq Removals
  <2>1. CASE UNCHANGED removals
    BY <1>1, <2>1 DEF ShapeOK
  <2>2. ASSUME NEW r \in Requests, AskRemoval(r)
        PROVE  removals' \subseteq Removals
    <3>1. /\ delivery[r].state \in {"revocation_pending", "replacement_pending"}
          /\ delivery[r].version \in 0..MaxCredential /\ r[1] \in RemoteSteps
      BY <1>1, <2>2 DEF AskRemoval, LeasesTypeOK, Requests
    <3>2. [m |-> delivery[r].state, s |-> r[1],
           v |-> delivery[r].version, at |-> "sent"] \in Removals
      BY <3>1 DEF Removals
    <3> QED BY <1>1, <2>2, <3>2 DEF AskRemoval, ShapeOK
  <2> QED BY <2>1, <2>2 DEF GrantAgain, ReplaceCredential
<1>7. ShapeOK'
  BY <1>1, <1>2, <1>3, <1>5, <1>6, OperatorShape DEF ShapeOK, LeasesTypeOK
<1>8. RevokedGrantStaysOut'
  BY <1>1, <1>2 DEF RevokedGrantStaysOut, Untouched
<1> QED BY <1>2, <1>7, <1>8, OperatorKeepsSafe

LEMMA RemovedTyped ==
  ASSUME DeliveryTyped, NEW m, NEW ok, Removed(m, ok)
  PROVE  DeliveryTyped'
<1> DEFINE D == {r \in Requests : r[1] = m.s /\ delivery[r] = [state |-> m.m, version |-> m.v]}
<1>1. CASE UNCHANGED delivery
  BY <1>1 DEF DeliveryTyped
<1>2. CASE delivery' = [r \in Requests |-> IF r \in D
             THEN [delivery[r] EXCEPT !.state = "removed"] ELSE delivery[r]]
  BY <1>2, DeliveryMoves
<1> QED BY <1>1, <1>2 DEF Removed

\* The steps of a removal, by what they do to the worker's account row and its copies.
Removes(s) ==
  /\ \/ mine' = mine
     \/ \E x \in Mine : x.grant \in {0, mine[s].grant}
                        /\ (x.grant > 0 => x.revoked = mine[s].revoked)
                        /\ mine' = [mine EXCEPT ![s] = x]
  /\ copy' = copy \/ \E k \in SUBSET (1..MaxCredential) : copy' = [copy EXCEPT ![s] = k]

LEMMA RemovalMoves ==
  ASSUME ShapeOK, NEW m \in removals, RemovalStep(m)
  PROVE  m.s \in RemoteSteps /\ Removes(m.s) /\ removals' \subseteq Removals /\ DeliveryTyped'
<1> DEFINE s == m.s
           own == [version |-> mine[s].version, auth |-> mine[s].auth, grant |-> 0,
                   revoked |-> IF mine[s].grant > 0 THEN mine[s].grant ELSE mine[s].revoked]
           aside == [mine[s] EXCEPT !.auth = FALSE]
           kept == {v \in copy[s] : v > m.v}
<1>1. m \in Removals /\ s \in RemoteSteps /\ removals \subseteq Removals /\ DeliveryTyped
  BY DEF ShapeOK, LeasesTypeOK, DeliveryTyped, Removals
<1>2. /\ mine[s] \in Mine /\ own \in Mine /\ own.grant = 0
      /\ aside \in Mine /\ aside.grant = mine[s].grant /\ aside.revoked = mine[s].revoked
  <2>1. mine[s] \in Mine
    BY <1>1 DEF ShapeOK
  <2>2. own \in Mine /\ own.grant = 0
    BY <2>1, LeasesAssumption DEF Mine
  <2>3. aside \in Mine /\ aside.grant = mine[s].grant /\ aside.revoked = mine[s].revoked
    BY <2>1 DEF Mine
  <2> QED BY <2>1, <2>2, <2>3
<1>3. {} \in SUBSET (1..MaxCredential) /\ kept \in SUBSET (1..MaxCredential)
  BY <1>1 DEF ShapeOK, LeasesTypeOK
<1>4. ASSUME NEW ok, RemovalAnswered(m, ok)
      PROVE  removals' \subseteq Removals /\ DeliveryTyped'
  <2>1. removals' = removals \ {m} /\ Removed(m, ok)
    BY <1>4 DEF RemovalAnswered
  <2> QED BY <1>1, <2>1, RemovedTyped
<1>5. ASSUME NEW st \in {"revoked", "counted", "ungranted", "deleted", "outdated"}, GoesTo(m, st)
      PROVE  removals' \subseteq Removals /\ DeliveryTyped'
  <2> DEFINE n == [m EXCEPT !.at = st]
  <2>1. removals' = (removals \ {m}) \cup {n} /\ UNCHANGED delivery
    BY <1>5 DEF GoesTo
  <2>2. n \in Removals
    BY <1>1 DEF Removals
  <2> QED BY <1>1, <2>1, <2>2 DEF DeliveryTyped
<1>6. CASE RemoveReceived(m)
  <2>1. GoesTo(m, "revoked") /\ UNCHANGED copy
    BY <1>6 DEF RemoveReceived
  <2>2. mine' = [mine EXCEPT ![s] = own]
    BY <1>6, Zenon DEF RemoveReceived
  <2>3. \E x \in Mine : x.grant \in {0, mine[s].grant}
                       /\ (x.grant > 0 => x.revoked = mine[s].revoked)
                       /\ mine' = [mine EXCEPT ![s] = x]
    <3>1. own.grant \in {0, mine[s].grant} /\ ~(own.grant > 0) /\ own \in Mine
      BY <1>2
    <3> HIDE DEF own, s
    <3> USE <3>1
    <3> WITNESS own \in Mine
    <3> QED BY <2>2
  <2> QED BY <1>1, <1>5, <2>1, <2>3 DEF Removes
<1>7. CASE CountAttempts(m) \/ RemainingGrants(m) \/ RetireReceived(m) \/ RemovalLost(m)
  <2>1. UNCHANGED <<mine, copy>>
    BY <1>7 DEF CountAttempts, RemainingGrants, RetireReceived, RemovalLost
  <2>2. \/ \E ok \in BOOLEAN : RemovalAnswered(m, ok)
        \/ \E st \in {"revoked", "counted", "ungranted", "deleted", "outdated"} : GoesTo(m, st)
    BY <1>7 DEF CountAttempts, RemainingGrants, RetireReceived, RemovalLost
  <2> QED BY <1>1, <1>4, <1>5, <2>1, <2>2 DEF Removes
<1>8. CASE DeleteMaterial(m)
  <2>1. GoesTo(m, "deleted") /\ UNCHANGED mine
    BY <1>8 DEF DeleteMaterial
  <2>2. copy' = [copy EXCEPT ![s] = {}] \/ copy' = [copy EXCEPT ![s] = kept]
    BY <1>8 DEF DeleteMaterial
  <2> QED BY <1>1, <1>3, <1>5, <2>1, <2>2 DEF Removes
<1>9. CASE ClearAuthenticated(m)
  <2>1. RemovalAnswered(m, TRUE) /\ UNCHANGED copy
    BY <1>9 DEF ClearAuthenticated
  <2>2. mine' = [mine EXCEPT ![s] = aside]
    BY <1>9 DEF ClearAuthenticated
  <2> QED BY <1>1, <1>2, <1>4, <2>1, <2>2 DEF Removes
<1> QED BY <1>6, <1>7, <1>8, <1>9 DEF RemovalStep

LEMMA CleanupMoves ==
  ASSUME ShapeOK, NEW s \in RemoteSteps, CleanupUngranted(s)
  PROVE  Removes(s)
<1> DEFINE aside == [mine[s] EXCEPT !.auth = FALSE]
<1>1. aside \in Mine /\ aside.grant = mine[s].grant /\ aside.revoked = mine[s].revoked
  BY DEF ShapeOK, Mine
<1>2. mine' = [mine EXCEPT ![s] = aside] /\ copy' = [copy EXCEPT ![s] = {}]
  BY DEF CleanupUngranted
<1>3. {} \in SUBSET (1..MaxCredential)
  OBVIOUS
<1> HIDE DEF aside
<1> QED BY <1>1, <1>2, <1>3 DEF Removes

LEMMA RemovalKeepsSafe ==
  ASSUME LeasesSafeInv, (\E m \in removals : RemovalStep(m))
                        \/ (\E s \in RemoteSteps : CleanupUngranted(s))
  PROVE  LeasesSafeInv'
<1>1. ShapeOK /\ LeasesTypeOK /\ RevokedGrantStaysOut /\ DeliveryTyped
  BY DEF LeasesSafeInv, ShapeOK, LeasesTypeOK, DeliveryTyped
<1>2. OnlyRemoval
  BY DEF RemovalStep, RemoveReceived, CountAttempts, RemainingGrants, DeleteMaterial,
         RetireReceived, ClearAuthenticated, RemovalLost, CleanupUngranted
<1>3. Untouched /\ UNCHANGED <<accountRes, credVersion, granted, grants, linked, open>>
  BY <1>2 DEF OnlyRemoval, Untouched
<1>4. PICK s \in RemoteSteps : Removes(s) /\ removals' \subseteq Removals /\ DeliveryTyped'
  <2>1. CASE \E m \in removals : RemovalStep(m)
    BY <1>1, <2>1, RemovalMoves
  <2>2. CASE \E s \in RemoteSteps : CleanupUngranted(s)
    <3>1. PICK s \in RemoteSteps : CleanupUngranted(s)
      BY <2>2
    <3>2. Removes(s) /\ UNCHANGED <<delivery, removals>>
      BY <1>1, <3>1, CleanupMoves DEF CleanupUngranted
    <3> QED BY <1>1, <3>2 DEF ShapeOK, DeliveryTyped
  <2> QED BY <2>1, <2>2
<1>5. /\ mine \in [RemoteSteps -> Mine] /\ copy \in [RemoteSteps -> SUBSET (1..MaxCredential)]
      /\ \A t \in RemoteSteps : mine[t].grant > 0 => mine[t].grant > mine[t].revoked
  BY <1>1 DEF ShapeOK, LeasesTypeOK, RevokedGrantStaysOut
<1>6. copy' \in [RemoteSteps -> SUBSET (1..MaxCredential)]
  BY <1>4, <1>5 DEF Removes
<1>7. mine' \in [RemoteSteps -> Mine] /\ RevokedGrantStaysOut'
  <2>1. CASE mine' = mine
    BY <1>5, <2>1 DEF RevokedGrantStaysOut
  <2>2. ASSUME NEW x \in Mine, x.grant \in {0, mine[s].grant},
               x.grant > 0 => x.revoked = mine[s].revoked, mine' = [mine EXCEPT ![s] = x]
        PROVE  mine' \in [RemoteSteps -> Mine] /\ RevokedGrantStaysOut'
    <3>1. mine' \in [RemoteSteps -> Mine] /\ mine'[s] = x
          /\ \A t \in RemoteSteps \ {s} : mine'[t] = mine[t]
      BY <1>5, <2>2
    <3> QED BY <1>5, <2>2, <3>1 DEF RevokedGrantStaysOut
  <2> QED BY <1>4, <2>1, <2>2 DEF Removes
<1>8. TablesTyped'
  BY <1>1, <1>3, <1>4 DEF TablesTyped, DeliveryTyped, LeasesTypeOK, Untouched
<1>9. ShapeOK'
  BY <1>1, <1>3, <1>4, <1>6, <1>7, <1>8, OperatorShape DEF ShapeOK, LeasesTypeOK
<1> QED BY <1>3, <1>7, <1>9, OperatorKeepsSafe
-----------------------------------------------------------------------------
(* The invariant, and what follows.                                        *)

LEMMA LeasesInitSafe == LeasesInit => LeasesSafeInv
<1> SUFFICES ASSUME LeasesInit
             PROVE  LeasesSafeInv
  OBVIOUS
<1> DEFINE none == [state |-> "none", req |-> 0]
           row  == [state |-> "none", version |-> 0]
           own  == [version |-> 0, auth |-> FALSE, grant |-> 0, revoked |-> 0]
<1>1. none \in Lease /\ none.state = "none" /\ none.req = 0
  BY LeasesAssumption DEF Lease
<1>2. /\ own \in Mine /\ ~own.auth /\ own.grant = 0 /\ own.version = 0 /\ own.revoked = 0
      /\ row.state = "none" /\ row.version = 0
      /\ row \in [state : {"none", "active", "revoked", "released"}, version : 0..MaxCredential]
      /\ row \in [state : {"none", "delivered", "revocation_pending", "replacement_pending",
                           "removed"}, version : 0..MaxCredential]
  BY LeasesAssumption DEF Mine
<1>3. /\ lease = [s \in RemoteSteps |-> none] /\ mine = [s \in RemoteSteps |-> own]
      /\ accountRes = [r \in Requests |-> row] /\ delivery = [r \in Requests |-> row]
  BY DEF LeasesInit
<1>4. /\ call = [s \in RemoteSteps |-> NoCall] /\ live = [s \in RemoteSteps |-> FALSE]
      /\ copy = [s \in RemoteSteps |-> {}] /\ calls = {} /\ removals = {}
      /\ projectRes = [r \in Requests |-> "none"] /\ credVersion = 1 /\ granted = 1
      /\ grants = 1 /\ lostCalls = 0 /\ open \in [RemoteSteps -> BOOLEAN] /\ linked = open
  BY DEF LeasesInit
<1> HIDE DEF none, row, own
<1>5. \A t \in RemoteSteps :
        /\ call[t].at = "idle" /\ call[t].reply.is = "none" /\ call[t] = NoCall
        /\ lease[t] = none /\ mine[t] = own /\ ~live[t]
  BY <1>3, <1>4, NoReplyShape
<1>6. LeasesTypeOK
  <2>1. /\ lease \in [RemoteSteps -> Lease] /\ accountRes \in [Requests ->
             [state : {"none", "active", "revoked", "released"}, version : 0..MaxCredential]]
        /\ delivery \in [Requests -> [state : {"none", "delivered", "revocation_pending",
              "replacement_pending", "removed"}, version : 0..MaxCredential]]
    BY <1>1, <1>2, <1>3
  <2>2. /\ projectRes \in [Requests -> {"none", "active", "released"}]
        /\ linked \in [RemoteSteps -> BOOLEAN] /\ live \in [RemoteSteps -> BOOLEAN]
        /\ open \in [RemoteSteps -> BOOLEAN]
        /\ copy \in [RemoteSteps -> SUBSET (1..MaxCredential)] /\ lostCalls \in 0..MaxLost
        /\ credVersion \in 1..MaxCredential /\ granted \in 0..grants /\ grants \in 1..MaxGrant
    BY <1>4, LeasesAssumption
  <2>3. \A t \in RemoteSteps :
          /\ mine[t].version \in 0..MaxCredential /\ mine[t].grant \in 0..MaxGrant
          /\ mine[t].revoked \in 0..MaxGrant
    BY <1>2, <1>5, LeasesAssumption
  <2> QED BY <1>5, <2>1, <2>2, <2>3 DEF LeasesTypeOK, Lease
<1>7. ShapeOK
  BY <1>2, <1>3, <1>4, <1>6, NoReplyShape DEF ShapeOK
<1>8. OldOver /\ LeasePlaces
  BY <1>1, <1>4, <1>5 DEF OldOver, LeasePlaces, Asking, ReturningAccount, ReturningProject
<1>9. HeldWhileNeeded /\ RevokedGrantStaysOut
  BY <1>1, <1>2, <1>5 DEF HeldWhileNeeded, RevokedGrantStaysOut
<1> QED BY <1>7, <1>8, <1>9 DEF LeasesSafeInv

LEMMA LeasesStepSafe ==
  ASSUME LeasesSafeInv, [LeasesNext]_leaseVars
  PROVE  LeasesSafeInv'
<1>1. ASSUME NEW s \in RemoteSteps, WorkerStep(s) \/ AttemptEnds(s) \/ WorkerDies(s)
      PROVE  LeasesSafeInv'
  BY <1>1, WorkerKeepsSafe
<1>2. ASSUME NEW s \in RemoteSteps, CancelAssignment(s) \/ CancelStep(s)
      PROVE  LeasesSafeInv'
  BY <1>2, CancelKeepsSafe
<1>3. ASSUME NEW c \in calls,
             ProjectAcquire(c) \/ AccountAcquire(c) \/ AccountRelease(c) \/ ProjectRelease(c)
      PROVE  LeasesSafeInv'
  BY <1>3, HandleKeepsSafe
<1>4. LeasesOperator => LeasesSafeInv'
  BY RevokeKeepsSafe, GrantKeepsSafe, RemovalKeepsSafe DEF LeasesOperator
<1>5. CASE UNCHANGED leaseVars
  <2>1. RevokedGrantStaysOut'
    BY <1>5 DEF LeasesSafeInv, leaseVars, RevokedGrantStaysOut
  <2>2. ShapeOK' /\ Untouched /\ accountRes' = accountRes
    BY <1>5 DEF LeasesSafeInv, leaseVars, ShapeOK, LeasesTypeOK, Untouched
  <2> QED BY <2>1, <2>2, OperatorKeepsSafe
<1> QED BY <1>1, <1>2, <1>3, <1>4, <1>5 DEF LeasesNext, LeasesWork

\* The invariant that carries the others: whatever calls are lost, late or handled
\* after their caller died, nothing that gives a reservation back is under way while
\* the lease it belongs to can still lead to an attempt.
THEOREM LeasesAlwaysSafe == LeasesSpec => []LeasesSafeInv
BY LeasesInitSafe, LeasesStepSafe, PTL DEF LeasesSpec

\* What the runs check of every lease: attempts run on reservations that the
\* controller still holds for them; a returned lease has given its capacity back; a
\* revoked grant does not come back.
THEOREM LeasesInvAlways == LeasesSpec => []LeasesInv
<1>1. LeasesSafeInv => LeasesInv
  <2> SUFFICES ASSUME LeasesSafeInv
               PROVE  LeasesInv
    OBVIOUS
  <2>1. LeasesTypeOK /\ RevokedGrantStaysOut
    BY DEF LeasesSafeInv, ShapeOK
  <2>2. RunsOnItsAccount
    BY ShapeParts DEF LeasesSafeInv, RunsOnItsAccount, HeldAccounts, HeldWhileNeeded, AccountHeld,
       LeasePlaces, OldOver
  <2>3. ProjectCapacityReturned
    BY DEF LeasesSafeInv, ProjectCapacityReturned, HeldWhileNeeded
  <2> QED BY <2>1, <2>2, <2>3 DEF LeasesInv
<1> QED BY <1>1, LeasesAlwaysSafe, PTL

\* Every step is a step of Quota, or leaves the reservations and the attempts alone.
LEMMA QuotaStep ==
  LeasesSafeInv /\ LeasesSafeInv' /\ [LeasesNext]_leaseVars
    => [FleetQuota!QuotaNext]_(FleetQuota!quotaVars)
<1> DEFINE h == HeldProjects
           u == {Req(s) : s \in {t \in RemoteSteps : live[t]}}
<1> SUFFICES ASSUME LeasesSafeInv, LeasesSafeInv', [LeasesNext]_leaseVars
             PROVE  FleetQuota!QuotaNext \/ UNCHANGED <<h, u>>
  BY DEF FleetQuota!quotaVars
<1>1. ShapeOK /\ OldOver /\ LeasePlaces /\ HeldWhileNeeded /\ HeldWhileNeeded' /\ OldOver' /\ LeasePlaces' /\ ShapeOK'
  BY DEF LeasesSafeInv
<1>2. ASSUME NEW s \in RemoteSteps, WorkerStep(s) \/ AttemptEnds(s) \/ WorkerDies(s)
      PROVE  FleetQuota!QuotaNext
  <2>1. Others(s) /\ WorkerMove(s) /\ UNCHANGED projectRes
    BY <1>1, <1>2, WorkerMoves DEF controllerVars
  <2>2. h' = h
    BY <2>1 DEF HeldProjects
  <2>3. CASE Begins(s)
    <3>1. \A t \in RemoteSteps : live[t] => live'[t] /\ Req(t)' = Req(t)
      BY <2>1, <2>3 DEF Begins, Others, Req
    <3>2. u \subseteq u'
      BY <3>1
    <3>3. \A t \in RemoteSteps : live'[t] => Req(t)' \in Requests /\ projectRes'[Req(t)'] = "active"
      <4> TAKE t \in RemoteSteps
      <4>1. lease'[t].req \in 0..MaxLease
        BY <1>1 DEF ShapeOK, LeasesTypeOK
      <4>2. live'[t] => lease'[t].req > 0 /\ ProjectHeld(t)'
        BY <1>1 DEF HeldWhileNeeded, OldOver, LeasePlaces
      <4> QED BY <4>1, <4>2, LeasesAssumption DEF ProjectHeld, Req, Requests
    <3>4. u' \subseteq h'
      BY <3>3 DEF HeldProjects
    <3> QED BY <2>2, <3>2, <3>4 DEF FleetQuota!QuotaNext, FleetQuota!UseUnits
  <2>4. CASE ~Begins(s)
    <3>1. \A t \in RemoteSteps \ {s} : live'[t] => live[t] /\ Req(t)' = Req(t)
      BY <2>1 DEF Others, Req
    <3>2. live'[s] => live[s] /\ Req(s)' = Req(s)
      BY <2>1, <2>4 DEF WorkerMove, Draws, GoesOn, Receives, Returns, Ends, GivesBack, Dies,
                        Same, Req
    <3>3. u' \subseteq u
      BY <3>1, <3>2
    <3> QED BY <2>2, <3>3 DEF FleetQuota!QuotaNext, FleetQuota!StopUnits
  <2> QED BY <2>3, <2>4
<1>3. ASSUME NEW c \in calls,
             ProjectAcquire(c) \/ AccountAcquire(c) \/ AccountRelease(c) \/ ProjectRelease(c)
      PROVE  FleetQuota!QuotaNext \/ UNCHANGED <<h, u>>
  <2>1. Handles(c) /\ UNCHANGED <<lease, live>> /\ c.req \in Requests
    BY <1>1, <1>3, HandleMoves DEF WorkersKept, ShapeOK
  <2>2. u' = u
    BY <2>1 DEF Req
  <2>3. projectRes \in [Requests -> {"none", "active", "released"}]
    BY <1>1 DEF ShapeOK, LeasesTypeOK
  <2>4. CASE UNCHANGED projectRes
    BY <2>2, <2>4 DEF HeldProjects
  <2>5. CASE ProjectAcquire(c) /\ projectRes' # projectRes
    <3>1. /\ projectRes[c.req] = "none" /\ Cardinality(h) < ProjectLimit
          /\ projectRes' = [projectRes EXCEPT ![c.req] = "active"]
      BY <2>5 DEF ProjectAcquire
    <3>2. h' = h \cup {c.req} /\ c.req \notin h
      BY <2>1, <2>3, <3>1 DEF HeldProjects
    <3>3. PICK r \in Requests : r = c.req
      BY <2>1
    <3>5. FleetQuota!Cardinality(h) = Cardinality(h)
      BY Zenon DEF Cardinality, FleetQuota!Cardinality
    <3>4. FleetQuota!TakeUnit(r)
      BY <2>2, <3>1, <3>2, <3>3, <3>5 DEF FleetQuota!TakeUnit
    <3> QED BY <3>4 DEF FleetQuota!QuotaNext
  <2>6. CASE ProjectRelease(c)
    <3>1. c.m = "project_release" /\ projectRes' = [projectRes EXCEPT ![c.req] = "released"]
      BY <2>6 DEF ProjectRelease
    <3>2. h' = h \ {c.req}
      BY <2>1, <2>3, <3>1 DEF HeldProjects
    <3>3. c = [m |-> "project_release", req |-> c.req]
      BY <1>1, <3>1 DEF ShapeOK
    <3>4. \A t \in RemoteSteps : live[t] => Req(t) # c.req
      BY <1>1, <3>3 DEF LeasePlaces, ReturningProject
    <3>5. c.req \notin u
      BY <3>4
    <3> QED BY <2>2, <3>2, <3>5 DEF FleetQuota!QuotaNext, FleetQuota!GiveBack
  <2> QED BY <1>3, <2>4, <2>5, <2>6 DEF AccountAcquire, AccountRelease
<1>4. ASSUME UNCHANGED <<projectRes, lease, live>>
      PROVE  UNCHANGED <<h, u>>
  BY <1>4 DEF HeldProjects, Req
<1>5. ASSUME NEW s \in RemoteSteps, CancelAssignment(s) \/ CancelStep(s)
      PROVE  UNCHANGED <<projectRes, lease, live>>
  BY <1>5 DEF CancelAssignment, CancelStep, controllerVars, workerVars
<1>6. LeasesOperator \/ UNCHANGED leaseVars => UNCHANGED <<projectRes, lease, live>>
  <2>1. RevokeGrant \/ GrantAgain \/ ReplaceCredential => UNCHANGED <<projectRes, lease, live>>
    BY DEF RevokeGrant, GrantAgain, ReplaceCredential, workerVars
  <2>2. \A r \in Requests : AskRemoval(r) => UNCHANGED <<projectRes, lease, live>>
    BY DEF AskRemoval, workerVars, controllerVars
  <2>3. /\ \A m \in removals : RemovalStep(m) => OnlyRemoval
        /\ \A s \in RemoteSteps : CleanupUngranted(s) => OnlyRemoval
    BY DEF RemovalStep, RemoveReceived, CountAttempts, RemainingGrants, DeleteMaterial,
           RetireReceived, ClearAuthenticated, RemovalLost, CleanupUngranted
  <2>5. OnlyRemoval => UNCHANGED <<projectRes, lease, live>>
    BY DEF OnlyRemoval
  <2>4. UNCHANGED leaseVars => UNCHANGED <<projectRes, lease, live>>
    BY DEF leaseVars
  <2> QED BY <2>1, <2>2, <2>3, <2>4, <2>5 DEF LeasesOperator
<1> QED BY <1>2, <1>3, <1>4, <1>5, <1>6 DEF LeasesNext, LeasesWork

\* The reservations implement Quota: across the fleet no more of a project's remote
\* attempts hold capacity than its concurrency, every live attempt holds some, and
\* none is given back under a live attempt, by a late release included.
THEOREM LeasesImplementQuota == LeasesSpec => FleetWithinLimit
<1>1. LeasesInit => FleetQuota!QuotaInit
  BY DEF LeasesInit, FleetQuota!QuotaInit, HeldProjects
<1> QED
  BY <1>1, QuotaStep, LeasesAlwaysSafe, PTL DEF LeasesSpec, FleetWithinLimit, FleetQuota!QuotaSpec

\* Said of the project itself: at no moment do more of its requests hold capacity than
\* its concurrency allows, however many workers ask.
FleetNotOversold == IsFiniteSet(HeldProjects) /\ Cardinality(HeldProjects) <= ProjectLimit
THEOREM FleetNeverOversold == LeasesSpec => []FleetNotOversold
<1> USE LeasesAssumption
<1>1. LeasesInit => FleetNotOversold
  <2>1. LeasesInit => HeldProjects = {}
    BY DEF LeasesInit, HeldProjects
  <2> QED BY <2>1, FS_EmptySet DEF FleetNotOversold
<1>2. FleetNotOversold /\ LeasesSafeInv /\ LeasesSafeInv' /\ [LeasesNext]_leaseVars
        => FleetNotOversold'
  <2> SUFFICES ASSUME FleetNotOversold, LeasesSafeInv, LeasesSafeInv', [LeasesNext]_leaseVars
               PROVE  FleetNotOversold'
    OBVIOUS
  <2>1. FleetQuota!Cardinality(HeldProjects) = Cardinality(HeldProjects)
    BY Zenon DEF Cardinality, FleetQuota!Cardinality
  <2>2. \/ HeldProjects' \subseteq HeldProjects
        \/ \E r : /\ r \notin HeldProjects /\ HeldProjects' = HeldProjects \cup {r}
                  /\ Cardinality(HeldProjects) < ProjectLimit
    BY <2>1, QuotaStep DEF FleetQuota!QuotaNext, FleetQuota!UseUnits, FleetQuota!StopUnits,
       FleetQuota!GiveBack, FleetQuota!TakeUnit, FleetQuota!quotaVars
  <2>3. IsFiniteSet(HeldProjects) /\ Cardinality(HeldProjects) \in Nat
        /\ Cardinality(HeldProjects) <= ProjectLimit
    BY FS_CardinalityType DEF FleetNotOversold
  <2>4. CASE HeldProjects' \subseteq HeldProjects
    <3>1. /\ IsFiniteSet(HeldProjects') /\ Cardinality(HeldProjects') <= Cardinality(HeldProjects)
          /\ Cardinality(HeldProjects') \in Nat
      BY <2>3, <2>4, FS_Subset, FS_CardinalityType
    <3> QED BY <2>3, <3>1 DEF FleetNotOversold
  <2>5. ASSUME NEW r, r \notin HeldProjects, HeldProjects' = HeldProjects \cup {r},
               Cardinality(HeldProjects) < ProjectLimit
        PROVE  FleetNotOversold'
    <3>1. IsFiniteSet(HeldProjects') /\ Cardinality(HeldProjects') = Cardinality(HeldProjects) + 1
      BY <2>3, <2>5, FS_AddElement
    <3> QED BY <2>3, <2>5, <3>1 DEF FleetNotOversold
  <2> QED BY <2>2, <2>4, <2>5
<1> QED BY <1>1, <1>2, LeasesAlwaysSafe, PTL DEF LeasesSpec
=============================================================================
