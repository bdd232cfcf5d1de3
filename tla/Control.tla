------------------------------ MODULE Control ------------------------------
(***************************************************************************)
(* The reverse control stream (control.rs, worker_join.rs): a worker opens *)
(* a stream to its controller and answers the calls the controller sends   *)
(* down it. The controller keeps one registry entry per worker, which a    *)
(* newer stream replaces while the loop of the older one may still run;    *)
(* the worker keeps a record of the stream its controller acknowledged,    *)
(* which `network join` reads.                                             *)
(***************************************************************************)
EXTENDS Naturals, FiniteSets

CONSTANTS
  Calls,       \* calls of the controller, each made once
  PendingCap,  \* calls waiting on one stream (32 in the code)
  MaxStream,   \* bound: streams opened, numbered by generation
  MaxProc      \* bound: processes of the worker's daemon

ASSUME ControlAssumption == {PendingCap, MaxStream, MaxProc} \subseteq Nat \ {0}

VARIABLES
  registry,  \* generation the registry names for the worker, 0 when none
  loop,      \* loop[g]: "none", "run" or "ended": the controller's task for stream g
  link,      \* link[g]: both ends still see the transport
  pend,      \* pend[g]: calls in the loop's pending map
  ctlCall,      \* ctlCall[x]: state of a call
  on,        \* on[x]: the stream whose sender the call holds
  frames,     \* frames under way: [g, x, kind]
  ran,       \* ran[x]: times the worker carried out x
  procNo,    \* processes of the worker's daemon so far; the last one is current
  procUp,    \* it runs
  wstream,   \* the stream it holds, 0 when none
  presence   \* what its store says of the connection: generation, process, acknowledged

ctlVars == <<registry, loop, link, pend, ctlCall, on, frames, ran, procNo, procUp, wstream, presence>>

\* worker_join::connected: the record is of the process that runs now.
JoinConnected == presence.acked /\ procUp /\ presence.by = procNo
Gens == 1..MaxStream
CallWaits(x) == ctlCall[x] \in {"picked", "queued", "sent"}
CallEnds == {"answered", "capacity", "disconnected", "timeout", "unconnected"}
Opened == {g \in Gens : loop[g] # "none"}
NoPresence == [gen |-> 0, by |-> 0, acked |-> FALSE]

CtlInit ==
  /\ registry = 0
  /\ loop = [g \in Gens |-> "none"]
  /\ link = [g \in Gens |-> FALSE]
  /\ pend = [g \in Gens |-> {}]
  /\ ctlCall = [x \in Calls |-> "none"]
  /\ on = [x \in Calls |-> 0]
  /\ frames = {}
  /\ ran = [x \in Calls |-> 0]
  /\ procNo = 0 /\ procUp = FALSE
  /\ wstream = 0
  /\ presence = NoPresence

----------------------------------------------------------------------------
\* accept: a newer stream takes the registry entry.
StreamOpens(g) ==
  /\ procUp /\ wstream = 0 /\ loop[g] = "none" /\ \A h \in Gens : h < g => loop[h] # "none"
  /\ loop' = [loop EXCEPT ![g] = "run"] /\ link' = [link EXCEPT ![g] = TRUE]
  /\ registry' = g /\ wstream' = g
  \* ControllerPresence::new on the worker clears what an earlier process left
  /\ presence' = [gen |-> g, by |-> 0, acked |-> FALSE]
  /\ UNCHANGED <<pend, ctlCall, on, frames, ran, procNo, procUp>>

\* Heartbeat and its acknowledgement, which only the generation of the record takes.
HeartbeatAck(g) ==
  /\ wstream = g /\ link[g] /\ loop[g] = "run" /\ presence.gen = g
  /\ presence' = [presence EXCEPT !.by = procNo, !.acked = TRUE]
  /\ UNCHANGED <<registry, loop, link, pend, ctlCall, on, frames, ran, procNo, procUp, wstream>>

\* The loop of a stream ends: its pending calls fail, and the registry entry
\* goes only when it is its own.
EndLoopForgets(g) ==
  /\ loop' = [loop EXCEPT ![g] = "ended"] /\ pend' = [pend EXCEPT ![g] = {}]
  /\ ctlCall' = [x \in Calls |-> IF on[x] = g /\ ctlCall[x] \in {"queued", "sent"} THEN "disconnected" ELSE ctlCall[x]]
  /\ registry' = 0
EndLoop(g) ==
  /\ loop' = [loop EXCEPT ![g] = "ended"] /\ pend' = [pend EXCEPT ![g] = {}]
  /\ ctlCall' = [x \in Calls |-> IF on[x] = g /\ ctlCall[x] \in {"queued", "sent"} THEN "disconnected" ELSE ctlCall[x]]
  /\ registry' = IF registry = g THEN 0 ELSE registry

\* The loop sees the transport fail, or nothing for thirty seconds.
LoopBreaks(g) ==
  /\ loop[g] = "run" /\ ~link[g] /\ EndLoop(g)
  /\ UNCHANGED <<link, on, frames, ran, procNo, procUp, wstream, presence>>
\* A replaced stream's channel closes once no call holds its sender.
SenderHeld(g) == registry = g \/ \E x \in Calls : CallWaits(x) /\ on[x] = g
LoopReplaced(g) ==
  /\ loop[g] = "run" /\ ~SenderHeld(g) /\ EndLoop(g) /\ link' = [link EXCEPT ![g] = FALSE]
  /\ UNCHANGED <<on, frames, ran, procNo, procUp, wstream, presence>>
\* The five-second check: revoked, or the certificate no longer speaks for the worker.
LoopUnauthorized(g) ==
  /\ loop[g] = "run" /\ EndLoop(g) /\ link' = [link EXCEPT ![g] = FALSE]
  /\ UNCHANGED <<on, frames, ran, procNo, procUp, wstream, presence>>

----------------------------------------------------------------------------
\* Calls of the controller.

\* call: the registry's sender is cloned under the lock, used after it.
CallStart(x) ==
  /\ ctlCall[x] = "none"
  /\ ctlCall' = [ctlCall EXCEPT ![x] = IF registry = 0 THEN "unconnected" ELSE "picked"]
  /\ on' = [on EXCEPT ![x] = registry]
  /\ UNCHANGED <<registry, loop, link, pend, frames, ran, procNo, procUp, wstream, presence>>
CallSend(x) ==
  /\ ctlCall[x] = "picked"
  /\ ctlCall' = [ctlCall EXCEPT ![x] = IF loop[on[x]] = "run" THEN "queued" ELSE "disconnected"]
  /\ UNCHANGED <<registry, loop, link, pend, on, frames, ran, procNo, procUp, wstream, presence>>
\* The loop takes a command: callers that gave up no longer count.
LivePending(g) == {y \in pend[g] : CallWaits(y)}
TakeCommand(x) ==
  LET g == on[x] IN
  /\ ctlCall[x] = "queued" /\ loop[g] = "run"
  /\ IF Cardinality(LivePending(g)) >= PendingCap
     THEN ctlCall' = [ctlCall EXCEPT ![x] = "capacity"] /\ pend' = [pend EXCEPT ![g] = LivePending(g)] /\ UNCHANGED frames
     ELSE /\ ctlCall' = [ctlCall EXCEPT ![x] = "sent"]
          /\ pend' = [pend EXCEPT ![g] = LivePending(g) \cup {x}]
          /\ frames' = IF link[g] THEN frames \cup {[g |-> g, x |-> x, kind |-> "call"]} ELSE frames
  /\ UNCHANGED <<registry, loop, link, on, ran, procNo, procUp, wstream, presence>>
CallTimesOut(x) ==
  /\ CallWaits(x) /\ ctlCall' = [ctlCall EXCEPT ![x] = "timeout"]
  /\ UNCHANGED <<registry, loop, link, pend, on, frames, ran, procNo, procUp, wstream, presence>>
\* The worker carries a call out on a task of its own and replies on the
\* stream it came from, if that still is there.
Carry(f) ==
  /\ f \in frames /\ f.kind = "call" /\ wstream = f.g
  /\ ran' = [ran EXCEPT ![f.x] = @ + 1]
  /\ frames' = (frames \ {f}) \cup {[f EXCEPT !.kind = "reply"]}
  /\ UNCHANGED <<registry, loop, link, pend, ctlCall, on, procNo, procUp, wstream, presence>>
ReplyArrives(f) ==
  /\ f \in frames /\ f.kind = "reply" /\ link[f.g] /\ loop[f.g] = "run"
  /\ frames' = frames \ {f}
  /\ pend' = [pend EXCEPT ![f.g] = @ \ {f.x}]
  /\ ctlCall' = IF f.x \in pend[f.g] /\ ctlCall[f.x] = "sent" THEN [ctlCall EXCEPT ![f.x] = "answered"] ELSE ctlCall
  /\ UNCHANGED <<registry, loop, link, on, ran, procNo, procUp, wstream, presence>>

----------------------------------------------------------------------------
\* The worker.

WorkerStarts ==
  /\ ~procUp /\ procNo < MaxProc /\ procNo' = procNo + 1 /\ procUp' = TRUE
  /\ UNCHANGED <<registry, loop, link, pend, ctlCall, on, frames, ran, wstream, presence>>
Frames(g) == {f \in frames : f.g = g}
\* connect returns: the worker drops its end and clears its own record.
ClearOwn == IF presence.gen = wstream THEN NoPresence ELSE presence
StreamDrops ==
  /\ wstream # 0 /\ link' = [link EXCEPT ![wstream] = FALSE]
  /\ frames' = frames \ Frames(wstream)
  /\ presence' = ClearOwn /\ wstream' = 0
  /\ UNCHANGED <<registry, loop, pend, ctlCall, on, ran, procNo, procUp>>
\* The process dies: nothing is cleared.
StreamWorkerDies ==
  /\ procUp /\ procNo < MaxProc /\ procUp' = FALSE /\ wstream' = 0
  /\ link' = IF wstream = 0 THEN link ELSE [link EXCEPT ![wstream] = FALSE]
  /\ frames' = {f \in frames : f.g # wstream}
  /\ UNCHANGED <<registry, loop, pend, ctlCall, on, ran, procNo, presence>>
\* The network fails under a stream; either end notices later.
LinkFails(g) ==
  /\ link[g] /\ link' = [link EXCEPT ![g] = FALSE] /\ frames' = frames \ Frames(g)
  /\ UNCHANGED <<registry, loop, pend, ctlCall, on, ran, procNo, procUp, wstream, presence>>

CtlStream(g) == StreamOpens(g) \/ HeartbeatAck(g) \/ LoopBreaks(g) \/ LoopReplaced(g) \/ LoopUnauthorized(g) \/ LinkFails(g)
CtlNext ==
  \/ \E g \in Gens : CtlStream(g)
  \/ \E x \in Calls : CallStart(x) \/ CallSend(x) \/ TakeCommand(x) \/ CallTimesOut(x)
  \/ \E f \in frames : Carry(f) \/ ReplyArrives(f)
  \/ WorkerStarts \/ StreamDrops \/ StreamWorkerDies

CtlSpec == CtlInit /\ [][CtlNext]_ctlVars
----------------------------------------------------------------------------
CtlTypeOK ==
  /\ registry \in 0..MaxStream /\ wstream \in 0..MaxStream
  /\ loop \in [Gens -> {"none", "run", "ended"}] /\ link \in [Gens -> BOOLEAN]
  /\ pend \in [Gens -> SUBSET Calls]
  /\ ctlCall \in [Calls -> {"none", "picked", "queued", "sent"} \cup CallEnds] /\ on \in [Calls -> 0..MaxStream]
  /\ frames \subseteq [g : Gens, x : Calls, kind : {"call", "reply"}]
  /\ ran \in [Calls -> Nat]
  /\ procNo \in 0..MaxProc /\ procUp \in BOOLEAN
  /\ presence \in [gen : 0..MaxStream, by : 0..MaxProc, acked : BOOLEAN]

\* The end of an older stream's loop, however late, does not take the newer
\* stream out of the registry.
NewestRegistered ==
  \A g \in Opened : (loop[g] = "run" /\ \A h \in Opened : h <= g) => registry = g

\* No reconnection, replacement or lost reply makes the worker carry out a
\* call twice, and an answered call was carried out.
CarriedOnce ==
  \A x \in Calls : ran[x] <= 1 /\ (ctlCall[x] = "answered" => ran[x] = 1)

\* A caller waits only on a loop that runs: every end of a loop ends its calls.
NobodyWaitsOnEnded ==
  \A x \in Calls : ctlCall[x] \in {"queued", "sent"} => loop[on[x]] = "run"

\* "At capacity" means that many callers really are waiting: one that timed
\* out gives its place back.
CapacityIsReal ==
  [][\A x \in Calls :
       (ctlCall[x] # "capacity" /\ ctlCall'[x] = "capacity") =>
          Cardinality({y \in Calls : on[y] = on[x] /\ ctlCall[y] = "sent"}) >= PendingCap]_ctlVars

\* What `network join` takes for a connection is one of the running process:
\* a record left by a process that died, or by a stream that ended, is not.
JoinSeesLive == JoinConnected => (wstream # 0 /\ presence.gen = wstream)

\* A running worker is registered again after every failure of a stream.
StreamReturns ==
  (procUp /\ procNo = MaxProc) ~> ((registry # 0 /\ loop[registry] = "run") \/ Opened = Gens)

\* The invariants together: what every request, crash and retry above must preserve.
CtlInv ==
  /\ CtlTypeOK
  /\ NewestRegistered
  /\ CarriedOnce
  /\ NobodyWaitsOnEnded
  /\ JoinSeesLive
============================================================================
