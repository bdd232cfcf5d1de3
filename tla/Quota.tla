------------------------------- MODULE Quota -------------------------------
(***************************************************************************)
(* What every bounded resource of the program promises (the concurrency of *)
(* a project across the fleet, the slots of a host, the leases of a pool): *)
(* no more units are held than the limit, work runs only on a unit that is *)
(* held, and a unit is given back only when nothing runs on it.            *)
(***************************************************************************)
EXTENDS Naturals, FiniteSets

CONSTANTS Units, QuotaLimit

VARIABLES
  held,      \* units handed out
  inUse      \* units that work runs on

quotaVars == <<held, inUse>>

QuotaInit == held = {} /\ inUse = {}

TakeUnit(u) ==
  /\ u \notin held /\ Cardinality(held) < QuotaLimit
  /\ held' = held \cup {u} /\ UNCHANGED inUse

\* Several units may start or stop being used, or be returned, in one step (a restart
\* ends everything at once).
UseUnits   == inUse \subseteq inUse' /\ inUse' \subseteq held /\ UNCHANGED held
StopUnits  == inUse' \subseteq inUse /\ UNCHANGED held
GiveBack   == held' \subseteq held /\ held \cap inUse \subseteq held' /\ UNCHANGED inUse

QuotaNext == StopUnits \/ UseUnits \/ GiveBack \/ \E u \in Units : TakeUnit(u)

QuotaSpec == QuotaInit /\ [][QuotaNext]_quotaVars
=============================================================================
