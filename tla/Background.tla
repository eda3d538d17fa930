----------------------------- MODULE Background -----------------------------
(***************************************************************************)
(* What the schedulers run, component by component in one state space:     *)
(* CreditControl, the probe ticks of ProxyProbe, the rebalances of         *)
(* Placements, the plans of RotationPlan, and UsageCrawl.  Init chooses    *)
(* the one that a behaviour is about; the others rest.                     *)
(***************************************************************************)
EXTENDS CreditControl, Placements

CONSTANTS
    Proxies, FailureThreshold, RecoveryThreshold, Whitelisted,  \* of ProxyProbe
    NGroups, NUsers, Quota, Threshold, Epsilon, Delta,          \* of RotationPlan
    Protections, Evacuations, InOrder, MaxUsage, MaxRuns,
    Readers, PageSize, Width, MaxItems, MaxPages, MaxRows       \* of UsageCrawl

VARIABLES
    subject,                                                    \* the component
    listed, states, alert, allDown, clearing, step, outcomes,   \* of ProxyProbe
    unsaved, vanished, recovered, streak, cleared,
    in, place, loads, left, rotations, began,                   \* of RotationPlan
    rows, day, today, past, thread, shifted, lapped             \* of UsageCrawl

Probe == INSTANCE ProxyProbe
Rotation == INSTANCE RotationPlan WITH runs <- rotations
Crawl == INSTANCE UsageCrawl WITH Threads <- Readers

probeVars == <<listed, states, alert, allDown, clearing, step, outcomes, unsaved, vanished,
               recovered, streak, cleared>>
rotationVars == <<in, place, loads, left, rotations, began>>
crawlVars == <<rows, day, today, past, thread, shifted, lapped>>
anyVars == <<subject, vars, probeVars, placementVars, rotationVars, crawlVars>>

ASSUME BackgroundAssumption ==
    /\ Probe!ProbeAssumption /\ Rotation!PlanAssumption /\ Crawl!CrawlAssumption

-----------------------------------------------------------------------------
(* The composition.                                                        *)

Components == {"credit", "probe", "placement", "rotation", "crawl"}

PlacementRests == eligible = {} /\ where = <<>> /\ home = <<>> /\ rebalances = 0
RotationRests ==
    in = <<>> /\ place = <<>> /\ loads = <<>> /\ left = {} /\ rotations = 0 /\ began = <<>>
CrawlRests ==
    /\ rows = 0 /\ day = "open" /\ today = <<>> /\ past = <<>> /\ thread = <<>>
    /\ shifted = FALSE /\ lapped = FALSE

AnyInit ==
    /\ subject \in Components
    /\ Init /\ (subject # "credit" => policy.kind = "once")
    /\ Probe!Init
    /\ IF subject = "placement" THEN PlacementInit ELSE PlacementRests
    /\ IF subject = "rotation" THEN Rotation!Init ELSE RotationRests
    /\ IF subject = "crawl" THEN Crawl!Init ELSE CrawlRests

AnyNext ==
    /\ UNCHANGED subject
    /\ \/ /\ subject = "credit" /\ Next
          /\ UNCHANGED <<probeVars, placementVars, rotationVars, crawlVars>>
       \/ /\ subject = "probe" /\ Probe!Next
          /\ UNCHANGED <<vars, placementVars, rotationVars, crawlVars>>
       \/ /\ subject = "placement" /\ PlacementNext
          /\ UNCHANGED <<vars, probeVars, rotationVars, crawlVars>>
       \/ /\ subject = "rotation" /\ Rotation!Next
          /\ UNCHANGED <<vars, probeVars, placementVars, crawlVars>>
       \/ /\ subject = "crawl" /\ Crawl!Next
          /\ UNCHANGED <<vars, probeVars, placementVars, rotationVars>>

AnySpec == AnyInit /\ [][AnyNext]_anyVars

-----------------------------------------------------------------------------
(* The properties of the components.                                       *)

\* A proxy is declared dead, or healthy again, after a full streak only.
Hysteresis == Probe!Hysteresis

\* The traces of a deleted proxy, once removed, do not come back.
ClearedStaysCleared == Probe!ClearedStaysCleared

\* A rebalance leaves every account on an eligible proxy, its pin if it has one, and their
\* loads differ by one at most, pins permitting.  No even placement needs fewer moves.
PlacedEvenly ==
    subject = "placement" =>
        EverybodyPlaced /\ EvenSplit /\ MinimalMovement

\* A run empties the groups that can no longer serve.
EvacuationEmpties == subject = "rotation" => Rotation!EvacuationEmpties

\* Runs do not keep correcting each other.
RunsSettle == subject = "rotation" => Rotation!Settling

\* Only waves lose usage rows, and only when rows are added meanwhile.
OnlyWavesLose == subject = "crawl" => Crawl!OnlyWavesLose

\* A day that is over is answered with all its rows, once each.
ClosedDaysAreExact == subject = "crawl" => Crawl!TypeOK /\ Crawl!ClosedDaysAreExact
=============================================================================
