-------------------------- MODULE WatchCoordinator --------------------------
(***************************************************************************)
(* The generation state machine of `jscout watch` (struct Coordinator in   *)
(* src/src/watch.rs): pure state, driven by the loop of module WatchLoop.  *)
(*                                                                         *)
(* A dirty signal opens (or joins) the desired generation.  A generation   *)
(* runs refresh -> embed -> enrich -> semantic-embed, each phase as one    *)
(* `active` Work; work of an older generation is superseded when it ends.  *)
(*                                                                         *)
(* Clocks are abstracted: `deadline_passed` says whether the one deadline  *)
(* the coordinator waits for (the retry delay if a retry is parked, the    *)
(* debounce period otherwise) has passed since it was last armed.          *)
(* Reasons, which only reach the log, are left out.                        *)
(***************************************************************************)
EXTENDS Naturals, FiniteSets

CONSTANTS
    Embed,               \* --embed: run the two embedding phases
    Enrich,              \* --enrich: run the checker phase
    Paths,               \* repository source paths
    Eligible,            \* the paths whose format has checker affinity
    MaxSourcePaths,      \* MAX_INCREMENTAL_SOURCE_PATHS
    MaxCheckerAttempts,  \* MAX_CHECKER_ATTEMPTS
    Snapshots,           \* code digests
    None                 \* Rust's Option::None

Phases == {"refresh", "embed", "enrich", "semantic"}
Scopes == {"incremental", "full"}

Work == [generation : Nat, phase : Phases, scope : Scopes,
         force : BOOLEAN, rebind : BOOLEAN]

Signal == [scope : Scopes, paths : SUBSET Paths, checkerPaths : SUBSET Paths,
           refresh : BOOLEAN, trigger : BOOLEAN, force : BOOLEAN]

ASSUME CoordinatorAssumption ==
    /\ Embed \in BOOLEAN
    /\ Enrich \in BOOLEAN
    /\ Eligible \subseteq Paths
    /\ MaxSourcePaths \in Nat
    /\ MaxCheckerAttempts \in Nat \ {0}
    /\ None \notin Work
    /\ None \notin Snapshots

(***************************************************************************)
(* The constructors of DirtySignal.                                        *)
(***************************************************************************)
Notice(scope, refresh, trigger, force) ==
    [scope |-> scope, paths |-> {}, checkerPaths |-> {},
     refresh |-> refresh, trigger |-> trigger, force |-> force]

FullSignal           == Notice("full", TRUE, TRUE, FALSE)
WatchErrorSignal     == Notice("full", TRUE, FALSE, FALSE)
DocumentationSignal  == Notice("incremental", TRUE, FALSE, FALSE)
RustMembershipSignal == Notice("incremental", FALSE, FALSE, FALSE)
InventorySignal      == Notice("incremental", TRUE, FALSE, FALSE)
CheckerInputSignal   == Notice("incremental", TRUE, TRUE, FALSE)
DriftFlushSignal     == Notice("incremental", TRUE, FALSE, TRUE)

ReconciliationSignal == Notice("incremental", TRUE, FALSE, FALSE)

SourceSignal(path) ==
    [scope |-> "incremental", paths |-> {path},
     checkerPaths |-> {path} \cap Eligible,
     refresh |-> path \in Eligible, trigger |-> path \in Eligible,
     force |-> FALSE]

(* DirtySignal::merge: one notification may name several paths. *)
MaxScope(a, b) == IF "full" \in {a, b} THEN "full" ELSE "incremental"

Merge(a, b) ==
    [scope        |-> MaxScope(a.scope, b.scope),
     paths        |-> a.paths \cup b.paths,
     checkerPaths |-> a.checkerPaths \cup b.checkerPaths,
     refresh      |-> a.refresh \/ b.refresh,
     trigger      |-> a.trigger \/ b.trigger,
     force        |-> a.force \/ b.force]

PathSignals ==
    {FullSignal, DocumentationSignal, RustMembershipSignal, InventorySignal,
     CheckerInputSignal} \cup {SourceSignal(p) : p \in Paths}

(* What EventClassifier::classify and a backend error can produce. *)
EventSignals ==
    {WatchErrorSignal} \cup {Merge(a, b) : a, b \in PathSignals}

-----------------------------------------------------------------------------
VARIABLES
    desired_generation, completed_generation,
    refresh_immediate, deadline_passed,
    active, ready, retry, retry_attempts,
    dirty_source_paths, refresh_scope,
    checker_dirty_source_paths, checker_refresh_required,
    partial_generation, checker_paused, checker_snapshot,
    force_full_enrichment

clockVars   == <<refresh_immediate, deadline_passed>>
workVars    == <<active, ready, retry, retry_attempts>>
scopeVars   == <<dirty_source_paths, refresh_scope>>
checkerVars == <<checker_dirty_source_paths, checker_refresh_required>>
parkVars    == <<checker_paused, checker_snapshot>>

coordinatorVars ==
    <<desired_generation, completed_generation, clockVars, workVars, scopeVars,
      checkerVars, partial_generation, parkVars, force_full_enrichment>>

CurrentOfAnyGeneration(w) == w # None
Current(w) == w # None /\ w.generation = desired_generation

NeedsEnrichment ==
    /\ Enrich
    /\ ~checker_paused
    /\ \/ checker_refresh_required
       \/ force_full_enrichment
       \/ checker_dirty_source_paths # {}

IsClean ==
    /\ desired_generation = completed_generation
    /\ active = None /\ ready = None /\ retry = None

IsSuperseded(w) == w.generation # desired_generation

(***************************************************************************)
(* Coordinator::new: the startup signal already marked, refresh immediate. *)
(***************************************************************************)
CoordinatorInit ==
    /\ desired_generation = 1
    /\ completed_generation = 0
    /\ refresh_immediate = TRUE
    /\ deadline_passed = FALSE
    /\ active = None /\ ready = None /\ retry = None
    /\ retry_attempts = [p \in Phases |-> 0]
    /\ dirty_source_paths = {}
    /\ refresh_scope = "full"
    /\ checker_dirty_source_paths = {}
    /\ checker_refresh_required = Enrich
    /\ partial_generation = FALSE
    /\ checker_paused = FALSE
    /\ checker_snapshot = None
    /\ force_full_enrichment = FALSE

(***************************************************************************)
(* mark_dirty.  A parked refresh retry of the desired generation has not   *)
(* consumed its scope, so a newer generation keeps it; any other successor *)
(* starts from an incremental scope.  Too many paths promote to full.      *)
(***************************************************************************)
NeverCarriesScope == FALSE
CarriesScope == Current(retry) /\ retry.phase = "refresh"

OpensGenerationWhenIdle == desired_generation = completed_generation

OpensGeneration ==
    \/ desired_generation = completed_generation
    \/ Current(active) \/ Current(ready) \/ Current(retry)

RestartsScope == OpensGeneration /\ ~CarriesScope

MarkDirty(signal, immediate) ==
    LET base  == IF RestartsScope THEN {} ELSE dirty_source_paths
        paths == base \cup signal.paths
        scope == MaxScope(IF RestartsScope THEN "incremental" ELSE refresh_scope,
                          signal.scope)
        fits  == Cardinality(paths) <= MaxSourcePaths
    IN
    /\ desired_generation' = desired_generation + (IF OpensGeneration THEN 1 ELSE 0)
    /\ partial_generation' = (partial_generation /\ ~OpensGeneration)
    /\ refresh_scope' = IF fits THEN scope ELSE "full"
    /\ \E kept \in SUBSET paths :
          /\ base \subseteq kept
          /\ IF fits THEN kept = paths ELSE Cardinality(kept) = MaxSourcePaths
          /\ dirty_source_paths' = kept
    /\ checker_paused' = (checker_paused /\ ~signal.trigger)
    /\ checker_dirty_source_paths' =
          checker_dirty_source_paths \cup (IF Enrich THEN signal.checkerPaths ELSE {})
    /\ checker_refresh_required' =
          (checker_refresh_required \/ (Enrich /\ signal.refresh))
    /\ force_full_enrichment' = (force_full_enrichment \/ signal.force)
    /\ refresh_immediate' = immediate
    /\ deadline_passed' = FALSE
    /\ ready' = None
    /\ retry' = None
    /\ retry_attempts' = [p \in Phases |-> 0]
    /\ UNCHANGED <<completed_generation, active, checker_snapshot>>

MarkReconciliation == IsClean /\ MarkDirty(ReconciliationSignal, TRUE)

MarkCheckerDriftFlush == IsClean /\ Enrich /\ MarkDirty(DriftFlushSignal, TRUE)

(* Time passes up to the pending deadline. *)
Elapse ==
    /\ ~deadline_passed
    /\ desired_generation > completed_generation
    /\ deadline_passed' = TRUE
    /\ UNCHANGED <<desired_generation, completed_generation, refresh_immediate,
                   workVars, scopeVars, checkerVars, partial_generation,
                   parkVars, force_full_enrichment>>

(***************************************************************************)
(* next_work: a ready phase, else a retry whose delay passed, else the     *)
(* refresh of the desired generation after the debounce.  Stale ready and  *)
(* retry entries are dropped first (they never occur: OneOutstanding).     *)
(***************************************************************************)
DueRetry   == Current(retry) /\ deadline_passed
DueRefresh ==
    /\ ~Current(retry)
    /\ desired_generation > completed_generation
    /\ refresh_immediate \/ deadline_passed

RefreshWorkWithoutForce ==
    [generation |-> desired_generation, phase |-> "refresh",
     scope |-> refresh_scope, force |-> FALSE,
     rebind |-> Enrich /\ ~checker_paused /\ ~NeedsEnrichment]

RefreshWork ==
    [generation |-> desired_generation, phase |-> "refresh",
     scope |-> refresh_scope, force |-> force_full_enrichment,
     rebind |-> Enrich /\ ~checker_paused /\ ~NeedsEnrichment]

HasWork == active = None /\ (Current(ready) \/ DueRetry \/ DueRefresh)

TakeReady ==
    /\ active = None
    /\ Current(ready)
    /\ active' = ready
    /\ ready' = None
    /\ retry' = IF Current(retry) THEN retry ELSE None
    /\ UNCHANGED <<desired_generation, completed_generation, clockVars,
                   retry_attempts, scopeVars, checkerVars, partial_generation,
                   parkVars, force_full_enrichment>>

TakeRetry ==
    /\ active = None
    /\ ~Current(ready)
    /\ DueRetry
    /\ active' = retry
    /\ ready' = None
    /\ retry' = None
    /\ UNCHANGED <<desired_generation, completed_generation, clockVars,
                   retry_attempts, scopeVars, checkerVars, partial_generation,
                   parkVars, force_full_enrichment>>

TakeRefresh ==
    /\ active = None
    /\ ~Current(ready)
    /\ DueRefresh
    /\ active' = RefreshWork
    /\ ready' = None
    /\ retry' = None
    /\ refresh_immediate' = FALSE
    /\ UNCHANGED <<desired_generation, completed_generation, deadline_passed,
                   retry_attempts, scopeVars, checkerVars, partial_generation,
                   parkVars, force_full_enrichment>>

NextWork == TakeReady \/ TakeRetry \/ TakeRefresh

(***************************************************************************)
(* observe_checker_snapshot: after a successful refresh, a changed code    *)
(* digest releases a parked checker.                                       *)
(***************************************************************************)
ObserveCheckerSnapshot(snapshot) ==
    LET released == checker_paused /\ checker_snapshot # None
                       /\ checker_snapshot # snapshot
    IN
    /\ checker_paused' = (checker_paused /\ ~released)
    /\ checker_refresh_required' = (checker_refresh_required \/ released)
    /\ checker_snapshot' = snapshot
    /\ UNCHANGED <<desired_generation, completed_generation, clockVars, workVars,
                   scopeVars, checker_dirty_source_paths, partial_generation,
                   force_full_enrichment>>

(***************************************************************************)
(* advance: the phase after w, or the end of the generation.  The caller   *)
(* gives the values `partial_generation` and `checker_paused` have now.    *)
(***************************************************************************)
PhaseAfter(phase, needed) ==
    CASE phase = "refresh" /\ Embed              -> "embed"
      [] phase = "refresh" /\ ~Embed /\ needed   -> "enrich"
      [] phase = "embed" /\ needed               -> "enrich"
      [] phase = "embed" /\ ~needed              -> "semantic"
      [] phase = "enrich" /\ Embed               -> "semantic"
      [] OTHER                                   -> "done"

Completes(w) == w.generation

(* The carry-free requirement survives a generation that ends partial. *)
ForceAfter(done, partial) == force_full_enrichment /\ (done => partial)

Advance(w, partialNow, pausedNow) ==
    LET next == PhaseAfter(w.phase, NeedsEnrichment)
        done == next = "done"
    IN
    /\ ready' = IF done THEN ready ELSE [w EXCEPT !.phase = next]
    /\ completed_generation' = IF done THEN Completes(w) ELSE completed_generation
    /\ dirty_source_paths' = IF done THEN {} ELSE dirty_source_paths
    /\ partial_generation' = (partialNow /\ ~done)
    /\ force_full_enrichment' = ForceAfter(done, partialNow \/ pausedNow)
    /\ UNCHANGED <<desired_generation, refresh_immediate, refresh_scope, retry>>

Forget(phase) == retry_attempts' = [retry_attempts EXCEPT ![phase] = 0]

(* Every finish_* call ends the active work; older work is only dropped. *)
SupersededDropsBacklog ==
    /\ active # None
    /\ IsSuperseded(active)
    /\ active' = None
    /\ checker_dirty_source_paths' = {}
    /\ checker_refresh_required' = FALSE
    /\ UNCHANGED <<desired_generation, completed_generation, clockVars, ready,
                   retry, retry_attempts, scopeVars,
                   partial_generation, parkVars, force_full_enrichment>>

Superseded ==
    /\ active # None
    /\ IsSuperseded(active)
    /\ active' = None
    /\ UNCHANGED <<desired_generation, completed_generation, clockVars, ready,
                   retry, retry_attempts, scopeVars, checkerVars,
                   partial_generation, parkVars, force_full_enrichment>>

FinishRefresh ==
    /\ Current(active)
    /\ active.phase = "refresh"
    /\ active' = None
    /\ Forget("refresh")
    /\ Advance(active, partial_generation, checker_paused)
    /\ UNCHANGED <<deadline_passed, checkerVars, parkVars>>

(* finish_optional, as the loop calls it: the two embedding phases. *)
FinishOptional ==
    /\ Current(active)
    /\ active.phase \in {"embed", "semantic"}
    /\ active' = None
    /\ Forget(active.phase)
    /\ Advance(active, partial_generation, checker_paused)
    /\ UNCHANGED <<deadline_passed, checkerVars, parkVars>>

FinishEnrichmentSuccess ==
    /\ Current(active)
    /\ active.phase = "enrich"
    /\ active' = None
    /\ Forget("enrich")
    /\ checker_dirty_source_paths' = {}
    /\ checker_refresh_required' = FALSE
    /\ Advance(active, partial_generation, checker_paused)
    /\ UNCHANGED <<deadline_passed, parkVars>>

(* A terminal checker failure, or the last attempt: the checker is parked. *)
ParkChecker ==
    /\ active' = None
    /\ Forget("enrich")
    /\ checker_paused' = TRUE
    /\ Advance(active, TRUE, TRUE)
    /\ UNCHANGED <<deadline_passed, checkerVars, checker_snapshot>>

FinishOptionalPartial ==
    /\ Current(active)
    /\ active.phase = "enrich"
    /\ ParkChecker

AttemptsExhaustedLate ==
    active.phase = "enrich" /\ retry_attempts["enrich"] >= MaxCheckerAttempts

AttemptsExhausted ==
    active.phase = "enrich" /\ retry_attempts["enrich"] + 1 >= MaxCheckerAttempts

ScheduleRetry ==
    /\ active' = None
    /\ retry' = active
    /\ retry_attempts' = [retry_attempts EXCEPT ![active.phase] = @ + 1]
    /\ deadline_passed' = FALSE
    /\ UNCHANGED <<desired_generation, completed_generation, refresh_immediate,
                   ready, scopeVars, checkerVars, partial_generation, parkVars,
                   force_full_enrichment>>

FinishError ==
    /\ Current(active)
    /\ IF AttemptsExhausted THEN ParkChecker ELSE ScheduleRetry

-----------------------------------------------------------------------------
(***************************************************************************)
(* Any caller that keeps the debug assertions: events at any time, timers  *)
(* when clean, one finish call per active work.                            *)
(***************************************************************************)
CoordinatorNext ==
    \/ \E signal \in EventSignals : MarkDirty(signal, FALSE)
    \/ MarkReconciliation
    \/ MarkCheckerDriftFlush
    \/ Elapse
    \/ NextWork
    \/ /\ active # None /\ active.phase = "refresh"
       /\ \E snapshot \in Snapshots : ObserveCheckerSnapshot(snapshot)
    \/ Superseded
    \/ FinishRefresh
    \/ FinishOptional
    \/ FinishEnrichmentSuccess
    \/ FinishOptionalPartial
    \/ FinishError

CoordinatorSpec == CoordinatorInit /\ [][CoordinatorNext]_coordinatorVars

-----------------------------------------------------------------------------
CoordinatorTypeOK ==
    /\ desired_generation \in Nat \ {0}
    /\ completed_generation \in 0 .. desired_generation
    /\ refresh_immediate \in BOOLEAN
    /\ deadline_passed \in BOOLEAN
    /\ active \in Work \cup {None}
    /\ ready \in Work \cup {None}
    /\ retry \in Work \cup {None}
    /\ retry_attempts \in [Phases -> Nat]
    /\ dirty_source_paths \subseteq Paths
    /\ refresh_scope \in Scopes
    /\ checker_dirty_source_paths \subseteq Paths
    /\ checker_refresh_required \in BOOLEAN
    /\ partial_generation \in BOOLEAN
    /\ checker_paused \in BOOLEAN
    /\ checker_snapshot \in Snapshots \cup {None}
    /\ force_full_enrichment \in BOOLEAN

(***************************************************************************)
(* Only one of the three slots holds work; a ready phase or a parked retry *)
(* belongs to the desired generation, which is not completed; so the two   *)
(* staleness checks at the head of next_work never drop anything, and no   *)
(* wake-up deadline is lost with a slot another one overwrote.             *)
(***************************************************************************)
OneOutstanding ==
    /\ active # None => /\ ready = None /\ retry = None
                        /\ active.generation > completed_generation
                        /\ active.generation <= desired_generation
    /\ ready # None => /\ retry = None
                       /\ ready.generation = desired_generation
                       /\ desired_generation > completed_generation
    /\ retry # None => /\ retry.generation = desired_generation
                       /\ desired_generation > completed_generation

Outstanding ==
    /\ CoordinatorTypeOK
    /\ OneOutstanding

Owed ==
    \/ checker_refresh_required
    \/ force_full_enrichment
    \/ checker_dirty_source_paths # {}

(***************************************************************************)
(* A settled coordinator whose checker is not parked owes the checker      *)
(* nothing: neither the backlog of dirty paths nor the carry-free          *)
(* requirement of a drift flush can survive into a clean state, whatever   *)
(* supersessions, retries and parked checkers led there.                   *)
(***************************************************************************)
SettledOwesNothing == IsClean /\ ~checker_paused => ~Owed

(***************************************************************************)
(* Work of the desired generation runs with the carry-free requirement the *)
(* coordinator holds now, so a drift flush is never completed by an        *)
(* enrichment that was allowed to carry old facts.                         *)
(***************************************************************************)
ForceFollowsWork ==
    \A w \in {active, ready, retry} :
        Current(w) => w.force = force_full_enrichment

(***************************************************************************)
(* A refresh may rebind the checker publication without a checker run only *)
(* while no checker work is owed: rebinding under a backlog would publish  *)
(* stale facts as current.                                                 *)
(***************************************************************************)
RebindOwesNothing ==
    /\ Current(active) /\ active.phase = "refresh" /\ active.rebind
        => ~Owed /\ ~checker_paused
    /\ Current(retry) /\ retry.phase = "refresh" /\ retry.rebind
        => ~Owed /\ ~checker_paused

(* Nothing owed to the checker survives into a settled state, and no refresh *)
(* pretends to have paid it.                                                 *)
CheckerPaid ==
    /\ SettledOwesNothing
    /\ RebindOwesNothing

(***************************************************************************)
(* A parked checker is never started again by its own generation: no       *)
(* enrichment of the desired generation is pending while it is parked.     *)
(***************************************************************************)
ParkedNeverChecks ==
    checker_paused =>
        \A w \in {active, ready, retry} : Current(w) => w.phase # "enrich"

(***************************************************************************)
(* Checker errors get at most MaxCheckerAttempts attempts per generation:  *)
(* the attempts already failed leave room for the one that is pending.     *)
(***************************************************************************)
BoundedCheckerAttempts == retry_attempts["enrich"] < MaxCheckerAttempts

(* A failing checker is tried a bounded number of times and then left alone. *)
CheckerBounded ==
    /\ ParkedNeverChecks
    /\ BoundedCheckerAttempts

(***************************************************************************)
(* Only the newest generation is ever completed, and only by its last      *)
(* phase: a step that completes one settles the coordinator.               *)
(***************************************************************************)
CompletionSettles ==
    [][completed_generation' # completed_generation
         => /\ completed_generation' = desired_generation
            /\ IsClean']_coordinatorVars

=============================================================================
