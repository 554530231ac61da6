-------------------------------- MODULE WatchProofs -------------------------
(***************************************************************************)
(* Proofs about the watcher, for every value of its constants: every       *)
(* number of edits, generations, retries, paths and attempts.              *)
(*                                                                         *)
(* First the coordinator alone: what holds for any caller.  Then the loop, *)
(* which is a legal caller of it, and the schedule of its timers.  Last,   *)
(* that a quiet watcher has caught up with the working tree.               *)
(***************************************************************************)
EXTENDS WatchLoop, SequenceTheorems, TLAPS

-----------------------------------------------------------------------------
(***************************************************************************)
(* The coordinator.                                                        *)
(*                                                                         *)
(* OneOutstanding is inductive next to the type invariant.  On top of it   *)
(* CoordinatorInv adds why a settled coordinator owes nothing: the last    *)
(* phase of a generation starts only when nothing is owed (or the checker  *)
(* is parked), and every signal that owes something opens a generation, so *)
(* that phase is not current any more.                                     *)
(***************************************************************************)

Slots == {active, ready, retry}

(* After its enrichment a generation owes nothing but the force flag. *)
SemanticOwesNothing ==
    \A w \in Slots : Current(w) /\ w.phase = "semantic" /\ ~checker_paused
        => ~checker_refresh_required /\ checker_dirty_source_paths = {}

(* A partial generation has parked its checker and has only one phase left. *)
PartialIsParked ==
    partial_generation =>
        /\ checker_paused
        /\ \E w \in Slots : Current(w) /\ w.phase = "semantic"

(* Without --enrich there is no checker to owe anything to, or to park. *)
DisabledOwesNothing == ~Enrich =>
    /\ ~Owed
    /\ ~checker_paused
    /\ \A w \in Slots : Current(w) => w.phase # "enrich"

CoordinatorInv ==
    /\ SemanticOwesNothing
    /\ PartialIsParked
    /\ DisabledOwesNothing
    /\ SettledOwesNothing

-----------------------------------------------------------------------------
(* Signals.                                                                *)

(* Merging signals keeps their type and adds no carry-free requirement.    *)
LEMMA MergeType ==
    ASSUME NEW a \in Signal, NEW b \in Signal
    PROVE  /\ Merge(a, b) \in Signal
           /\ ~a.force /\ ~b.force => ~Merge(a, b).force
  BY DEF Merge, MaxScope, Signal, Scopes

(* No notification carries the carry-free requirement of a drift flush. *)
LEMMA EventSignalType ==
    ASSUME NEW signal \in EventSignals
    PROVE  signal \in Signal /\ ~signal.force
  <1>1. ASSUME NEW a \in PathSignals PROVE a \in Signal /\ ~a.force
    <2>1. \A t, c \in BOOLEAN, scope \in Scopes :
             Notice(scope, t, c, FALSE) \in Signal /\ ~Notice(scope, t, c, FALSE).force
      BY DEF Notice, Signal
    <2>2. CASE a \in {FullSignal, DocumentationSignal, RustMembershipSignal,
                      InventorySignal, CheckerInputSignal}
      BY <2>1, <2>2
         DEF FullSignal, DocumentationSignal, RustMembershipSignal,
             InventorySignal, CheckerInputSignal, Scopes
    <2>3. ASSUME NEW p \in Paths, a = SourceSignal(p)
          PROVE  a \in Signal /\ ~a.force
      BY <2>3, CoordinatorAssumption DEF SourceSignal, Signal, Scopes
    <2> QED
      BY <2>2, <2>3 DEF PathSignals
  <1>2. WatchErrorSignal \in Signal /\ ~WatchErrorSignal.force
    BY DEF WatchErrorSignal, Notice, Signal, Scopes
  <1>3. CASE signal = WatchErrorSignal
    BY <1>2, <1>3
  <1>4. CASE signal \in {Merge(a, b) : a, b \in PathSignals}
    <2>1. PICK a \in PathSignals, b \in PathSignals : signal = Merge(a, b)
      BY <1>4
    <2> QED
      BY <1>1, <2>1, MergeType
  <1> QED
    BY <1>3, <1>4 DEF EventSignals

(* The signals of the two timers.                                          *)
LEMMA TimerSignalType ==
    ReconciliationSignal \in Signal /\ DriftFlushSignal \in Signal
  BY DEF ReconciliationSignal, DriftFlushSignal, Notice, Signal, Scopes

-----------------------------------------------------------------------------
(* Work.                                                                   *)

(* An empty slot is distinguishable from work.                             *)
LEMMA NoneIsNoWork == None \notin Work
  BY CoordinatorAssumption

(* The refresh that next_work creates is current and carries the force flag.*)
LEMMA RefreshWorkType ==
    ASSUME CoordinatorTypeOK
    PROVE  /\ RefreshWork \in Work
           /\ RefreshWork.generation = desired_generation
           /\ RefreshWork.phase = "refresh"
           /\ RefreshWork.force = force_full_enrichment
           /\ RefreshWork.rebind = (Enrich /\ ~checker_paused /\ ~NeedsEnrichment)
  BY CoordinatorAssumption
     DEF CoordinatorTypeOK, RefreshWork, Work, Phases, NeedsEnrichment

(* No phase is followed by a refresh, and `semantic` is the last one.      *)
LEMMA PhaseAfterType ==
    ASSUME NEW phase \in Phases, NEW needed \in BOOLEAN
    PROVE  /\ PhaseAfter(phase, needed) \in Phases \cup {"done"}
           /\ PhaseAfter(phase, needed) # "refresh"
           /\ PhaseAfter(phase, needed) = "enrich" => needed
           /\ phase = "semantic" => PhaseAfter(phase, needed) = "done"
  BY CoordinatorAssumption DEF PhaseAfter, Phases

(* Moving work to another phase changes nothing else about it.             *)
LEMMA NextPhaseType ==
    ASSUME NEW w \in Work, NEW next \in Phases
    PROVE  /\ [w EXCEPT !.phase = next] \in Work
           /\ [w EXCEPT !.phase = next].phase = next
           /\ [w EXCEPT !.phase = next].generation = w.generation
           /\ [w EXCEPT !.phase = next].force = w.force
  BY DEF Work

(***************************************************************************)
(* How a phase ends: the next phase is ready, or the generation is done.   *)
(***************************************************************************)
Continues(partialNow) ==
    /\ ready' \in Work
    /\ ready'.generation = desired_generation
    /\ ready'.phase = PhaseAfter(active.phase, NeedsEnrichment)
    /\ ready'.force = active.force
    /\ completed_generation' = completed_generation
    /\ dirty_source_paths' = dirty_source_paths
    /\ partial_generation' = partialNow
    /\ force_full_enrichment' = force_full_enrichment

Ends(keeps) ==
    /\ PhaseAfter(active.phase, NeedsEnrichment) = "done"
    /\ ready' = None
    /\ completed_generation' = desired_generation
    /\ dirty_source_paths' = {}
    /\ partial_generation' = FALSE
    /\ force_full_enrichment' = (force_full_enrichment /\ keeps)

(* advance does one or the other.                                          *)
LEMMA AdvanceOutcome ==
    ASSUME CoordinatorTypeOK, Current(active), ready = None,
           NEW partialNow \in BOOLEAN, NEW pausedNow \in BOOLEAN,
           Advance(active, partialNow, pausedNow)
    PROVE  Continues(partialNow) \/ Ends(partialNow \/ pausedNow)
  <1> DEFINE next == PhaseAfter(active.phase, NeedsEnrichment)
  <1>1. active \in Work /\ active.phase \in Phases
    BY DEF CoordinatorTypeOK, Current, Work
  <1>2. NeedsEnrichment \in BOOLEAN
    BY DEF NeedsEnrichment
  <1>3. next \in Phases \cup {"done"}
    BY <1>1, <1>2, PhaseAfterType
  <1>4. CASE next = "done"
    BY <1>4 DEF Ends, Advance, ForceAfter, Completes, Current, CoordinatorTypeOK
  <1>5. CASE next # "done"
    <2>1. ready' = [active EXCEPT !.phase = next]
      BY <1>5 DEF Advance
    <2>2. /\ ready' \in Work
          /\ ready'.generation = active.generation
          /\ ready'.phase = next
          /\ ready'.force = active.force
      BY <1>1, <1>3, <1>5, <2>1, NextPhaseType
    <2> QED
      BY <1>5, <2>2 DEF Continues, Advance, ForceAfter, Current, CoordinatorTypeOK
  <1> QED
    BY <1>4, <1>5

(***************************************************************************)
(* The steps of the coordinator, with the two outcomes of finish_error     *)
(* separated and the three sources of signals together.                    *)
(***************************************************************************)
Signals ==
    \E signal \in Signal, immediate \in BOOLEAN :
        /\ signal.force => Enrich
        /\ MarkDirty(signal, immediate)

Observes ==
    /\ active # None /\ active.phase = "refresh"
    /\ \E snapshot \in Snapshots : ObserveCheckerSnapshot(snapshot)

Parks == Current(active) /\ active.phase = "enrich" /\ ParkChecker

Retries == Current(active) /\ ~AttemptsExhausted /\ ScheduleRetry

(* Every step is one of these.                                             *)
LEMMA StepCases ==
    ASSUME CoordinatorNext
    PROVE  \/ Signals \/ Elapse \/ TakeReady \/ TakeRetry \/ TakeRefresh
           \/ Observes \/ Superseded \/ FinishRefresh \/ FinishOptional
           \/ FinishEnrichmentSuccess \/ Parks \/ Retries
  <1>1. (\E signal \in EventSignals : MarkDirty(signal, FALSE)) => Signals
    BY EventSignalType DEF Signals
  <1>2. MarkReconciliation => Signals
    BY TimerSignalType DEF MarkReconciliation, Signals, ReconciliationSignal, Notice
  <1>3. MarkCheckerDriftFlush => Signals
    BY TimerSignalType DEF MarkCheckerDriftFlush, Signals
  <1>4. FinishOptionalPartial => Parks
    BY DEF FinishOptionalPartial, Parks
  <1>5. FinishError => Parks \/ Retries
    BY DEF FinishError, Parks, Retries, AttemptsExhausted
  <1> QED
    BY <1>1, <1>2, <1>3, <1>4, <1>5 DEF CoordinatorNext, NextWork, Observes

(* The steps that end a phase of the desired generation without an error. *)
FinishesPhase == FinishRefresh \/ FinishOptional \/ FinishEnrichmentSuccess

(* They all advance, and forget the retries of their phase.                *)
LEMMA FinishOutcome ==
    ASSUME CoordinatorTypeOK, OneOutstanding, FinishesPhase
    PROVE  /\ Current(active) /\ active' = None
           /\ ready = None /\ retry = None /\ retry' = None
           /\ retry_attempts' \in [Phases -> Nat]
           /\ retry_attempts'["enrich"] \in {0, retry_attempts["enrich"]}
           /\ \/ Continues(partial_generation)
              \/ Ends(partial_generation \/ checker_paused)
           /\ UNCHANGED <<desired_generation, clockVars, refresh_scope, parkVars>>
           /\ IF active.phase = "enrich"
              THEN checker_dirty_source_paths' = {} /\ checker_refresh_required' = FALSE
              ELSE UNCHANGED checkerVars
  <1>1. /\ Current(active)
        /\ active' = None
        /\ Advance(active, partial_generation, checker_paused)
        /\ \E phase \in Phases : Forget(phase)
        /\ UNCHANGED <<deadline_passed, parkVars>>
    BY DEF FinishesPhase, FinishRefresh, FinishOptional, FinishEnrichmentSuccess, Phases
  <1>2. ready = None /\ retry = None
    BY <1>1 DEF OneOutstanding, Current
  <1>3. partial_generation \in BOOLEAN /\ checker_paused \in BOOLEAN
    BY DEF CoordinatorTypeOK
  <1>4. Continues(partial_generation) \/ Ends(partial_generation \/ checker_paused)
    BY <1>1, <1>2, <1>3, AdvanceOutcome
  <1>5. /\ retry_attempts' \in [Phases -> Nat]
        /\ retry_attempts'["enrich"] \in {0, retry_attempts["enrich"]}
    BY <1>1 DEF Forget, CoordinatorTypeOK, Phases
  <1>6. /\ retry' = retry
        /\ UNCHANGED <<desired_generation, refresh_immediate, refresh_scope>>
    BY <1>1 DEF Advance
  <1>7. IF active.phase = "enrich"
        THEN checker_dirty_source_paths' = {} /\ checker_refresh_required' = FALSE
        ELSE UNCHANGED checkerVars
    BY DEF FinishesPhase, FinishRefresh, FinishOptional, FinishEnrichmentSuccess
  <1> QED
    BY <1>1, <1>2, <1>4, <1>5, <1>6, <1>7 DEF clockVars

(* Parking the checker ends its phase, and maybe the generation.           *)
LEMMA ParksOutcome ==
    ASSUME CoordinatorTypeOK, OneOutstanding, Parks
    PROVE  /\ Current(active) /\ active' = None
           /\ ready = None /\ retry = None /\ retry' = None
           /\ retry_attempts' \in [Phases -> Nat]
           /\ retry_attempts'["enrich"] = 0
           /\ Continues(TRUE) \/ Ends(TRUE)
           /\ checker_paused' = TRUE
           /\ UNCHANGED <<desired_generation, clockVars, refresh_scope,
                          checkerVars, checker_snapshot>>
  <1>1. /\ Current(active)
        /\ active' = None
        /\ Advance(active, TRUE, TRUE)
        /\ Forget("enrich")
        /\ checker_paused' = TRUE
        /\ UNCHANGED <<deadline_passed, checkerVars, checker_snapshot>>
    BY DEF Parks, ParkChecker
  <1>2. ready = None /\ retry = None
    BY <1>1 DEF OneOutstanding, Current
  <1>3. Continues(TRUE) \/ Ends(TRUE)
    BY <1>1, <1>2, AdvanceOutcome
  <1>4. retry_attempts' \in [Phases -> Nat] /\ retry_attempts'["enrich"] = 0
    BY <1>1 DEF Forget, CoordinatorTypeOK, Phases
  <1>5. /\ retry' = retry
        /\ UNCHANGED <<desired_generation, refresh_immediate, refresh_scope>>
    BY <1>1 DEF Advance
  <1> QED
    BY <1>1, <1>2, <1>3, <1>4, <1>5 DEF clockVars

-----------------------------------------------------------------------------
(* After mark_dirty the desired generation is not completed, and only      *)
(* active work, possibly superseded, is left.                              *)
LEMMA MarkDirtyOutcome ==
    ASSUME CoordinatorTypeOK, Signals
    PROVE  /\ desired_generation' \in Nat
           /\ completed_generation' = completed_generation
           /\ completed_generation < desired_generation'
           /\ IF OpensGeneration
              THEN desired_generation' = desired_generation + 1
              ELSE desired_generation' = desired_generation
           /\ active' = active /\ ready' = None /\ retry' = None
           /\ retry_attempts' = [p \in Phases |-> 0]
           /\ checker_snapshot' = checker_snapshot
           /\ Enrich \/ (/\ UNCHANGED checkerVars
                         /\ force_full_enrichment' = force_full_enrichment)
  <1>1. PICK signal \in Signal, immediate \in BOOLEAN :
           (signal.force => Enrich) /\ MarkDirty(signal, immediate)
    BY DEF Signals
  <1>2. IF OpensGeneration
        THEN desired_generation' = desired_generation + 1
        ELSE desired_generation' = desired_generation
    BY <1>1 DEF MarkDirty, CoordinatorTypeOK
  <1>3. ~OpensGeneration => desired_generation # completed_generation
    BY DEF OpensGeneration
  <1>4. /\ completed_generation' = completed_generation
        /\ active' = active /\ ready' = None /\ retry' = None
        /\ retry_attempts' = [p \in Phases |-> 0]
        /\ checker_snapshot' = checker_snapshot
    BY <1>1 DEF MarkDirty
  <1>5. ~Enrich => /\ UNCHANGED checkerVars
                   /\ force_full_enrichment' = force_full_enrichment
    BY <1>1 DEF MarkDirty, checkerVars, CoordinatorTypeOK
  <1> QED
    BY <1>2, <1>3, <1>4, <1>5 DEF CoordinatorTypeOK

(* mark_dirty keeps the scope and the checker backlog within the paths. *)
LEMMA MarkDirtyType ==
    ASSUME CoordinatorTypeOK, Signals
    PROVE  /\ dirty_source_paths' \subseteq Paths
           /\ refresh_scope' \in Scopes
           /\ checker_dirty_source_paths' \subseteq Paths
           /\ refresh_immediate' \in BOOLEAN
           /\ deadline_passed' \in BOOLEAN
           /\ checker_refresh_required' \in BOOLEAN
           /\ partial_generation' \in BOOLEAN
           /\ checker_paused' \in BOOLEAN
           /\ force_full_enrichment' \in BOOLEAN
  <1>1. PICK signal \in Signal, immediate \in BOOLEAN : MarkDirty(signal, immediate)
    BY DEF Signals
  <1> DEFINE base == IF RestartsScope THEN {} ELSE dirty_source_paths
  <1> DEFINE paths == base \cup signal.paths
  <1>2. /\ signal.paths \subseteq Paths
        /\ signal.checkerPaths \subseteq Paths
        /\ signal.scope \in Scopes
    BY DEF Signal
  <1>3. paths \subseteq Paths
    BY <1>2 DEF CoordinatorTypeOK
  <1>4. \E kept \in SUBSET paths : dirty_source_paths' = kept
    BY <1>1 DEF MarkDirty
  <1>5. refresh_scope' \in Scopes
    BY <1>1, <1>2 DEF MarkDirty, MaxScope, Scopes, CoordinatorTypeOK
  <1>6. checker_dirty_source_paths' \subseteq Paths
    BY <1>1, <1>2 DEF MarkDirty, CoordinatorTypeOK
  <1>7. /\ refresh_immediate' \in BOOLEAN
        /\ deadline_passed' \in BOOLEAN
        /\ checker_refresh_required' \in BOOLEAN
        /\ partial_generation' \in BOOLEAN
        /\ checker_paused' \in BOOLEAN
        /\ force_full_enrichment' \in BOOLEAN
    BY <1>1 DEF MarkDirty
  <1> QED
    BY <1>3, <1>4, <1>5, <1>6, <1>7

(* Every step keeps the type invariant, given that the slots never collide. *)
LEMMA TypeStep ==
    ASSUME CoordinatorTypeOK, OneOutstanding, CoordinatorNext
    PROVE  CoordinatorTypeOK'
  <1>1. CASE Signals
    BY <1>1, MarkDirtyType, MarkDirtyOutcome DEF CoordinatorTypeOK
  <1>2. CASE Elapse
    BY <1>2 DEF Elapse, CoordinatorTypeOK, workVars, scopeVars, checkerVars, parkVars
  <1>3. CASE TakeReady
    BY <1>3 DEF TakeReady, CoordinatorTypeOK, clockVars, scopeVars, checkerVars, parkVars
  <1>4. CASE TakeRetry
    BY <1>4 DEF TakeRetry, CoordinatorTypeOK, clockVars, scopeVars, checkerVars, parkVars
  <1>5. CASE TakeRefresh
    BY <1>5, RefreshWorkType
       DEF TakeRefresh, CoordinatorTypeOK, scopeVars, checkerVars, parkVars
  <1>6. CASE Observes
    BY <1>6 DEF Observes, ObserveCheckerSnapshot, CoordinatorTypeOK, clockVars,
                workVars, scopeVars
  <1>7. CASE Superseded
    BY <1>7 DEF Superseded, CoordinatorTypeOK, clockVars, scopeVars, checkerVars, parkVars
  <1>8. CASE FinishesPhase
    <2>1. /\ ready' \in Work \cup {None}
          /\ completed_generation' \in 0 .. desired_generation
          /\ dirty_source_paths' \subseteq Paths
          /\ partial_generation' \in BOOLEAN
          /\ force_full_enrichment' \in BOOLEAN
      <3>1. CASE Continues(partial_generation)
        BY <3>1 DEF Continues, CoordinatorTypeOK
      <3>2. CASE Ends(partial_generation \/ checker_paused)
        <4>1. /\ ready' = None
              /\ completed_generation' = desired_generation
              /\ dirty_source_paths' = {}
              /\ partial_generation' = FALSE
              /\ force_full_enrichment' \in BOOLEAN
          BY <3>2 DEF Ends
        <4>2. desired_generation \in 0 .. desired_generation
          BY DEF CoordinatorTypeOK
        <4> QED
          BY <4>1, <4>2
      <3> QED
        BY <1>8, <3>1, <3>2, FinishOutcome
    <2>2. checker_dirty_source_paths' \subseteq Paths /\ checker_refresh_required' \in BOOLEAN
      BY <1>8, FinishOutcome DEF checkerVars, CoordinatorTypeOK
    <2> QED
      BY <1>8, <2>1, <2>2, FinishOutcome DEF CoordinatorTypeOK, clockVars, parkVars
  <1>9. CASE Parks
    <2>1. /\ ready' \in Work \cup {None}
          /\ completed_generation' \in 0 .. desired_generation
          /\ dirty_source_paths' \subseteq Paths
          /\ partial_generation' \in BOOLEAN
          /\ force_full_enrichment' \in BOOLEAN
      <3>1. CASE Continues(TRUE)
        BY <3>1 DEF Continues, CoordinatorTypeOK
      <3>2. CASE Ends(TRUE)
        <4>1. /\ ready' = None
              /\ completed_generation' = desired_generation
              /\ dirty_source_paths' = {}
              /\ partial_generation' = FALSE
              /\ force_full_enrichment' \in BOOLEAN
          BY <3>2 DEF Ends
        <4>2. desired_generation \in 0 .. desired_generation
          BY DEF CoordinatorTypeOK
        <4> QED
          BY <4>1, <4>2
      <3> QED
        BY <1>9, <3>1, <3>2, ParksOutcome
    <2> QED
      BY <1>9, <2>1, ParksOutcome DEF CoordinatorTypeOK, clockVars, checkerVars
  <1>10. CASE Retries
    <2>1. active \in Work /\ active.phase \in Phases
      BY <1>10 DEF Retries, Current, CoordinatorTypeOK, Work
    <2>2. retry_attempts' \in [Phases -> Nat]
      BY <1>10, <2>1 DEF Retries, ScheduleRetry, CoordinatorTypeOK
    <2> QED
      BY <1>10, <2>1, <2>2 DEF Retries, ScheduleRetry, CoordinatorTypeOK, scopeVars,
                               checkerVars, parkVars
  <1> QED
    BY <1>1, <1>2, <1>3, <1>4, <1>5, <1>6, <1>7, <1>8, <1>9, <1>10, StepCases
       DEF FinishesPhase

(* The three slots never collide. *)
LEMMA OneOutstandingStep ==
    ASSUME CoordinatorTypeOK, OneOutstanding, CoordinatorNext
    PROVE  OneOutstanding'
  <1>1. CASE Signals
    BY <1>1, MarkDirtyOutcome DEF OneOutstanding, CoordinatorTypeOK, Work
  <1>2. CASE Elapse
    BY <1>2 DEF Elapse, OneOutstanding, workVars
  <1>3. CASE TakeReady
    BY <1>3 DEF TakeReady, OneOutstanding, Current, CoordinatorTypeOK
  <1>4. CASE TakeRetry
    BY <1>4 DEF TakeRetry, DueRetry, OneOutstanding, Current, CoordinatorTypeOK
  <1>5. CASE TakeRefresh
    BY <1>5, RefreshWorkType
       DEF TakeRefresh, DueRefresh, OneOutstanding, CoordinatorTypeOK
  <1>6. CASE Observes
    BY <1>6 DEF Observes, ObserveCheckerSnapshot, OneOutstanding, workVars
  <1>7. CASE Superseded
    BY <1>7 DEF Superseded, OneOutstanding
  <1>8. CASE FinishesPhase
    <2>1. completed_generation < desired_generation
      BY <1>8, FinishOutcome DEF OneOutstanding, Current
    <2> QED
      BY <1>8, <2>1, FinishOutcome, NoneIsNoWork DEF Continues, Ends, OneOutstanding
  <1>9. CASE Parks
    <2>1. completed_generation < desired_generation
      BY <1>9, ParksOutcome DEF OneOutstanding, Current
    <2> QED
      BY <1>9, <2>1, ParksOutcome, NoneIsNoWork DEF Continues, Ends, OneOutstanding
  <1>10. CASE Retries
    BY <1>10 DEF Retries, ScheduleRetry, Current, OneOutstanding
  <1> QED
    BY <1>1, <1>2, <1>3, <1>4, <1>5, <1>6, <1>7, <1>8, <1>9, <1>10, StepCases
       DEF FinishesPhase

(* Coordinator::new.                                                       *)
LEMMA OutstandingInit == CoordinatorInit => Outstanding
  <1> SUFFICES ASSUME CoordinatorInit PROVE Outstanding
    OBVIOUS
  <1>1. Enrich \in BOOLEAN
    BY CoordinatorAssumption
  <1>2. desired_generation \in Nat \ {0} /\ completed_generation \in 0 .. desired_generation
    BY DEF CoordinatorInit
  <1>3. retry_attempts \in [Phases -> Nat]
    BY DEF CoordinatorInit
  <1>4. CoordinatorTypeOK
    BY <1>1, <1>2, <1>3 DEF CoordinatorInit, CoordinatorTypeOK, Scopes
  <1>5. OneOutstanding
    BY DEF CoordinatorInit, OneOutstanding
  <1> QED
    BY <1>4, <1>5 DEF Outstanding

(* A stuttering step changes neither.                                      *)
LEMMA OutstandingStutters ==
    Outstanding /\ UNCHANGED coordinatorVars => Outstanding'
  BY DEF Outstanding, CoordinatorTypeOK, OneOutstanding, coordinatorVars, clockVars,
         workVars, scopeVars, checkerVars, parkVars

(***************************************************************************)
(* The coordinator's variables keep their types, and at most one of the    *)
(* active work, the ready phase and the parked retry exists at any time.   *)
(***************************************************************************)
THEOREM CoordinatorOutstanding == CoordinatorSpec => []Outstanding
  <1>1. Outstanding /\ [CoordinatorNext]_coordinatorVars => Outstanding'
    BY TypeStep, OneOutstandingStep, OutstandingStutters DEF Outstanding
  <1> QED
    BY OutstandingInit, <1>1, PTL DEF CoordinatorSpec

(* The type invariant, alone.                                              *)
THEOREM CoordinatorType == CoordinatorSpec => []CoordinatorTypeOK
  <1>1. Outstanding => CoordinatorTypeOK
    BY DEF Outstanding
  <1> QED
    BY <1>1, CoordinatorOutstanding, PTL

(* next_work never finds a stale ready phase or retry to drop.             *)
THEOREM CoordinatorOneOutstanding == CoordinatorSpec => []OneOutstanding
  <1>1. Outstanding => OneOutstanding
    BY DEF Outstanding
  <1> QED
    BY <1>1, CoordinatorOutstanding, PTL

-----------------------------------------------------------------------------
(* The flags that pending work carries agree with the coordinator's.       *)

(* A signal leaves no current work: it opens a generation if there is any. *)
LEMMA SignalSupersedes ==
    ASSUME Outstanding, Signals
    PROVE  ~Current(active)' /\ ~Current(ready)' /\ ~Current(retry)'
  <1>1. Current(active)' => Current(active) /\ ~OpensGeneration
    BY MarkDirtyOutcome
       DEF Outstanding, Current, OneOutstanding, CoordinatorTypeOK, Work
  <1>2. ~Current(active)'
    BY <1>1 DEF OpensGeneration
  <1> QED
    BY <1>2, MarkDirtyOutcome DEF Outstanding, Current

(* New work takes the force flag, and only a signal or an end changes it.  *)
LEMMA ForceFollowsWorkStep ==
    ASSUME Outstanding, ForceFollowsWork, CoordinatorNext
    PROVE  ForceFollowsWork'
  <1> USE DEF Outstanding
  <1>1. CASE Signals
    BY <1>1, SignalSupersedes DEF ForceFollowsWork, Current
  <1>2. CASE Elapse
    BY <1>2 DEF Elapse, ForceFollowsWork, Current, workVars
  <1>3. CASE TakeReady
    BY <1>3 DEF TakeReady, ForceFollowsWork, Current
  <1>4. CASE TakeRetry
    BY <1>4 DEF TakeRetry, ForceFollowsWork, Current
  <1>5. CASE TakeRefresh
    BY <1>5, RefreshWorkType DEF TakeRefresh, ForceFollowsWork, Current
  <1>6. CASE Observes
    BY <1>6 DEF Observes, ObserveCheckerSnapshot, ForceFollowsWork, Current, workVars
  <1>7. CASE Superseded
    BY <1>7 DEF Superseded, ForceFollowsWork, Current
  <1>8. CASE FinishesPhase
    BY <1>8, FinishOutcome DEF Continues, Ends, ForceFollowsWork, Current
  <1>9. CASE Parks
    BY <1>9, ParksOutcome DEF Continues, Ends, ForceFollowsWork, Current
  <1>10. CASE Retries
    BY <1>10 DEF Retries, ScheduleRetry, ForceFollowsWork, Current
  <1> QED
    BY <1>1, <1>2, <1>3, <1>4, <1>5, <1>6, <1>7, <1>8, <1>9, <1>10, StepCases
       DEF FinishesPhase

(* Only next_work makes refresh work; a ready phase always follows one. *)
ReadyFollowsRefresh == ready # None => ready.phase # "refresh"

RebindInv == RebindOwesNothing /\ ReadyFollowsRefresh

(* While a refresh may rebind, no step but a signal makes anything owed.    *)
LEMMA RebindStep ==
    ASSUME Outstanding, RebindInv, CoordinatorNext
    PROVE  RebindInv'
  <1> USE DEF Outstanding, RebindInv, RebindOwesNothing, ReadyFollowsRefresh
  <1>1. CASE Signals
    BY <1>1, SignalSupersedes, MarkDirtyOutcome DEF Current
  <1>2. CASE Elapse
    BY <1>2 DEF Elapse, Owed, Current, workVars, checkerVars, parkVars
  <1>3. CASE TakeReady
    BY <1>3 DEF TakeReady, Owed, Current, checkerVars, parkVars
  <1>4. CASE TakeRetry
    BY <1>4 DEF TakeRetry, Owed, Current, checkerVars, parkVars
  <1>5. CASE TakeRefresh
    BY <1>5, RefreshWorkType
       DEF TakeRefresh, Owed, NeedsEnrichment, Current, checkerVars,
           parkVars
  <1>6. CASE Observes
    <2>1. retry' = None /\ ready' = None /\ active' = active
      BY <1>6 DEF Observes, ObserveCheckerSnapshot, OneOutstanding, workVars
    <2>2. ~checker_paused /\ ~Owed => ~checker_paused' /\ ~Owed'
      BY <1>6 DEF Observes, ObserveCheckerSnapshot, Owed, CoordinatorTypeOK
    <2> QED
      BY <1>6, <2>1, <2>2 DEF Observes, ObserveCheckerSnapshot, Current
  <1>7. CASE Superseded
    BY <1>7 DEF Superseded, Owed, Current, checkerVars, parkVars
  <1>8. CASE FinishesPhase
    <2>1. active.phase \in Phases /\ NeedsEnrichment \in BOOLEAN
      BY <1>8, FinishOutcome DEF Current, CoordinatorTypeOK, Work, NeedsEnrichment
    <2> QED
      BY <1>8, <2>1, FinishOutcome, PhaseAfterType DEF Continues, Ends, Current
  <1>9. CASE Parks
    <2>1. PhaseAfter("enrich", NeedsEnrichment) # "refresh"
      BY DEF PhaseAfter
    <2> QED
      BY <1>9, <2>1, ParksOutcome DEF Parks, Continues, Ends, Current
  <1>10. CASE Retries
    BY <1>10 DEF Retries, ScheduleRetry, Owed, Current, checkerVars,
                 parkVars
  <1> QED
    BY <1>1, <1>2, <1>3, <1>4, <1>5, <1>6, <1>7, <1>8, <1>9, <1>10, StepCases
       DEF FinishesPhase

(* Only an unparked checker is needed, and parking ends its phase.          *)
LEMMA ParkedNeverChecksStep ==
    ASSUME Outstanding, ParkedNeverChecks, CoordinatorNext
    PROVE  ParkedNeverChecks'
  <1> USE DEF Outstanding
  <1>1. CASE Signals
    BY <1>1, SignalSupersedes DEF ParkedNeverChecks, Current
  <1>2. CASE Elapse
    BY <1>2 DEF Elapse, ParkedNeverChecks, Current, workVars, parkVars
  <1>3. CASE TakeReady
    BY <1>3 DEF TakeReady, ParkedNeverChecks, Current, parkVars
  <1>4. CASE TakeRetry
    BY <1>4 DEF TakeRetry, ParkedNeverChecks, Current, parkVars
  <1>5. CASE TakeRefresh
    BY <1>5, RefreshWorkType DEF TakeRefresh, ParkedNeverChecks, Current, parkVars
  <1>6. CASE Observes
    BY <1>6 DEF Observes, ObserveCheckerSnapshot, ParkedNeverChecks, Current, workVars
  <1>7. CASE Superseded
    BY <1>7 DEF Superseded, ParkedNeverChecks, Current, parkVars
  <1>8. CASE FinishesPhase
    <2>1. active.phase \in Phases /\ NeedsEnrichment \in BOOLEAN
      BY <1>8, FinishOutcome DEF Current, CoordinatorTypeOK, Work, NeedsEnrichment
    <2>2. PhaseAfter(active.phase, NeedsEnrichment) = "enrich" => ~checker_paused
      BY <2>1, PhaseAfterType DEF NeedsEnrichment
    <2> QED
      BY <1>8, <2>2, FinishOutcome DEF Continues, Ends, ParkedNeverChecks, Current, parkVars
  <1>9. CASE Parks
    <2>1. PhaseAfter("enrich", NeedsEnrichment) # "enrich"
      BY DEF PhaseAfter
    <2> QED
      BY <1>9, <2>1, ParksOutcome
         DEF Parks, Continues, Ends, ParkedNeverChecks, Current
  <1>10. CASE Retries
    BY <1>10 DEF Retries, ScheduleRetry, ParkedNeverChecks, Current, parkVars
  <1> QED
    BY <1>1, <1>2, <1>3, <1>4, <1>5, <1>6, <1>7, <1>8, <1>9, <1>10, StepCases
       DEF FinishesPhase

(* finish_error parks the checker before the count reaches the limit.       *)
LEMMA BoundedCheckerAttemptsStep ==
    ASSUME Outstanding, BoundedCheckerAttempts, CoordinatorNext
    PROVE  BoundedCheckerAttempts'
  <1> USE DEF Outstanding, BoundedCheckerAttempts
  <1>1. 0 < MaxCheckerAttempts
    BY CoordinatorAssumption
  <1>2. CASE Signals
    BY <1>1, <1>2, MarkDirtyOutcome DEF Phases
  <1>3. CASE FinishesPhase
    BY <1>1, <1>3, FinishOutcome
  <1>4. CASE Parks
    BY <1>1, <1>4, ParksOutcome
  <1>5. CASE Retries
    <2>1. active.phase \in Phases
      BY <1>5 DEF Retries, Current, CoordinatorTypeOK, Work
    <2>2. retry_attempts' = [retry_attempts EXCEPT ![active.phase] = @ + 1]
      BY <1>5 DEF Retries, ScheduleRetry
    <2>3. CASE active.phase = "enrich"
      BY <1>5, <2>2, <2>3, CoordinatorAssumption
         DEF Retries, AttemptsExhausted, CoordinatorTypeOK, Phases
    <2>4. CASE active.phase # "enrich"
      BY <2>1, <2>2, <2>4 DEF CoordinatorTypeOK, Phases
    <2> QED
      BY <2>3, <2>4
  <1>6. CASE \/ Elapse \/ TakeReady \/ TakeRetry \/ TakeRefresh \/ Observes \/ Superseded
    BY <1>6 DEF Elapse, TakeReady, TakeRetry, TakeRefresh, Observes,
                ObserveCheckerSnapshot, Superseded, workVars
  <1> QED
    BY <1>2, <1>3, <1>4, <1>5, <1>6, StepCases DEF FinishesPhase

-----------------------------------------------------------------------------
(* Why a settled coordinator owes nothing.                                 *)

(* What precedes the last phase, and what may end a generation.            *)
LEMMA LastPhases ==
    ASSUME NEW phase \in Phases, NEW needed \in BOOLEAN
    PROVE  /\ PhaseAfter(phase, needed) = "semantic" =>
                 (phase = "embed" /\ ~needed) \/ phase = "enrich"
           /\ PhaseAfter(phase, needed) = "done" =>
                 (phase = "refresh" /\ ~needed) \/ phase \in {"enrich", "semantic"}
  BY CoordinatorAssumption DEF PhaseAfter, Phases

(* The types of the arguments of PhaseAfter.                               *)
LEMMA ActivePhase ==
    ASSUME CoordinatorTypeOK, Current(active)
    PROVE  active.phase \in Phases /\ NeedsEnrichment \in BOOLEAN
  BY DEF Current, CoordinatorTypeOK, Work, NeedsEnrichment

(* An unparked checker that is not needed is owed nothing.                 *)
LEMMA NotNeeded ==
    ASSUME DisabledOwesNothing, ~NeedsEnrichment, ~checker_paused
    PROVE  ~Owed
  BY DEF DisabledOwesNothing, NeedsEnrichment, Owed

(* The semantic phase begins with nothing owed, or with a parked checker.  *)
LEMMA SemanticStep ==
    ASSUME Outstanding, CoordinatorInv, CoordinatorNext
    PROVE  SemanticOwesNothing'
  <1> USE DEF Outstanding, CoordinatorInv
  <1>1. CASE Signals
    BY <1>1, SignalSupersedes DEF SemanticOwesNothing, Slots
  <1>2. CASE Elapse
    BY <1>2 DEF Elapse, SemanticOwesNothing, Slots, Current, workVars, checkerVars, parkVars
  <1>3. CASE TakeReady
    BY <1>3 DEF TakeReady, SemanticOwesNothing, Slots, Current, checkerVars, parkVars
  <1>4. CASE TakeRetry
    BY <1>4 DEF TakeRetry, SemanticOwesNothing, Slots, Current, checkerVars, parkVars
  <1>5. CASE TakeRefresh
    BY <1>5, RefreshWorkType DEF TakeRefresh, SemanticOwesNothing, Slots, Current
  <1>6. CASE Observes
    BY <1>6 DEF Observes, ObserveCheckerSnapshot, OneOutstanding, SemanticOwesNothing,
                Slots, Current, workVars
  <1>7. CASE Superseded
    BY <1>7 DEF Superseded, SemanticOwesNothing, Slots, Current, checkerVars, parkVars
  <1>8. CASE FinishesPhase
    <2>1. active.phase \in Phases /\ NeedsEnrichment \in BOOLEAN
      BY <1>8, FinishOutcome, ActivePhase
    <2>2. CASE PhaseAfter(active.phase, NeedsEnrichment) = "semantic" /\ ~checker_paused
      <3>1. CASE active.phase = "enrich"
        BY <1>8, <3>1, FinishOutcome DEF SemanticOwesNothing
      <3>2. CASE active.phase # "enrich"
        BY <1>8, <2>1, <2>2, <3>2, LastPhases, NotNeeded, FinishOutcome
           DEF SemanticOwesNothing, Owed, checkerVars
      <3> QED
        BY <3>1, <3>2
    <2>3. CASE PhaseAfter(active.phase, NeedsEnrichment) # "semantic" \/ checker_paused
      BY <1>8, <2>3, FinishOutcome
         DEF Continues, Ends, SemanticOwesNothing, Slots, Current, parkVars
    <2> QED
      BY <2>2, <2>3
  <1>9. CASE Parks
    BY <1>9, ParksOutcome DEF SemanticOwesNothing
  <1>10. CASE Retries
    BY <1>10 DEF Retries, ScheduleRetry, SemanticOwesNothing, Slots, Current,
                 checkerVars, parkVars
  <1> QED
    BY <1>1, <1>2, <1>3, <1>4, <1>5, <1>6, <1>7, <1>8, <1>9, <1>10, StepCases
       DEF FinishesPhase

(* Parking leaves the semantic phase; a signal ends the partial generation.*)
LEMMA PartialStep ==
    ASSUME Outstanding, CoordinatorInv, CoordinatorNext
    PROVE  PartialIsParked'
  <1> USE DEF Outstanding, CoordinatorInv, PartialIsParked
  <1>1. CASE Signals
    <2>1. partial_generation' => partial_generation /\ ~OpensGeneration
      BY <1>1 DEF Signals, MarkDirty
    <2> QED
      BY <2>1 DEF OpensGeneration, Slots
  <1>2. CASE Elapse
    BY <1>2 DEF Elapse, Slots, Current, workVars, parkVars
  <1>3. CASE TakeReady
    BY <1>3 DEF TakeReady, OneOutstanding, Slots, Current, parkVars
  <1>4. CASE TakeRetry
    BY <1>4 DEF TakeRetry, DueRetry, OneOutstanding, Slots, Current, parkVars
  <1>5. CASE TakeRefresh
    BY <1>5 DEF TakeRefresh, DueRefresh, Slots, Current
  <1>6. CASE Observes
    BY <1>6 DEF Observes, ObserveCheckerSnapshot, OneOutstanding, Slots, Current
  <1>7. CASE Superseded
    BY <1>7 DEF Superseded, IsSuperseded, OneOutstanding, Slots, Current
  <1>8. CASE FinishesPhase
    <2>1. partial_generation => active.phase = "semantic"
      BY <1>8, FinishOutcome DEF Slots, Current
    <2>2. partial_generation => PhaseAfter(active.phase, NeedsEnrichment) = "done"
      BY <1>8, <2>1, FinishOutcome, ActivePhase, PhaseAfterType
    <2> QED
      BY <1>8, <2>2, FinishOutcome DEF Continues, Ends, Phases, Work
  <1>9. CASE Parks
    <2>1. PhaseAfter("enrich", NeedsEnrichment) \in {"semantic", "done"}
      BY CoordinatorAssumption DEF PhaseAfter
    <2>2. CASE Continues(TRUE)
      <3>1. /\ ready' \in Work
            /\ ready'.generation = desired_generation
            /\ ready'.phase \in {"semantic", "done"}
        BY <1>9, <2>1, <2>2 DEF Parks, Continues
      <3>2. ready'.phase = "semantic"
        BY <3>1 DEF Work, Phases
      <3> QED
        BY <1>9, <3>1, <3>2, ParksOutcome, NoneIsNoWork DEF Slots, Current
    <2> QED
      BY <1>9, <2>2, ParksOutcome DEF Ends
  <1>10. CASE Retries
    BY <1>10 DEF Retries, ScheduleRetry, OneOutstanding, Slots, Current, parkVars
  <1> QED
    BY <1>1, <1>2, <1>3, <1>4, <1>5, <1>6, <1>7, <1>8, <1>9, <1>10, StepCases
       DEF FinishesPhase

(* Only a drift flush or an enrichment could owe or park anything.         *)
LEMMA DisabledStep ==
    ASSUME Outstanding, CoordinatorInv, CoordinatorNext
    PROVE  DisabledOwesNothing'
  <1> SUFFICES ASSUME ~Enrich
               PROVE  /\ ~Owed' /\ ~checker_paused'
                      /\ \A w \in Slots' : Current(w)' => w.phase # "enrich"
    BY DEF DisabledOwesNothing
  <1> USE DEF Outstanding
  <1>0. /\ ~Owed /\ ~checker_paused
        /\ \A w \in Slots : Current(w) => w.phase # "enrich"
    BY DEF CoordinatorInv, DisabledOwesNothing
  <1>1. CASE Signals
    <2>1. ~Owed'
      BY <1>0, <1>1, MarkDirtyOutcome DEF Owed, checkerVars
    <2>2. ~checker_paused'
      BY <1>0, <1>1 DEF Signals, MarkDirty
    <2> QED
      BY <1>1, <2>1, <2>2, SignalSupersedes DEF Slots
  <1>2. CASE Elapse
    BY <1>0, <1>2 DEF Elapse, Owed, Slots, Current, workVars, checkerVars, parkVars
  <1>3. CASE TakeReady
    BY <1>0, <1>3 DEF TakeReady, Owed, Slots, Current, checkerVars, parkVars
  <1>4. CASE TakeRetry
    BY <1>0, <1>4 DEF TakeRetry, Owed, Slots, Current, checkerVars, parkVars
  <1>5. CASE TakeRefresh
    BY <1>0, <1>5, RefreshWorkType
       DEF TakeRefresh, Owed, Slots, Current, checkerVars, parkVars
  <1>6. CASE Observes
    <2>1. ~Owed' /\ ~checker_paused'
      BY <1>0, <1>6 DEF Observes, ObserveCheckerSnapshot, Owed, CoordinatorTypeOK
    <2> QED
      BY <1>0, <1>6, <2>1 DEF Observes, ObserveCheckerSnapshot, Slots, Current, workVars
  <1>7. CASE Superseded
    BY <1>0, <1>7 DEF Superseded, Owed, Slots, Current, checkerVars, parkVars
  <1>8. CASE FinishesPhase
    <2>1. PhaseAfter(active.phase, NeedsEnrichment) # "enrich"
      <3>1. ~NeedsEnrichment
        BY DEF NeedsEnrichment
      <3> QED
        BY <1>8, <3>1, FinishOutcome, ActivePhase, PhaseAfterType
    <2>2. active.phase # "enrich" /\ UNCHANGED checkerVars
      BY <1>0, <1>8, FinishOutcome DEF Slots
    <2>3. ~force_full_enrichment'
      BY <1>0, <1>8, FinishOutcome DEF Continues, Ends, Owed
    <2>4. ~Owed' /\ ~checker_paused'
      BY <1>0, <1>8, <2>2, <2>3, FinishOutcome DEF Owed, checkerVars, parkVars
    <2>5. \A w \in Slots' : Current(w)' => w.phase # "enrich"
      BY <1>8, <2>1, FinishOutcome DEF Continues, Ends, Slots, Current
    <2> QED
      BY <2>4, <2>5
  <1>9. CASE Parks
    BY <1>0, <1>9 DEF Parks, Slots
  <1>10. CASE Retries
    BY <1>0, <1>10 DEF Retries, ScheduleRetry, Owed, Slots, Current, checkerVars, parkVars
  <1> QED
    BY <1>1, <1>2, <1>3, <1>4, <1>5, <1>6, <1>7, <1>8, <1>9, <1>10, StepCases
       DEF FinishesPhase

(* A generation ends after its semantic phase, after an enrichment, or      *)
(* when no enrichment was needed: nothing is owed in any of the three.     *)
LEMMA SettledStep ==
    ASSUME Outstanding, CoordinatorInv, CoordinatorNext
    PROVE  SettledOwesNothing'
  <1> USE DEF Outstanding, CoordinatorInv, SettledOwesNothing
  <1>1. CASE Signals
    BY <1>1, MarkDirtyOutcome DEF IsClean, CoordinatorTypeOK
  <1>2. CASE Elapse
    BY <1>2 DEF Elapse, IsClean, CoordinatorTypeOK
  <1>3. CASE TakeReady
    BY <1>3 DEF TakeReady, Current, IsClean
  <1>4. CASE TakeRetry
    BY <1>4 DEF TakeRetry, DueRetry, Current, IsClean
  <1>5. CASE TakeRefresh
    BY <1>5, RefreshWorkType, NoneIsNoWork DEF TakeRefresh, IsClean
  <1>6. CASE Observes
    BY <1>6 DEF Observes, ObserveCheckerSnapshot, IsClean, workVars
  <1>7. CASE Superseded
    BY <1>7 DEF Superseded, OneOutstanding, IsClean, CoordinatorTypeOK, Work
  <1>8. CASE FinishesPhase
    <2>1. CASE Ends(partial_generation \/ checker_paused) /\ ~checker_paused
      <3>1. ~partial_generation
        BY <2>1 DEF PartialIsParked
      <3>2. ~force_full_enrichment'
        BY <2>1, <3>1 DEF Ends
      <3>3. \/ active.phase = "refresh" /\ ~NeedsEnrichment
            \/ active.phase \in {"enrich", "semantic"}
        BY <1>8, <2>1, FinishOutcome, ActivePhase, LastPhases DEF Ends
      <3>4. CASE active.phase = "enrich"
        BY <1>8, <3>2, <3>4, FinishOutcome DEF Owed
      <3>5. CASE active.phase # "enrich"
        <4>1. ~checker_refresh_required /\ checker_dirty_source_paths = {}
          BY <1>8, <2>1, <3>3, <3>5, FinishOutcome, NotNeeded
             DEF SemanticOwesNothing, Slots, Owed
        <4> QED
          BY <1>8, <3>2, <3>5, <4>1, FinishOutcome DEF Owed, checkerVars
      <3> QED
        BY <3>4, <3>5
    <2>2. CASE Continues(partial_generation) \/ checker_paused
      BY <1>8, <2>2, FinishOutcome, NoneIsNoWork DEF Continues, IsClean, parkVars
    <2> QED
      BY <1>8, <2>1, <2>2, FinishOutcome
  <1>9. CASE Parks
    BY <1>9, ParksOutcome
  <1>10. CASE Retries
    BY <1>10 DEF Retries, ScheduleRetry, Current, IsClean
  <1> QED
    BY <1>1, <1>2, <1>3, <1>4, <1>5, <1>6, <1>7, <1>8, <1>9, <1>10, StepCases
       DEF FinishesPhase

-----------------------------------------------------------------------------
(* Everything above that a step needs to preserve it.                      *)
Inv ==
    /\ Outstanding
    /\ ForceFollowsWork
    /\ RebindInv
    /\ ParkedNeverChecks
    /\ BoundedCheckerAttempts
    /\ CoordinatorInv

(* The invariant holds at start-up.                                        *)
LEMMA InvInit == CoordinatorInit => Inv
  <1> SUFFICES ASSUME CoordinatorInit PROVE Inv
    OBVIOUS
  <1>1. Outstanding
    BY OutstandingInit
  <1>2. ForceFollowsWork /\ RebindInv /\ ParkedNeverChecks
    BY DEF CoordinatorInit, ForceFollowsWork, RebindInv, RebindOwesNothing,
           ReadyFollowsRefresh, ParkedNeverChecks, Current
  <1>3. BoundedCheckerAttempts
    BY CoordinatorAssumption DEF CoordinatorInit, BoundedCheckerAttempts, Phases
  <1>4. CoordinatorInv
    BY CoordinatorAssumption
       DEF CoordinatorInit, CoordinatorInv, SemanticOwesNothing, PartialIsParked,
           DisabledOwesNothing, SettledOwesNothing, IsClean, Owed, Slots, Current
  <1> QED
    BY <1>1, <1>2, <1>3, <1>4 DEF Inv

(* ... and every step preserves it.                                        *)
LEMMA InvStep == Inv /\ [CoordinatorNext]_coordinatorVars => Inv'
  <1>1. ASSUME Inv, CoordinatorNext PROVE Inv'
    <2>1. Outstanding'
      BY <1>1, TypeStep, OneOutstandingStep DEF Inv, Outstanding
    <2>2. CoordinatorInv'
      BY <1>1, SemanticStep, PartialStep, DisabledStep, SettledStep
         DEF Inv, CoordinatorInv
    <2> QED
      BY <1>1, <2>1, <2>2, ForceFollowsWorkStep, RebindStep, ParkedNeverChecksStep,
         BoundedCheckerAttemptsStep DEF Inv
  <1>2. ASSUME Inv, UNCHANGED coordinatorVars PROVE Inv'
    <2> USE <1>2 DEF coordinatorVars, clockVars, workVars, scopeVars, checkerVars,
                     parkVars, Current
    <2>1. Outstanding'
      BY OutstandingStutters DEF Inv
    <2>2. ForceFollowsWork' /\ ParkedNeverChecks' /\ BoundedCheckerAttempts'
      BY DEF Inv, ForceFollowsWork, ParkedNeverChecks, BoundedCheckerAttempts
    <2>3. RebindInv'
      BY DEF Inv, RebindInv, RebindOwesNothing, ReadyFollowsRefresh, Owed
    <2>4. CoordinatorInv'
      BY DEF Inv, CoordinatorInv, SemanticOwesNothing, PartialIsParked,
             DisabledOwesNothing, SettledOwesNothing, IsClean, Owed, Slots
    <2> QED
      BY <2>1, <2>2, <2>3, <2>4 DEF Inv
  <1> QED
    BY <1>1, <1>2

(* The whole inductive invariant, from which the rest follows.             *)
THEOREM CoordinatorInvariant == CoordinatorSpec => []Inv
  BY InvInit, InvStep, PTL DEF CoordinatorSpec

(***************************************************************************)
(* Whatever supersessions, failures, retries and parked checkers led there,*)
(* a settled coordinator that has not parked its checker owes it nothing.  *)
(***************************************************************************)
THEOREM CoordinatorSettled == CoordinatorSpec => []SettledOwesNothing
  <1>1. Inv => SettledOwesNothing
    BY DEF Inv, CoordinatorInv
  <1> QED
    BY <1>1, CoordinatorInvariant, PTL

(* No work of the desired generation loses or invents a drift flush.       *)
THEOREM CoordinatorForce == CoordinatorSpec => []ForceFollowsWork
  <1>1. Inv => ForceFollowsWork
    BY DEF Inv
  <1> QED
    BY <1>1, CoordinatorInvariant, PTL

(* A refresh that may rebind the publication runs only with nothing owed.  *)
THEOREM CoordinatorRebind == CoordinatorSpec => []RebindOwesNothing
  <1>1. Inv => RebindOwesNothing
    BY DEF Inv, RebindInv
  <1> QED
    BY <1>1, CoordinatorInvariant, PTL

(* A parked checker is not started again by the generation that parked it. *)
THEOREM CoordinatorParked == CoordinatorSpec => []ParkedNeverChecks
  <1>1. Inv => ParkedNeverChecks
    BY DEF Inv
  <1> QED
    BY <1>1, CoordinatorInvariant, PTL

(* A generation never runs more than MaxCheckerAttempts checker attempts.  *)
THEOREM CoordinatorAttempts == CoordinatorSpec => []BoundedCheckerAttempts
  <1>1. Inv => BoundedCheckerAttempts
    BY DEF Inv
  <1> QED
    BY <1>1, CoordinatorInvariant, PTL

(***************************************************************************)
(* A settled coordinator with a running checker owes it nothing, and a     *)
(* refresh that rebinds instead of checking never hides a debt.            *)
(***************************************************************************)
THEOREM CoordinatorPaid == CoordinatorSpec => []CheckerPaid
  <1>1. SettledOwesNothing /\ RebindOwesNothing => CheckerPaid
    BY DEF CheckerPaid
  <1> QED
    BY <1>1, CoordinatorSettled, CoordinatorRebind, PTL

(* A failing checker is tried at most MaxCheckerAttempts times, then parked. *)
THEOREM CoordinatorBounded == CoordinatorSpec => []CheckerBounded
  <1>1. ParkedNeverChecks /\ BoundedCheckerAttempts => CheckerBounded
    BY DEF CheckerBounded
  <1> QED
    BY <1>1, CoordinatorParked, CoordinatorAttempts, PTL

-----------------------------------------------------------------------------
(* Only the end of current work completes a generation.                    *)
LEMMA CompletionStep ==
    ASSUME Outstanding, CoordinatorNext, completed_generation' # completed_generation
    PROVE  completed_generation' = desired_generation /\ IsClean'
  <1> USE DEF Outstanding
  <1>1. CASE FinishesPhase
    BY <1>1, FinishOutcome DEF Continues, Ends, IsClean
  <1>2. CASE Parks
    BY <1>2, ParksOutcome DEF Continues, Ends, IsClean
  <1>3. ~Signals
    BY MarkDirtyOutcome
  <1>4. ~(\/ Elapse \/ TakeReady \/ TakeRetry \/ TakeRefresh \/ Observes
          \/ Superseded \/ Retries)
    BY DEF Elapse, TakeReady, TakeRetry, TakeRefresh, Observes,
           ObserveCheckerSnapshot, Superseded, Retries, ScheduleRetry
  <1> QED
    BY <1>1, <1>2, <1>3, <1>4, StepCases DEF FinishesPhase

(* A generation is completed only by its last phase, and only the newest.  *)
THEOREM CoordinatorCompletion == CoordinatorSpec => CompletionSettles
  <1>1. Outstanding /\ [CoordinatorNext]_coordinatorVars
          => [completed_generation' # completed_generation
                => /\ completed_generation' = desired_generation
                   /\ IsClean']_coordinatorVars
    BY CompletionStep
  <1> QED
    BY <1>1, CoordinatorOutstanding, PTL DEF CoordinatorSpec, CompletionSettles

-----------------------------------------------------------------------------
(***************************************************************************)
(* The loop of `jscout watch` is a legal caller of its coordinator: every  *)
(* step of WatchLoop is a step of CoordinatorNext or leaves the            *)
(* coordinator alone, so what is proved above for any caller holds of the  *)
(* watcher.  On top of it, the schedule of the timers.                     *)
(***************************************************************************)

(* While the loop is in a refresh, the active work is that refresh.        *)
RefreshRuns ==
    pc \in {"refresh", "refreshed"} => active # None /\ active.phase = "refresh"

LoopInv ==
    /\ Outstanding
    /\ RefreshRuns
    /\ channel \in Seq(EventSignals)
    /\ index \in [AllKinds -> 0 .. MaxEdits]

-----------------------------------------------------------------------------
(* What the loop hands to the coordinator.                                 *)

(* One path of a notification is a notification that names it twice.       *)
LEMMA TwiceIsOnce ==
    ASSUME NEW s \in PathSignals, s \in Signal
    PROVE  s \in EventSignals
  <1>1. Merge(s, s) = s
    BY DEF Merge, MaxScope, Signal, Scopes
  <1> QED
    BY <1>1 DEF EventSignals

(* EventClassifier answers every kind of edit with a legal notification.   *)
LEMMA SignalOfType ==
    ASSUME NEW kind \in Kinds
    PROVE  SignalOf(kind) \in EventSignals /\ WatchErrorSignal \in EventSignals
  <1>1. kind \in {"source", "rust", "doc", "boundary", "config"}
    BY LoopAssumption DEF LoopAssumption, AllKinds
  <1>0. SourcePath \in Paths /\ RustPath \in Paths
    BY LoopAssumption, CoordinatorAssumption DEF LoopAssumption
  <1>2. SignalOf(kind) \in PathSignals
    BY <1>0, <1>1 DEF SignalOf, PathSignals
  <1>3. \A t, c \in BOOLEAN, scope \in Scopes : Notice(scope, t, c, FALSE) \in Signal
    BY DEF Notice, Signal
  <1>4. \A p \in Paths : SourceSignal(p) \in Signal
    BY CoordinatorAssumption DEF SourceSignal, Signal, Scopes
  <1>5. SignalOf(kind) \in Signal
    BY <1>0, <1>1, <1>3, <1>4
       DEF SignalOf, Scopes, FullSignal, DocumentationSignal,
           CheckerInputSignal
  <1> QED
    BY <1>2, <1>5, TwiceIsOnce DEF EventSignals

(* The oldest notification is legal, and so are the others.                *)
LEMMA ChannelHead ==
    ASSUME channel \in Seq(EventSignals), channel # <<>>
    PROVE  Head(channel) \in EventSignals /\ Tail(channel) \in Seq(EventSignals)
  BY HeadTailProperties

(* A publication holds versions that were on disk.                         *)
LEMMA IndexOfType ==
    ASSUME index \in [AllKinds -> 0 .. MaxEdits],
           NEW read \in [AllKinds -> 0 .. MaxEdits], NEW scope
    PROVE  /\ IndexOf(read, scope) \in [AllKinds -> 0 .. MaxEdits]
           /\ CodeDigest(IndexOf(read, scope)) \in Snapshots
  <1>1. IndexOf(read, scope) \in [AllKinds -> 0 .. MaxEdits]
    BY DEF IndexOf
  <1>2. CodeDigest(IndexOf(read, scope)) \in (0 .. MaxEdits) \X (0 .. MaxEdits)
    BY <1>1 DEF CodeDigest, AllKinds
  <1> QED
    BY <1>1, <1>2, LoopAssumption DEF LoopAssumption

-----------------------------------------------------------------------------
(* Every step of the loop is a legal call, or none.                        *)
LEMMA LegalCall ==
    ASSUME LoopInv, Next
    PROVE  CoordinatorNext \/ UNCHANGED coordinatorVars
  <1>1. CASE DrainEvent \/ WaitEvent
    BY <1>1, ChannelHead DEF DrainEvent, WaitEvent, IngestEvent, LoopInv, CoordinatorNext
  <1>2. CASE RefreshSucceeds
    <2>1. active # None /\ active.phase = "refresh"
      BY <1>2 DEF RefreshSucceeds, LoopInv, RefreshRuns
    <2>2. \E snapshot \in Snapshots : ObserveCheckerSnapshot(snapshot)
      BY <1>2, IndexOfType DEF RefreshSucceeds, LoopInv
    <2> QED
      BY <2>1, <2>2 DEF CoordinatorNext
  <1>3. CASE StartFlush \/ StartReconciliation \/ StartWork \/ TimePasses
    BY <1>3 DEF StartFlush, StartReconciliation, StartWork, TimePasses, CoordinatorNext
  <1>4. CASE EndRefresh \/ RefreshFails \/ EmbeddingEnds \/ EnrichmentSucceeds
             \/ PhaseFails \/ EnrichmentTerminal
    BY <1>4 DEF EndRefresh, RefreshFails, EmbeddingEnds, EnrichmentSucceeds,
                PhaseFails, EnrichmentTerminal, CoordinatorNext
  <1>5. CASE SkipTimers \/ EndDrain \/ Idle \/ WaitTimeout \/ ReconcileDue
             \/ FlushDue \/ Edit \/ EditMissed \/ Interrupt
    BY <1>5 DEF SkipTimers, EndDrain, Idle, WaitTimeout, ReconcileDue, FlushDue,
                Edit, EditMissed, Interrupt, Change
  <1> QED
    BY <1>1, <1>2, <1>3, <1>4, <1>5 DEF Next, LoopStep, Clocks, Environment

LEMMA OutstandingKept ==
    ASSUME LoopInv, Next
    PROVE  Outstanding'
  BY LegalCall, TypeStep, OneOutstandingStep, OutstandingStutters
     DEF LoopInv, Outstanding

(* The active work a refresh started stays until the loop ends the phase.  *)
LEMMA RefreshRunsKept ==
    ASSUME LoopInv, Next
    PROVE  RefreshRuns'
  <1>1. CASE StartWork
    BY <1>1, OutstandingKept, NoneIsNoWork, RefreshWorkType
       DEF StartWork, NextWork, TakeReady, TakeRetry, TakeRefresh, DueRetry, Current,
           RefreshRuns, LoopInv, Outstanding
  <1>2. CASE DrainEvent
    BY <1>2 DEF DrainEvent, IngestEvent, MarkDirty, RefreshRuns, LoopInv
  <1>3. CASE RefreshSucceeds
    BY <1>3 DEF RefreshSucceeds, ObserveCheckerSnapshot, workVars, RefreshRuns, LoopInv
  <1>4. CASE TimePasses
    BY <1>4 DEF TimePasses, Elapse, workVars, loopVars, RefreshRuns, LoopInv
  <1>5. CASE ReconcileDue \/ FlushDue \/ Edit \/ EditMissed
    BY <1>5 DEF ReconcileDue, FlushDue, Edit, EditMissed, Change, coordinatorVars,
                workVars, RefreshRuns, LoopInv
  <1>6. CASE pc' \in {"top", "drain", "next", "phase", "wait", "stopped"}
    BY <1>6 DEF RefreshRuns
  <1> QED
    BY <1>1, <1>2, <1>3, <1>4, <1>5, <1>6
       DEF Next, LoopStep, Clocks, Environment, StartFlush, StartReconciliation,
           SkipTimers, EndDrain, Idle, EndRefresh, RefreshFails, EmbeddingEnds,
           EnrichmentSucceeds, PhaseFails, EnrichmentTerminal, WaitEvent, WaitTimeout,
           Interrupt, AfterPhase

LEMMA ChannelKept ==
    ASSUME LoopInv, Next
    PROVE  channel' \in Seq(EventSignals)
  <1>1. CASE DrainEvent \/ WaitEvent
    BY <1>1, ChannelHead DEF DrainEvent, WaitEvent, IngestEvent, LoopInv
  <1>2. CASE Edit
    <2>1. PICK signal \in EventSignals : channel' = Append(channel, signal)
      BY <1>2, SignalOfType DEF Edit
    <2> QED
      BY <2>1, AppendProperties DEF LoopInv
  <1>3. CASE UNCHANGED channel
    BY <1>3 DEF LoopInv
  <1> QED
    BY <1>1, <1>2, <1>3
       DEF Next, LoopStep, Clocks, Environment, StartFlush, StartReconciliation,
           SkipTimers, EndDrain, StartWork, Idle, RefreshSucceeds, EndRefresh,
           RefreshFails, EmbeddingEnds, EnrichmentSucceeds, PhaseFails,
           EnrichmentTerminal, WaitTimeout, TimePasses, ReconcileDue, FlushDue,
           EditMissed, Interrupt, loopVars

LEMMA IndexKept ==
    ASSUME LoopInv, Next
    PROVE  index' \in [AllKinds -> 0 .. MaxEdits]
  <1>1. CASE RefreshSucceeds
    BY <1>1, IndexOfType DEF RefreshSucceeds, LoopInv
  <1>2. CASE UNCHANGED index
    BY <1>2 DEF LoopInv
  <1> QED
    BY <1>1, <1>2
       DEF Next, LoopStep, Clocks, Environment, StartFlush, StartReconciliation,
           SkipTimers, DrainEvent, WaitEvent, IngestEvent, EndDrain, StartWork, Idle,
           EndRefresh, RefreshFails, EmbeddingEnds, EnrichmentSucceeds, PhaseFails,
           EnrichmentTerminal, WaitTimeout, TimePasses, ReconcileDue, FlushDue,
           Edit, EditMissed, Change, Interrupt, loopVars, indexVars

LEMMA LoopInvInit == Init => LoopInv
  <1> SUFFICES ASSUME Init PROVE LoopInv
    OBVIOUS
  <1>1. Outstanding
    BY OutstandingInit DEF Init
  <1>2. channel \in Seq(EventSignals)
    BY EmptySeq DEF Init
  <1>3. index \in [AllKinds -> 0 .. MaxEdits]
    BY LoopAssumption DEF LoopAssumption, Init, Unedited
  <1> QED
    BY <1>1, <1>2, <1>3 DEF LoopInv, RefreshRuns, Init

LEMMA LoopInvStep == LoopInv /\ [Next]_vars => LoopInv'
  <1>1. ASSUME LoopInv, Next PROVE LoopInv'
    BY <1>1, OutstandingKept, RefreshRunsKept, ChannelKept, IndexKept DEF LoopInv
  <1>2. ASSUME LoopInv, UNCHANGED vars PROVE LoopInv'
    <2>1. Outstanding'
      BY <1>2, OutstandingStutters DEF vars, LoopInv
    <2> QED
      BY <1>2, <2>1 DEF LoopInv, RefreshRuns, vars, loopVars, indexVars,
                        coordinatorVars, workVars
  <1> QED
    BY <1>1, <1>2

(* What the loop guarantees at each of its positions: it calls a finish_*  *)
(* only for the phase that is active, and observe_checker_snapshot only    *)
(* while a refresh is finishing (fn watch, watch.rs).                      *)
THEOREM LoopInvariant == Spec => []LoopInv
  BY LoopInvInit, LoopInvStep, PTL DEF Spec

(***************************************************************************)
(* The watcher drives its coordinator only through legal calls: whatever   *)
(* events, timers, failures and publications the loop goes through, the    *)
(* coordinator in it behaves as the coordinator alone.                     *)
(***************************************************************************)
THEOREM LoopIsLegalCaller == Spec => CoordinatorSpec
  <1>1. Init => CoordinatorInit
    BY DEF Init
  <1>2. LoopInv /\ [Next]_vars => [CoordinatorNext]_coordinatorVars
    BY LegalCall DEF vars
  <1> QED
    BY <1>1, <1>2, LoopInvariant, PTL DEF Spec, CoordinatorSpec

(* So one slot at most holds work, whatever the loop does.                 *)
THEOREM LoopOutstanding == Spec => []Outstanding
  BY LoopIsLegalCaller, CoordinatorOutstanding, PTL

(* A quiet watcher whose checker runs owes it nothing.                     *)
THEOREM LoopPaysChecker == Spec => []CheckerPaid
  BY LoopIsLegalCaller, CoordinatorPaid, PTL

(* No drift flush is lost or invented on the way to the checker.           *)
THEOREM LoopKeepsForce == Spec => []ForceFollowsWork
  BY LoopIsLegalCaller, CoordinatorForce, PTL

(* A failing checker is started a bounded number of times by the loop.     *)
THEOREM LoopBoundsChecker == Spec => []CheckerBounded
  BY LoopIsLegalCaller, CoordinatorBounded, PTL

-----------------------------------------------------------------------------
(***************************************************************************)
(* The timers.  A reconciliation is scheduled whenever the coordinator is  *)
(* clean, and is not while it waits dirty; a drift flush that is not       *)
(* scheduled is pending, and is pending only under a generation.           *)
(***************************************************************************)
TimerInv ==
    /\ IsClean /\ Reconciles => next_reconcile # "off"
    /\ pc \in {"next", "wait"} /\ ~IsClean => next_reconcile = "off"
    /\ Enrich /\ next_checker_flush = "off" => checker_flush_pending
    /\ checker_flush_pending => ~IsClean

(* A signal opens a generation: the coordinator is not clean after it.     *)
LEMMA SignalsDirty ==
    ASSUME Outstanding, Signals
    PROVE  ~IsClean'
  BY MarkDirtyOutcome DEF Outstanding, CoordinatorTypeOK, IsClean

(* The loop's own signals are signals of the coordinator.                  *)
LEMMA LoopSignals ==
    ASSUME LoopInv, StartFlush \/ StartReconciliation \/ IngestEvent
    PROVE  Signals
  <1>1. CASE StartFlush
    BY <1>1, TimerSignalType
       DEF StartFlush, MarkCheckerDriftFlush, Signals, DriftFlushSignal, Notice
  <1>2. CASE StartReconciliation
    BY <1>2, TimerSignalType
       DEF StartReconciliation, MarkReconciliation, Signals, ReconciliationSignal, Notice
  <1>3. CASE IngestEvent
    BY <1>3, ChannelHead, EventSignalType DEF IngestEvent, LoopInv, Signals
  <1> QED
    BY <1>1, <1>2, <1>3

(* Generations are only ever opened.                                       *)
LEMMA DesiredGrows ==
    ASSUME Outstanding, CoordinatorNext
    PROVE  desired_generation' >= desired_generation
  <1>1. CASE Signals
    BY <1>1, MarkDirtyOutcome DEF Outstanding, CoordinatorTypeOK
  <1>2. CASE UNCHANGED desired_generation
    BY <1>2 DEF Outstanding, CoordinatorTypeOK
  <1> QED
    BY <1>1, <1>2, StepCases
       DEF Elapse, TakeReady, TakeRetry, TakeRefresh, Observes, ObserveCheckerSnapshot,
           Superseded, FinishRefresh, FinishOptional, FinishEnrichmentSuccess, Parks,
           ParkChecker, Retries, ScheduleRetry, Advance

(* A coordinator becomes clean only by completing its generation.          *)
LEMMA CleanByCompletion ==
    ASSUME Outstanding, CoordinatorNext, ~IsClean, IsClean'
    PROVE  completed_generation' # completed_generation
  <1>1. completed_generation < desired_generation
    BY DEF Outstanding, CoordinatorTypeOK, OneOutstanding, IsClean, Work
  <1> QED
    BY <1>1, DesiredGrows, TypeStep DEF Outstanding, CoordinatorTypeOK, IsClean

(* The end of a phase re-arms what the clean state it reached needs.       *)
LEMMA AfterPhaseTimers ==
    ASSUME LoopInv, TimerInv, CoordinatorNext, AfterPhase
    PROVE  TimerInv'
  <1>1. IsClean' /\ Reconciles => next_reconcile' # "off"
    BY CleanByCompletion DEF AfterPhase, TimerInv, LoopInv
  <1>2. Enrich /\ next_checker_flush' = "off" => checker_flush_pending'
    BY DEF AfterPhase, TimerInv
  <1>3. checker_flush_pending' => ~IsClean'
    BY DEF AfterPhase
  <1> QED
    BY <1>1, <1>2, <1>3 DEF TimerInv, AfterPhase

LEMMA TimerStep ==
    ASSUME LoopInv, TimerInv, Next
    PROVE  TimerInv'
  <1>1. CASE StartFlush \/ StartReconciliation \/ DrainEvent \/ WaitEvent
    <2>1. ~IsClean'
      BY <1>1, LoopSignals, SignalsDirty DEF DrainEvent, WaitEvent, LoopInv
    <2>2. pc' \notin {"next", "wait"}
      BY <1>1 DEF StartFlush, StartReconciliation, DrainEvent, WaitEvent
    <2>3. Enrich /\ next_checker_flush' = "off" => checker_flush_pending'
      BY <1>1 DEF StartFlush, StartReconciliation, DrainEvent, WaitEvent, IngestEvent,
                  TimerInv, timerVars
    <2> QED
      BY <2>1, <2>2, <2>3 DEF TimerInv
  <1>2. CASE StartWork
    <2>1. active' # None
      BY <1>2, NoneIsNoWork, RefreshWorkType
         DEF StartWork, NextWork, TakeReady, TakeRetry, TakeRefresh, DueRetry, Current,
             LoopInv, Outstanding
    <2>2. pc' \notin {"next", "wait"} /\ UNCHANGED timerVars
      BY <1>2 DEF StartWork
    <2> QED
      BY <2>1, <2>2 DEF TimerInv, IsClean, timerVars
  <1>3. CASE EndDrain
    BY <1>3 DEF EndDrain, TimerInv, IsClean, coordinatorVars, workVars
  <1>4. CASE EndRefresh \/ RefreshFails \/ EmbeddingEnds \/ EnrichmentSucceeds
             \/ PhaseFails \/ EnrichmentTerminal
    BY <1>4, AfterPhaseTimers
       DEF EndRefresh, RefreshFails, EmbeddingEnds, EnrichmentSucceeds, PhaseFails,
           EnrichmentTerminal, CoordinatorNext
  <1>5. CASE ReconcileDue \/ FlushDue
    BY <1>5 DEF ReconcileDue, FlushDue, TimerInv, IsClean, coordinatorVars, workVars
  <1>6. CASE SkipTimers \/ Idle \/ WaitTimeout \/ Edit \/ EditMissed \/ Interrupt
    BY <1>6 DEF SkipTimers, Idle, WaitTimeout, Edit, EditMissed, Change, Interrupt,
                TimerInv, IsClean, coordinatorVars, workVars, timerVars
  <1>7. CASE RefreshSucceeds \/ TimePasses
    BY <1>7 DEF RefreshSucceeds, ObserveCheckerSnapshot, TimePasses, Elapse, loopVars,
                TimerInv, IsClean, workVars, timerVars
  <1> QED
    BY <1>1, <1>2, <1>3, <1>4, <1>5, <1>6, <1>7 DEF Next, LoopStep, Clocks, Environment

(***************************************************************************)
(* A watcher that waits in a clean state has its reconciliation and its    *)
(* drift flush scheduled, and one that waits dirty has no reconciliation   *)
(* deadline to spin on.                                                    *)
(***************************************************************************)
THEOREM LoopSchedulesTimers == Spec => []TimersScheduled
  <1>1. Init => TimerInv
    BY DEF Init, CoordinatorInit, TimerInv, IsClean
  <1>2. LoopInv /\ TimerInv /\ [Next]_vars => TimerInv'
    <2>1. TimerInv /\ UNCHANGED vars => TimerInv'
      BY DEF TimerInv, IsClean, vars, loopVars, timerVars, coordinatorVars, workVars
    <2> QED
      BY <2>1, TimerStep
  <1>3. TimerInv => TimersScheduled
    BY DEF TimerInv, TimersScheduled
  <1> QED
    BY <1>1, <1>2, <1>3, LoopInvariant, PTL DEF Spec

(* Only the last phase of the newest generation completes one.             *)
THEOREM LoopCompletionSettles == Spec => CompletionSettles
  BY LoopIsLegalCaller, CoordinatorCompletion, PTL

-----------------------------------------------------------------------------
(***************************************************************************)
(* The loop keeps the watcher's obligations.  Besides the invariants of    *)
(* the coordinator this rests on where the loop is: events are only read   *)
(* where no refresh is active and unpublished, a running refresh is        *)
(* current, and current work has the scope the coordinator asks for.       *)
(***************************************************************************)
ActiveRuns ==
    active # None =>
        IF active.phase = "refresh" THEN pc \in {"refresh", "refreshed"}
        ELSE pc \in {"phase", "stopped"}

RefreshIsCurrent == pc = "refresh" => Current(active)

ScopeFollowsWork == \A w \in Slots : Current(w) => w.scope = refresh_scope

CallInv ==
    /\ LoopInv
    /\ Inv
    /\ ActiveRuns
    /\ RefreshIsCurrent
    /\ ScopeFollowsWork

(* Work that is taken up belongs to the desired generation.                *)
LEMMA TakenWork ==
    ASSUME LoopInv, StartWork
    PROVE  /\ active = None
           /\ Current(active)'
           /\ pc' = IF active'.phase = "refresh" THEN "refresh" ELSE "phase"
  BY NoneIsNoWork, RefreshWorkType
     DEF StartWork, NextWork, TakeReady, TakeRetry, TakeRefresh, DueRetry, Current,
         LoopInv, Outstanding

LEMMA ActiveRunsStep ==
    ASSUME LoopInv, ActiveRuns, RefreshIsCurrent, Next
    PROVE  ActiveRuns' /\ RefreshIsCurrent'
  <1>1. CASE StartWork
    BY <1>1, TakenWork DEF ActiveRuns, RefreshIsCurrent
  <1>2. CASE StartFlush \/ StartReconciliation
    BY <1>2 DEF StartFlush, StartReconciliation, MarkCheckerDriftFlush,
                MarkReconciliation, MarkDirty, IsClean, ActiveRuns, RefreshIsCurrent
  <1>3. CASE DrainEvent \/ WaitEvent
    BY <1>3 DEF DrainEvent, WaitEvent, IngestEvent, MarkDirty, ActiveRuns,
                RefreshIsCurrent
  <1>4. CASE RefreshSucceeds
    BY <1>4 DEF RefreshSucceeds, ObserveCheckerSnapshot, workVars, ActiveRuns,
                RefreshIsCurrent, LoopInv, RefreshRuns
  <1>5. CASE EndRefresh \/ RefreshFails \/ EmbeddingEnds \/ EnrichmentSucceeds
             \/ PhaseFails \/ EnrichmentTerminal
    BY <1>5 DEF EndRefresh, RefreshFails, EmbeddingEnds, EnrichmentSucceeds,
                PhaseFails, EnrichmentTerminal, AfterPhase, FinishRefresh,
                FinishOptional, FinishEnrichmentSuccess, FinishOptionalPartial,
                FinishError, ParkChecker, ScheduleRetry, Superseded, ActiveRuns,
                RefreshIsCurrent
  <1>6. CASE SkipTimers \/ EndDrain \/ Idle \/ WaitTimeout \/ ReconcileDue
             \/ FlushDue \/ Edit \/ EditMissed \/ Interrupt
    BY <1>6 DEF SkipTimers, EndDrain, Idle, WaitTimeout, ReconcileDue, FlushDue,
                Edit, EditMissed, Change, Interrupt, coordinatorVars, workVars,
                ActiveRuns, RefreshIsCurrent, Current
  <1>7. CASE TimePasses
    BY <1>7 DEF TimePasses, Elapse, workVars, loopVars, ActiveRuns, RefreshIsCurrent,
                Current
  <1> QED
    BY <1>1, <1>2, <1>3, <1>4, <1>5, <1>6, <1>7 DEF Next, LoopStep, Clocks, Environment

(* The end of a phase leaves the scope to the work that follows.           *)
LEMMA AdvanceKeepsScope ==
    ASSUME Outstanding, Current(active), ScopeFollowsWork, active' = None,
           NEW partialNow, NEW pausedNow, Advance(active, partialNow, pausedNow)
    PROVE  ScopeFollowsWork'
  <1>1. active \in Work /\ ready = None /\ retry = None /\ active.scope = refresh_scope
    BY DEF Outstanding, CoordinatorTypeOK, OneOutstanding, Current, ScopeFollowsWork, Slots
  <1>2. retry' = None /\ UNCHANGED <<desired_generation, refresh_scope>>
    BY <1>1 DEF Advance
  <1>3. ready' = None \/ ready'.scope = refresh_scope
    <2> DEFINE next == PhaseAfter(active.phase, NeedsEnrichment)
    <2>1. ready' = ready \/ ready' = [active EXCEPT !.phase = next]
      BY DEF Advance
    <2>2. [active EXCEPT !.phase = next].scope = active.scope
      BY <1>1 DEF Work
    <2> QED
      BY <1>1, <2>1, <2>2
  <1> QED
    BY <1>2, <1>3 DEF ScopeFollowsWork, Slots, Current

LEMMA ScopeFollowsWorkStep ==
    ASSUME Outstanding, ScopeFollowsWork, CoordinatorNext
    PROVE  ScopeFollowsWork'
  <1> USE DEF ScopeFollowsWork, Slots, Current
  <1>1. CASE Signals
    BY <1>1, SignalSupersedes
  <1>2. CASE Elapse
    BY <1>2 DEF Elapse, workVars, scopeVars
  <1>3. CASE TakeReady
    BY <1>3 DEF TakeReady, scopeVars
  <1>4. CASE TakeRetry
    BY <1>4 DEF TakeRetry, DueRetry, scopeVars
  <1>5. CASE TakeRefresh
    BY <1>5 DEF TakeRefresh, RefreshWork, scopeVars
  <1>6. CASE Observes
    BY <1>6 DEF Observes, ObserveCheckerSnapshot, workVars, scopeVars
  <1>7. CASE Superseded
    BY <1>7 DEF Superseded, scopeVars
  <1>8. CASE FinishesPhase \/ Parks
    BY <1>8, AdvanceKeepsScope
       DEF FinishesPhase, FinishRefresh, FinishOptional, FinishEnrichmentSuccess,
           Parks, ParkChecker
  <1>9. CASE Retries
    BY <1>9 DEF Retries, ScheduleRetry, scopeVars
  <1> QED
    BY <1>1, <1>2, <1>3, <1>4, <1>5, <1>6, <1>7, <1>8, <1>9, StepCases DEF FinishesPhase

LEMMA CallInvInit == Init => CallInv
  BY LoopInvInit, InvInit
     DEF Init, CoordinatorInit, CallInv, ActiveRuns, RefreshIsCurrent,
         ScopeFollowsWork, Slots, Current

LEMMA CallInvStep == CallInv /\ [Next]_vars => CallInv'
  <1>1. ASSUME CallInv, Next PROVE CallInv'
    <2>1. CoordinatorNext \/ UNCHANGED coordinatorVars
      BY <1>1, LegalCall DEF CallInv
    <2>2. LoopInv' /\ Inv'
      BY <1>1, <2>1, LoopInvStep, InvStep DEF CallInv
    <2>3. ScopeFollowsWork'
      <3>1. CASE CoordinatorNext
        BY <1>1, <3>1, ScopeFollowsWorkStep DEF CallInv, LoopInv
      <3>2. CASE UNCHANGED coordinatorVars
        BY <1>1, <3>2 DEF CallInv, ScopeFollowsWork, Slots, Current, coordinatorVars,
                          workVars, scopeVars
      <3> QED
        BY <2>1, <3>1, <3>2
    <2> QED
      BY <1>1, <2>2, <2>3, ActiveRunsStep DEF CallInv
  <1>2. ASSUME CallInv, UNCHANGED vars PROVE CallInv'
    <2>1. UNCHANGED <<coordinatorVars, pc>>
      BY <1>2 DEF vars, loopVars
    <2>2. LoopInv' /\ Inv'
      BY <1>2, <2>1, LoopInvStep, InvStep DEF CallInv
    <2> QED
      BY <1>2, <2>1, <2>2
         DEF CallInv, ActiveRuns, RefreshIsCurrent, ScopeFollowsWork, Slots, Current,
             coordinatorVars, workVars, scopeVars
  <1> QED
    BY <1>1, <1>2

-----------------------------------------------------------------------------
(* The steps of the loop as steps of WatchObligations.                     *)

(* A settled loop owes nothing that only a running checker could pay.      *)
LEMMA CleanMaySettle ==
    ASSUME Inv', IsClean'
    PROVE  Promise!MaySettle(OwedNow, checker_paused)'
  BY DEF Inv, CoordinatorInv, SettledOwesNothing, IsClean, Owed, OwedNow,
         RefreshPublished, Promise!MaySettle

LEMMA MaySettleAfter ==
    ASSUME Inv'
    PROVE  Promise!Settling
  <1>1. IsClean' \in BOOLEAN
    BY DEF IsClean
  <1> QED
    BY <1>1, CleanMaySettle DEF Promise!Settling

(* What is owed to the index is still owed after the step.                 *)
KeepsDebts == OwedNow \ {"checker"} \subseteq OwedNow'

(* If no debt changed, the loop settled or the step does not show.         *)
LEMMA SameDebts ==
    ASSUME Inv', OwedNow' = OwedNow, checker_paused' = checker_paused,
           published_scope' = published_scope, ~IsClean
    PROVE  KeepsDebts /\ [Promise!ObligationsNext]_(Promise!obligationVars)
  <1> SUFFICES [Promise!ObligationsNext]_(Promise!obligationVars)
    BY DEF KeepsDebts
  <1>1. CASE IsClean'
    <2>1. Promise!MaySettle(OwedNow, checker_paused)
      BY <1>1, CleanMaySettle DEF Promise!MaySettle
    <2>2. IsClean' = TRUE
      BY <1>1 DEF IsClean
    <2> QED
      BY <2>1, <2>2 DEF Promise!Settle, Promise!ObligationsNext
  <1>2. CASE ~IsClean'
    <2>1. IsClean' = IsClean
      BY <1>2 DEF IsClean
    <2> QED
      BY <2>1 DEF Promise!obligationVars
  <1> QED
    BY <1>1, <1>2

(* Outside a refresh that has not been published, a new signal only adds.  *)
LEMMA SignalObliges ==
    ASSUME CallInv, Signals, pc # "refresh", UNCHANGED published_scope
    PROVE  KeepsDebts /\ Promise!Oblige
  <1>1. ~RefreshPublished'
    BY SignalSupersedes, MarkDirtyOutcome
       DEF CallInv, LoopInv, Outstanding, RefreshPublished
  <1>2. PICK signal \in Signal, immediate \in BOOLEAN : MarkDirty(signal, immediate)
    BY DEF Signals
  <1>3. "full" \in OwedNow => refresh_scope' = "full"
    <2>1. SUFFICES ASSUME ~RefreshPublished, refresh_scope = "full"
                   PROVE  refresh_scope' = "full"
      BY DEF OwedNow
    <2>2. desired_generation # completed_generation
      BY <2>1 DEF RefreshPublished
    <2>3. ~Current(active)
      BY <2>1 DEF RefreshPublished, CallInv, ActiveRuns, Current
    <2>4. ~Current(ready)
      BY <2>1 DEF RefreshPublished, CallInv, Inv, RebindInv, ReadyFollowsRefresh, Current
    <2>5. Current(retry) => CarriesScope
      BY <2>1 DEF RefreshPublished, CarriesScope
    <2>6. ~RestartsScope
      BY <2>2, <2>3, <2>4, <2>5 DEF RestartsScope, OpensGeneration
    <2> QED
      BY <1>2, <2>1, <2>6 DEF MarkDirty, MaxScope
  <1>4. "checker" \in OwedNow
           => checker_refresh_required' \/ checker_dirty_source_paths' # {}
    BY <1>2 DEF MarkDirty, OwedNow
  <1>5. OwedNow' = OwedNow \cup {"index"} \cup OwedNow'
    BY <1>1, <1>3, <1>4 DEF OwedNow
  <1>6. OwedNow' \in SUBSET Promise!Obligations
    BY DEF OwedNow, Promise!Obligations
  <1>7. checker_paused' \in {checker_paused, FALSE}
    BY <1>2 DEF MarkDirty, CallInv, Inv, Outstanding, CoordinatorTypeOK
  <1>8. IsClean' = FALSE
    BY SignalsDirty DEF CallInv, LoopInv, IsClean
  <1> QED
    BY <1>5, <1>6, <1>7, <1>8 DEF Promise!Oblige, KeepsDebts

(* A superseded phase changes no debt: its generation already owes more.   *)
LEMMA SupersededDebts ==
    ASSUME CallInv, Inv', Superseded, UNCHANGED published_scope
    PROVE  KeepsDebts /\ [Promise!ObligationsNext]_(Promise!obligationVars)
  <1>1. /\ active # None /\ ~Current(active) /\ ready = None /\ retry = None
        /\ desired_generation # completed_generation
    BY DEF Superseded, IsSuperseded, Current, CallInv, Inv, Outstanding, OneOutstanding,
           CoordinatorTypeOK, Work
  <1>2. ~RefreshPublished /\ ~RefreshPublished'
    BY <1>1 DEF Superseded, RefreshPublished, Current
  <1>3. OwedNow' = OwedNow
    BY <1>2 DEF OwedNow, Superseded, checkerVars, scopeVars
  <1> QED
    BY <1>1, <1>3, SameDebts DEF Superseded, parkVars, IsClean

(* What is current after an index publication was published.               *)
LEMMA OptionalPublished ==
    ASSUME Current(active), active.phase # "refresh" \/ pc = "refreshed"
    PROVE  RefreshPublished /\ OwedNow \subseteq {"checker"} /\ ~IsClean
  BY DEF RefreshPublished, OwedNow, IsClean, Current

(* Whatever follows a published phase is published too.                    *)
LEMMA AdvancePublished ==
    ASSUME CallInv, FinishesPhase \/ Parks, pc' = "top"
    PROVE  RefreshPublished'
  <1>1. CASE FinishesPhase
    <2>1. Continues(partial_generation) \/ Ends(partial_generation \/ checker_paused)
      BY <1>1, FinishOutcome DEF CallInv, Inv, Outstanding
    <2>2. /\ desired_generation' = desired_generation
          /\ active.phase \in Phases /\ NeedsEnrichment \in BOOLEAN
      BY <1>1, FinishOutcome, ActivePhase DEF CallInv, Inv, Outstanding
    <2> QED
      BY <2>1, <2>2, PhaseAfterType, NoneIsNoWork
         DEF Continues, Ends, RefreshPublished, Current
  <1>2. CASE Parks
    <2>1. Continues(TRUE) \/ Ends(TRUE)
      BY <1>2, ParksOutcome DEF CallInv, Inv, Outstanding
    <2>2. /\ desired_generation' = desired_generation
          /\ active.phase \in Phases /\ NeedsEnrichment \in BOOLEAN
      BY <1>2, ParksOutcome, ActivePhase DEF CallInv, Inv, Outstanding
    <2> QED
      BY <2>1, <2>2, PhaseAfterType, NoneIsNoWork
         DEF Continues, Ends, RefreshPublished, Current
  <1> QED
    BY <1>1, <1>2

(* The end of a published refresh, or of an embedding phase, pays nothing. *)
LEMMA FinishDebts ==
    ASSUME CallInv, Inv', FinishRefresh \/ FinishOptional, pc' = "top",
           active.phase # "refresh" \/ pc = "refreshed", UNCHANGED published_scope
    PROVE  KeepsDebts /\ [Promise!ObligationsNext]_(Promise!obligationVars)
  <1>1. RefreshPublished /\ RefreshPublished' /\ ~IsClean
    BY OptionalPublished, AdvancePublished
       DEF FinishesPhase, FinishRefresh, FinishOptional
  <1>2. UNCHANGED <<checkerVars, parkVars>>
    BY DEF FinishRefresh, FinishOptional
  <1> QED
    BY <1>1, <1>2, SameDebts DEF OwedNow, checkerVars, parkVars

(* A retried phase owes what it owed.                                      *)
LEMMA RetryDebts ==
    ASSUME CallInv, Inv', Current(active), ScheduleRetry, pc' = "top",
           pc \in {"refresh", "phase"}, UNCHANGED published_scope
    PROVE  KeepsDebts /\ [Promise!ObligationsNext]_(Promise!obligationVars)
  <1>1. /\ ready = None /\ retry = None /\ active # None
        /\ desired_generation # completed_generation
    BY DEF CallInv, Inv, Outstanding, OneOutstanding, CoordinatorTypeOK, Work, Current
  <1>2. RefreshPublished' = RefreshPublished
    BY <1>1 DEF ScheduleRetry, RefreshPublished, Current
  <1>3. OwedNow' = OwedNow
    BY <1>2 DEF OwedNow, ScheduleRetry, checkerVars, scopeVars
  <1> QED
    BY <1>1, <1>3, SameDebts DEF ScheduleRetry, parkVars, IsClean

(* A checker that fails for good is parked, with what it owes.             *)
LEMMA ParkDebts ==
    ASSUME CallInv, Inv', Parks, pc' = "top", UNCHANGED published_scope
    PROVE  KeepsDebts /\ Promise!ParkChecker
  <1>1. RefreshPublished /\ OwedNow \subseteq {"checker"} /\ RefreshPublished'
    BY OptionalPublished, AdvancePublished DEF Parks
  <1>2. checker_paused' = TRUE /\ UNCHANGED checkerVars
    BY ParksOutcome DEF CallInv, Inv, Outstanding
  <1>3. Enrich = TRUE /\ ~checker_paused
    BY CoordinatorAssumption
       DEF Parks, CallInv, Inv, CoordinatorInv, DisabledOwesNothing, Slots,
           ParkedNeverChecks
  <1>4. OwedNow' = OwedNow
    BY <1>1, <1>2 DEF OwedNow, checkerVars
  <1> QED
    BY <1>1, <1>2, <1>3, <1>4, MaySettleAfter DEF Promise!ParkChecker, KeepsDebts

(* A checker publication pays the checker's debt.                          *)
LEMMA CheckerPays ==
    ASSUME CallInv, Inv', FinishEnrichmentSuccess, pc' = "top",
           UNCHANGED published_scope
    PROVE  KeepsDebts /\ Promise!PublishChecker
  <1>1. RefreshPublished /\ OwedNow \subseteq {"checker"} /\ RefreshPublished'
    BY OptionalPublished, AdvancePublished DEF FinishEnrichmentSuccess, FinishesPhase
  <1>2. ~checker_paused
    BY DEF FinishEnrichmentSuccess, CallInv, Inv, ParkedNeverChecks
  <1>3. checker_paused' = FALSE
    BY <1>2 DEF FinishEnrichmentSuccess, parkVars, CallInv, Inv, Outstanding,
                CoordinatorTypeOK
  <1>4. OwedNow' = {}
    BY <1>1 DEF FinishEnrichmentSuccess, OwedNow
  <1> QED
    BY <1>1, <1>2, <1>3, <1>4, MaySettleAfter DEF Promise!PublishChecker, KeepsDebts

(* A successful refresh is the index publication that was owed.            *)
LEMMA IndexPays ==
    ASSUME CallInv, Inv', RefreshSucceeds
    PROVE  Promise!PublishIndex
  <1>1. /\ Current(active) /\ active.phase = "refresh" /\ pc = "refresh"
        /\ pc' = "refreshed" /\ active \in Work /\ active.scope = refresh_scope
        /\ ready = None /\ retry = None
        /\ desired_generation # completed_generation
    BY DEF RefreshSucceeds, CallInv, RefreshIsCurrent, LoopInv, RefreshRuns,
           ScopeFollowsWork, Slots, Inv, Outstanding, OneOutstanding,
           CoordinatorTypeOK, Current, Work
  <1>2. PICK read \in [AllKinds -> 0 .. MaxEdits] :
           /\ published_scope' = EffectiveScope(read)
           /\ ObserveCheckerSnapshot(CodeDigest(IndexOf(read, EffectiveScope(read))))
    BY DEF RefreshSucceeds
  <1> DEFINE snapshot == CodeDigest(IndexOf(read, EffectiveScope(read)))
             released == checker_paused /\ checker_snapshot # None
                            /\ checker_snapshot # snapshot
  <1>3. ~RefreshPublished /\ RefreshPublished'
    BY <1>1, <1>2 DEF RefreshPublished, Current, ObserveCheckerSnapshot, workVars
  <1>4. /\ published_scope' \in {"incremental", "full"}
        /\ refresh_scope = "full" => published_scope' = "full"
    BY <1>1, <1>2 DEF EffectiveScope, Work, Scopes
  <1>5. /\ checker_paused' = (checker_paused /\ ~released)
        /\ checker_refresh_required' = (checker_refresh_required \/ released)
        /\ checker_dirty_source_paths' = checker_dirty_source_paths
    BY <1>2 DEF ObserveCheckerSnapshot
  <1>6. released \in BOOLEAN /\ (released => checker_paused)
    OBVIOUS
  <1> HIDE DEF released
  <1>7. OwedNow' = (OwedNow \ {"index", "full"})
                      \cup (IF released THEN {"checker"} ELSE {})
    BY <1>3, <1>5 DEF OwedNow
  <1>8. "index" \in OwedNow /\ ("full" \in OwedNow => published_scope' = "full")
    BY <1>3, <1>4 DEF OwedNow
  <1> QED
    BY <1>4, <1>5, <1>6, <1>7, <1>8, MaySettleAfter DEF Promise!PublishIndex

(* Taking up work neither pays nor adds a debt.                            *)
LEMMA StartWorkDebts ==
    ASSUME CallInv, Inv', StartWork
    PROVE  KeepsDebts /\ [Promise!ObligationsNext]_(Promise!obligationVars)
  <1>1. /\ active = None /\ pc = "next" /\ UNCHANGED published_scope
        /\ NextWork /\ Current(active)'
        /\ pc' = IF active'.phase = "refresh" THEN "refresh" ELSE "phase"
    BY TakenWork DEF StartWork, indexVars, CallInv
  <1>2. /\ UNCHANGED <<desired_generation, completed_generation, refresh_scope,
                       checkerVars, parkVars>>
        /\ desired_generation # completed_generation
    BY <1>1 DEF NextWork, TakeReady, TakeRetry, TakeRefresh, DueRefresh, DueRetry,
                scopeVars, CallInv, Inv, Outstanding, OneOutstanding,
                CoordinatorTypeOK, Work, Current
  <1>3. RefreshPublished' = RefreshPublished
    <2>1. CASE TakeReady
      BY <1>1, <1>2, <2>1 DEF TakeReady, RefreshPublished, Current, CallInv, Inv,
                              RebindInv, ReadyFollowsRefresh
    <2>2. CASE TakeRetry
      BY <1>1, <1>2, <2>2 DEF TakeRetry, RefreshPublished, Current
    <2>3. CASE TakeRefresh
      <3>1. active'.phase = "refresh" /\ ready' = None /\ retry' = None
        BY <2>3, RefreshWorkType DEF TakeRefresh, CallInv, Inv, Outstanding
      <3>2. ~Current(active) /\ ~Current(ready) /\ ~Current(retry)
        BY <1>1, <2>3 DEF TakeRefresh, DueRefresh, Current
      <3> QED
        BY <1>1, <1>2, <3>1, <3>2 DEF RefreshPublished, Current
    <2> QED
      BY <1>1, <2>1, <2>2, <2>3 DEF NextWork
  <1>4. OwedNow' = OwedNow
    BY <1>2, <1>3 DEF OwedNow, checkerVars
  <1> QED
    BY <1>1, <1>2, <1>4, SameDebts DEF parkVars, IsClean

(* Every other step leaves the coordinator and the publication alone.      *)
LEMMA QuietDebts ==
    ASSUME UNCHANGED <<desired_generation, completed_generation, workVars,
                       refresh_scope, checkerVars, parkVars, published_scope>>,
           pc' = pc \/ {pc, pc'} \subseteq {"top", "drain", "next", "wait", "phase",
                                          "stopped"}
    PROVE  KeepsDebts /\ UNCHANGED Promise!obligationVars
  <1>1. RefreshPublished' = RefreshPublished
    BY DEF RefreshPublished, Current, workVars
  <1>2. IsClean' = IsClean
    BY DEF IsClean, workVars
  <1>3. OwedNow' = OwedNow
    BY <1>1 DEF OwedNow, checkerVars
  <1> QED
    BY <1>2, <1>3 DEF Promise!obligationVars, parkVars, KeepsDebts

LEMMA ObligationsStep ==
    ASSUME CallInv, Inv', Next
    PROVE  /\ [Promise!ObligationsNext]_(Promise!obligationVars)
           /\ RefreshSucceeds \/ KeepsDebts
  <1>1. CASE StartFlush \/ StartReconciliation \/ DrainEvent \/ WaitEvent
    <2>1. Signals
      BY <1>1, LoopSignals DEF DrainEvent, WaitEvent, CallInv
    <2>2. pc # "refresh" /\ UNCHANGED published_scope
      BY <1>1 DEF StartFlush, StartReconciliation, DrainEvent, WaitEvent, IngestEvent,
                  indexVars
    <2> QED
      BY <2>1, <2>2, SignalObliges DEF Promise!ObligationsNext
  <1>2. CASE StartWork
    BY <1>2, StartWorkDebts
  <1>3. CASE RefreshSucceeds
    BY <1>3, IndexPays DEF Promise!ObligationsNext
  <1>4. CASE EndRefresh
    BY <1>4, FinishDebts, SupersededDebts DEF EndRefresh, AfterPhase, indexVars
  <1>5. CASE RefreshFails
    <2>1. active.phase = "refresh"
      BY <1>5 DEF RefreshFails, CallInv, LoopInv, RefreshRuns
    <2> QED
      BY <1>5, <2>1, RetryDebts
         DEF RefreshFails, FinishError, AttemptsExhausted, AfterPhase, indexVars
  <1>6. CASE EmbeddingEnds
    BY <1>6, FinishDebts, SupersededDebts
       DEF EmbeddingEnds, AfterPhase, indexVars
  <1>7. CASE EnrichmentSucceeds
    BY <1>7, CheckerPays, SupersededDebts
       DEF EnrichmentSucceeds, AfterPhase, indexVars, Promise!ObligationsNext
  <1>8. CASE PhaseFails
    BY <1>8, ParkDebts, RetryDebts, SupersededDebts
       DEF PhaseFails, FinishError, AttemptsExhausted, Parks, AfterPhase, indexVars,
           Promise!ObligationsNext
  <1>9. CASE EnrichmentTerminal
    BY <1>9, ParkDebts, SupersededDebts
       DEF EnrichmentTerminal, FinishOptionalPartial, Parks, AfterPhase, indexVars,
           Promise!ObligationsNext
  <1>10. CASE SkipTimers \/ EndDrain \/ Idle \/ WaitTimeout \/ ReconcileDue
              \/ FlushDue \/ Edit \/ EditMissed \/ Interrupt
    BY <1>10, QuietDebts
       DEF SkipTimers, EndDrain, Idle, WaitTimeout, ReconcileDue, FlushDue, Edit,
           EditMissed, Change, Interrupt, coordinatorVars, scopeVars, indexVars
  <1>11. CASE TimePasses
    BY <1>11, QuietDebts DEF TimePasses, Elapse, loopVars, indexVars, scopeVars
  <1> QED
    BY <1>1, <1>2, <1>3, <1>4, <1>5, <1>6, <1>7, <1>8, <1>9, <1>10, <1>11
       DEF Next, LoopStep, Clocks, Environment

(***************************************************************************)
(* The loop implements the obligations of the watcher: every change is     *)
(* owed an index publication, a boundary a full one, a checker input a     *)
(* checker publication, and whatever events, failures, retries, timers and *)
(* supersessions come between, only the publication that was owed, or for  *)
(* the checker a parked one, lets the watcher settle.                      *)
(***************************************************************************)
THEOREM LoopKeepsObligations == Spec => KeepsObligations
  <1>1. Init => Promise!ObligationsInit
    <2>1. Init => ~RefreshPublished
      BY DEF Init, CoordinatorInit, RefreshPublished, Current
    <2> QED
      BY <2>1, CoordinatorAssumption
         DEF Init, CoordinatorInit, OwedNow, IsClean, Promise!ObligationsInit
  <1>2. CallInv /\ [Next]_vars => CallInv'
    BY CallInvStep
  <1>3. CallInv /\ CallInv' /\ [Next]_vars
           => [Promise!ObligationsNext]_(Promise!obligationVars)
    <2>1. UNCHANGED vars => UNCHANGED Promise!obligationVars
      BY QuietDebts DEF vars, loopVars, indexVars, coordinatorVars, scopeVars
    <2> QED
      BY <2>1, ObligationsStep DEF CallInv
  <1> QED
    BY CallInvInit, <1>1, <1>2, <1>3, PTL
       DEF Spec, KeepsObligations, Promise!ObligationsSpec

-----------------------------------------------------------------------------
(***************************************************************************)
(* A quiet watcher has caught up (Converged of WatchLoop), for any number  *)
(* of edits, failures, retries and generations.                            *)
(*                                                                         *)
(* The inductive invariant says where every difference between the working *)
(* tree and what is published is remembered: as a lost notification, as a  *)
(* notification in the channel, or as a debt of the coordinator.  A quiet  *)
(* watcher has none of the three.                                          *)
(***************************************************************************)

(* Versions are read in order.                                             *)
Ordered ==
    /\ disk \in Versions /\ seen \in Versions
    /\ \A k \in AllKinds : index[k] <= disk[k]
    /\ pc = "refresh" => \A k \in AllKinds : index[k] <= seen[k] /\ seen[k] <= disk[k]
    /\ docs_policy = index["config"]

CheckerOrdered ==
    /\ answered \in Answers \cup {None}
    /\ checker \in Publications \cup {None}
    /\ checker # None =>
          /\ checker.inputs <= disk["boundary"]
          /\ pc = "refresh" => checker.inputs <= seen["boundary"]

(* An edit is tracked until the loop reads its notification.               *)
Reported(k) ==
    IF k = "boundary" THEN \E i \in DOMAIN channel : channel[i].scope = "full"
    ELSE channel # <<>>

Tracked(k) == k \in missed \/ Reported(k)

Due(k) == (IF k = "boundary" THEN "full" ELSE "index") \in OwedNow

IndexTracked ==
    /\ \A k \in AllKinds : index[k] # disk[k] => Tracked(k) \/ Due(k)
    /\ pc = "refresh" => \A k \in AllKinds : seen[k] # disk[k] => Tracked(k)

-----------------------------------------------------------------------------
(* The steps by what they do to the tree, the channel and the index.       *)
TimerSignal == StartFlush \/ StartReconciliation
Ingests     == DrainEvent \/ WaitEvent
PhaseEnds   == EndRefresh \/ RefreshFails \/ EmbeddingEnds \/ PhaseFails
Quiet       == SkipTimers \/ EndDrain \/ Idle \/ WaitTimeout \/ ReconcileDue
                  \/ FlushDue \/ Interrupt \/ TimePasses

LEMMA LoopCases ==
    ASSUME Next
    PROVE  \/ TimerSignal \/ Ingests \/ PhaseEnds \/ Quiet \/ StartWork
           \/ RefreshSucceeds \/ EnrichmentSucceeds \/ EnrichmentTerminal
           \/ Edit \/ EditMissed
  BY DEF Next, LoopStep, Clocks, Environment, TimerSignal, Ingests, PhaseEnds, Quiet

LEMMA TimerSignalFrame ==
    ASSUME TimerSignal
    PROVE  /\ UNCHANGED <<channel, seen, indexVars, checkerPlane, worldVars>>
           /\ pc = "top" /\ pc' = "drain"
  BY DEF TimerSignal, StartFlush, StartReconciliation

LEMMA IngestsFrame ==
    ASSUME Ingests
    PROVE  /\ channel # <<>> /\ channel' = Tail(channel)
           /\ MarkDirty(Head(channel), FALSE)
           /\ UNCHANGED <<seen, indexVars, checkerPlane, worldVars>>
           /\ pc # "refresh" /\ pc' # "refresh"
  BY DEF Ingests, DrainEvent, WaitEvent, IngestEvent

LEMMA PhaseEndsFrame ==
    ASSUME PhaseEnds
    PROVE  /\ UNCHANGED <<channel, seen, indexVars, checkerPlane, worldVars>>
           /\ pc' = "top"
  BY DEF PhaseEnds, EndRefresh, RefreshFails, EmbeddingEnds, PhaseFails, AfterPhase

LEMMA QuietFrame ==
    ASSUME Quiet
    PROVE  /\ UNCHANGED <<channel, seen, indexVars, checkerPlane, worldVars>>
           /\ UNCHANGED <<desired_generation, completed_generation, workVars,
                          scopeVars, checkerVars, parkVars, force_full_enrichment>>
           /\ pc' = pc \/ {pc, pc'} \cap {"refresh", "refreshed"} = {}
  BY DEF Quiet, SkipTimers, EndDrain, Idle, WaitTimeout, ReconcileDue, FlushDue,
         Interrupt, TimePasses, Elapse, loopVars, coordinatorVars

LEMMA StartWorkFrame ==
    ASSUME StartWork
    PROVE  /\ UNCHANGED <<channel, indexVars, checkerPlane, worldVars>>
           /\ seen' = disk
  BY DEF StartWork

(* The versions an edit writes, and the notification it may cause.         *)
LEMMA EditFrame ==
    ASSUME Edit \/ EditMissed
    PROVE  /\ UNCHANGED <<coordinatorVars, pc, seen, indexVars, checkerPlane>>
           /\ \E kind \in Kinds :
                 /\ disk' = [disk EXCEPT ![kind] = @ + 1]
                 /\ \/ /\ kind \in Missable /\ missed = {} /\ missed' = {kind}
                       /\ channel' = channel
                    \/ /\ missed' = missed
                       /\ \E signal \in {SignalOf(kind), WatchErrorSignal} :
                             channel' = Append(channel, signal)
  BY DEF Edit, EditMissed, Change

-----------------------------------------------------------------------------
LEMMA OrderedStep ==
    ASSUME LoopInv, Ordered, Next
    PROVE  Ordered'
  <1>1. CASE TimerSignal \/ Ingests \/ PhaseEnds \/ Quiet
    BY <1>1, TimerSignalFrame, IngestsFrame, PhaseEndsFrame, QuietFrame
       DEF Ordered, indexVars, worldVars
  <1>2. CASE StartWork
    BY <1>2, StartWorkFrame DEF Ordered, indexVars, worldVars, Versions
  <1>3. CASE RefreshSucceeds
    <2>1. PICK read \in [AllKinds -> 0 .. MaxEdits] :
             /\ \A k \in AllKinds : seen[k] <= read[k] /\ read[k] <= disk[k]
             /\ index' = IndexOf(read, EffectiveScope(read))
             /\ docs_policy' = read["config"]
      BY <1>3 DEF RefreshSucceeds
    <2>2. UNCHANGED <<disk, seen>> /\ pc' = "refreshed"
      BY <1>3 DEF RefreshSucceeds
    <2>3. \A k \in AllKinds : index'[k] <= disk[k]
      BY <2>1 DEF Ordered, IndexOf
    <2>4. index'["config"] = read["config"]
      BY <2>1 DEF IndexOf, EffectiveScope, Ordered, AllKinds, FullOnly
    <2> QED
      BY <2>1, <2>2, <2>3, <2>4 DEF Ordered
  <1>4. CASE EnrichmentSucceeds \/ EnrichmentTerminal
    BY <1>4 DEF EnrichmentSucceeds, EnrichmentTerminal, AfterPhase, Ordered,
                indexVars, worldVars
  <1>5. CASE Edit \/ EditMissed
    <2>1. PICK kind \in Kinds : disk' = [disk EXCEPT ![kind] = @ + 1]
      BY <1>5, EditFrame
    <2>2. UNCHANGED <<pc, seen, index, docs_policy>>
      BY <1>5, EditFrame DEF indexVars
    <2>3. disk' \in Versions /\ \A k \in AllKinds : disk[k] <= disk'[k]
      <3>1. \A k \in AllKinds : disk[k] \in Nat
        BY DEF Ordered, Versions
      <3>2. \A k \in AllKinds : disk'[k] = disk[k] \/ disk'[k] = disk[k] + 1
        BY <2>1, <3>1 DEF Ordered, Versions
      <3>3. disk' = [k \in AllKinds |-> disk'[k]]
        BY <2>1 DEF Ordered, Versions
      <3> QED
        BY <3>1, <3>2, <3>3 DEF Versions
    <2>4. \A k \in AllKinds : index[k] \in Nat /\ seen[k] \in Nat
                                /\ disk[k] \in Nat /\ disk'[k] \in Nat
      BY <2>3 DEF Ordered, Versions, LoopInv
    <2>5. \A k \in AllKinds : index[k] <= disk'[k]
      BY <2>3, <2>4 DEF Ordered
    <2>6. pc = "refresh" => \A k \in AllKinds : seen[k] <= disk'[k]
      BY <2>3, <2>4 DEF Ordered
    <2> QED
      BY <2>2, <2>3, <2>5, <2>6 DEF Ordered
  <1> QED
    BY <1>1, <1>2, <1>3, <1>4, <1>5, LoopCases

-----------------------------------------------------------------------------
(* The index.                                                              *)

(* What the index is owed stays owed, but for an index publication.        *)
LEMMA DueKept ==
    ASSUME CallInv, Inv', Next, ~RefreshSucceeds, NEW k \in AllKinds, Due(k)
    PROVE  Due(k)'
  BY ObligationsStep DEF KeepsDebts, Due

(* A notification that is read becomes a debt.                             *)
LEMMA IngestOwes ==
    ASSUME CallInv, Ingests, NEW k \in AllKinds, Reported(k)
    PROVE  Reported(k)' \/ Due(k)'
  <1>1. /\ channel # <<>> /\ channel' = Tail(channel)
        /\ MarkDirty(Head(channel), FALSE)
    BY IngestsFrame
  <1>2. ~RefreshPublished'
    BY LoopSignals, SignalSupersedes, MarkDirtyOutcome
       DEF Ingests, DrainEvent, WaitEvent, CallInv, LoopInv, Outstanding,
           RefreshPublished
  <1>3. CASE k # "boundary"
    BY <1>2, <1>3 DEF Due, OwedNow
  <1>4. CASE k = "boundary"
    <2>1. PICK i \in DOMAIN channel : channel[i].scope = "full"
      BY <1>4 DEF Reported
    <2>2. channel \in Seq(EventSignals)
      BY DEF CallInv, LoopInv
    <2>3. CASE i = 1
      <3>1. Head(channel).scope = "full"
        BY <2>1, <2>2, <2>3
      <3>2. refresh_scope' = "full"
        BY <1>1, <3>1 DEF MarkDirty, MaxScope
      <3> QED
        BY <1>2, <1>4, <3>2 DEF Due, OwedNow
    <2>4. CASE i # 1
      <3>1. i - 1 \in DOMAIN Tail(channel) /\ Tail(channel)[i - 1] = channel[i]
        BY <1>1, <2>2, <2>1, <2>4
      <3> QED
        BY <1>1, <1>4, <2>1, <3>1 DEF Reported
    <2> QED
      BY <2>3, <2>4
  <1> QED
    BY <1>3, <1>4

(* An edit is reported, or lost; what was tracked before it still is.      *)
LEMMA EditTracked ==
    ASSUME LoopInv, Ordered, Edit \/ EditMissed, NEW k \in AllKinds,
           Tracked(k) \/ disk'[k] # disk[k]
    PROVE  Tracked(k)'
  <1>1. PICK kind \in Kinds :
           /\ disk' = [disk EXCEPT ![kind] = @ + 1]
           /\ \/ /\ kind \in Missable /\ missed = {} /\ missed' = {kind}
                 /\ channel' = channel
              \/ /\ missed' = missed
                 /\ \E signal \in {SignalOf(kind), WatchErrorSignal} :
                       channel' = Append(channel, signal)
    BY EditFrame
  <1>2. kind \in AllKinds /\ (disk'[k] # disk[k] => k = kind)
    BY <1>1, LoopAssumption DEF LoopAssumption, Ordered, Versions
  <1>3. CASE missed' = {kind} /\ missed = {} /\ channel' = channel
    BY <1>2, <1>3 DEF Tracked, Reported
  <1>4. ASSUME missed' = missed,
               NEW signal \in {SignalOf(kind), WatchErrorSignal},
               channel' = Append(channel, signal)
        PROVE  Tracked(k)'
    <2>1. signal \in EventSignals /\ channel \in Seq(EventSignals)
      BY <1>4, SignalOfType DEF LoopInv
    <2>2. /\ channel' \in Seq(EventSignals) /\ channel' # <<>>
          /\ Len(channel') = Len(channel) + 1
          /\ channel'[Len(channel) + 1] = signal
          /\ \A i \in 1 .. Len(channel) : channel'[i] = channel[i]
      BY <1>4, <2>1, AppendProperties
    <2>3. CASE k # "boundary"
      BY <2>2, <2>3 DEF Tracked, Reported
    <2>4. CASE k = "boundary" /\ Tracked(k)
      <3>1. CASE k \in missed
        BY <1>4, <3>1 DEF Tracked
      <3>2. CASE Reported(k)
        <4>1. PICK i \in DOMAIN channel : channel[i].scope = "full"
          BY <2>4, <3>2 DEF Reported
        <4>2. i \in DOMAIN channel' /\ channel'[i].scope = "full"
          BY <2>1, <2>2, <4>1
        <4> QED
          BY <2>4, <4>2 DEF Tracked, Reported
      <3> QED
        BY <2>4, <3>1, <3>2 DEF Tracked
    <2>5. CASE k = "boundary" /\ kind = "boundary"
      <3>1. signal.scope = "full"
        BY <2>5, <1>4 DEF SignalOf, FullSignal, WatchErrorSignal, Notice
      <3>2. Len(channel) + 1 \in DOMAIN channel'
        BY <2>1, <2>2
      <3> QED
        BY <2>2, <2>5, <3>1, <3>2 DEF Tracked, Reported
    <2> QED
      BY <1>2, <2>3, <2>4, <2>5
  <1> QED
    BY <1>1, <1>3, <1>4

(* A publication leaves out only what is tracked.                          *)
LEMMA RefreshTracked ==
    ASSUME CallInv, Ordered, IndexTracked, RefreshSucceeds
    PROVE  \A k \in AllKinds : index'[k] # disk'[k] => Tracked(k)'
  <1>1. PICK read \in [AllKinds -> 0 .. MaxEdits] :
           /\ \A k \in AllKinds : seen[k] <= read[k] /\ read[k] <= disk[k]
           /\ index' = IndexOf(read, EffectiveScope(read))
           /\ missed' = {k \in missed : index'[k] # disk[k] \/ (Enrich /\ k = "source")}
    BY DEF RefreshSucceeds
  <1>2. /\ UNCHANGED <<disk, channel>> /\ pc = "refresh"
        /\ Current(active) /\ active.scope = refresh_scope
        /\ active.phase = "refresh" /\ ready = None /\ retry = None
        /\ desired_generation # completed_generation
    BY DEF RefreshSucceeds, CallInv, RefreshIsCurrent, ScopeFollowsWork, Slots, Current,
           LoopInv, RefreshRuns, Outstanding, OneOutstanding, CoordinatorTypeOK, Work
  <1>3. \A k \in AllKinds : seen[k] # disk[k] => Tracked(k)
    BY <1>2 DEF IndexTracked
  <1>4. ASSUME NEW k \in AllKinds, index'[k] # disk[k] PROVE Tracked(k)
    <2>1. CASE index'[k] = read[k]
      <3>1. seen[k] \in Nat /\ read[k] \in Nat /\ disk[k] \in Nat
        BY <1>1 DEF Ordered, Versions
      <3>2. seen[k] # disk[k]
        BY <1>1, <1>4, <2>1, <3>1
      <3> QED
        BY <1>3, <3>2
    <2>2. CASE index'[k] # read[k]
      <3>1. /\ k \in FullOnly /\ EffectiveScope(read) # "full"
            /\ index'[k] = index[k]
        BY <1>1, <2>2 DEF IndexOf
      <3>2. k # "config"
        BY <2>2, <3>1 DEF EffectiveScope, Ordered
      <3>3. k = "boundary" /\ refresh_scope # "full"
        BY <1>2, <3>1, <3>2 DEF FullOnly, EffectiveScope
      <3>4. ~Due(k)
        BY <3>3 DEF Due, OwedNow
      <3> QED
        BY <1>4, <3>1, <3>4 DEF IndexTracked
    <2> QED
      BY <2>1, <2>2
  <1> QED
    BY <1>1, <1>2, <1>4 DEF Tracked, Reported

LEMMA IndexTrackedStep ==
    ASSUME CallInv, Inv', Ordered, IndexTracked, Next
    PROVE  IndexTracked'
  <1>1. CASE TimerSignal \/ PhaseEnds
    <2>1. UNCHANGED <<channel, index, disk, missed>> /\ pc' # "refresh"
      BY <1>1, TimerSignalFrame, PhaseEndsFrame DEF indexVars, worldVars
    <2>2. ~RefreshSucceeds
      BY <2>1, <1>1, TimerSignalFrame, PhaseEndsFrame DEF RefreshSucceeds
    <2> QED
      BY <2>1, <2>2, DueKept DEF IndexTracked, Tracked, Reported
  <1>2. CASE Ingests
    <2>1. UNCHANGED <<index, disk, missed>> /\ pc # "refresh" /\ pc' # "refresh"
      BY <1>2, IngestsFrame DEF indexVars, worldVars
    <2>2. ~RefreshSucceeds
      BY <2>1 DEF RefreshSucceeds
    <2> QED
      BY <1>2, <2>1, <2>2, DueKept, IngestOwes DEF IndexTracked, Tracked
  <1>3. CASE StartWork
    <2>1. UNCHANGED <<channel, index, disk, missed>> /\ seen' = disk' /\ pc = "next"
      BY <1>3, StartWorkFrame DEF indexVars, worldVars, StartWork
    <2>2. ~RefreshSucceeds
      BY <2>1 DEF RefreshSucceeds
    <2> QED
      BY <2>1, <2>2, DueKept DEF IndexTracked, Tracked, Reported
  <1>4. CASE Quiet
    <2>1. UNCHANGED <<channel, index, disk, missed, seen>>
      BY <1>4, QuietFrame DEF indexVars, worldVars
    <2>2. pc' = "refresh" => pc = "refresh"
      BY <1>4, QuietFrame
    <2>3. ~RefreshSucceeds
      BY <1>4, QuietFrame DEF RefreshSucceeds
    <2> QED
      BY <2>1, <2>2, <2>3, DueKept DEF IndexTracked, Tracked, Reported
  <1>5. CASE RefreshSucceeds
    BY <1>5, RefreshTracked DEF IndexTracked, RefreshSucceeds
  <1>6. CASE EnrichmentSucceeds
    <2>1. /\ UNCHANGED <<channel, index, disk>> /\ missed' = missed \ {"source"}
          /\ index["source"] = disk["source"] /\ pc = "phase" /\ pc' = "top"
      BY <1>6 DEF EnrichmentSucceeds, indexVars, InputsMatch, AfterPhase
    <2>2. ~RefreshSucceeds
      BY <2>1 DEF RefreshSucceeds
    <2> QED
      BY <2>1, <2>2, DueKept DEF IndexTracked, Tracked, Reported
  <1>7. CASE EnrichmentTerminal
    <2>1. /\ UNCHANGED <<channel, index, disk, missed>>
          /\ pc = "phase" /\ pc' = "top"
      BY <1>7 DEF EnrichmentTerminal, indexVars, worldVars, AfterPhase
    <2>2. ~RefreshSucceeds
      BY <2>1 DEF RefreshSucceeds
    <2> QED
      BY <2>1, <2>2, DueKept DEF IndexTracked, Tracked, Reported
  <1>8. CASE Edit \/ EditMissed
    <2>1. UNCHANGED <<pc, seen, index>> /\ UNCHANGED coordinatorVars
      BY <1>8, EditFrame DEF indexVars
    <2>2. \A k \in AllKinds : Due(k) => Due(k)'
      BY <2>1 DEF Due, OwedNow, RefreshPublished, Current, coordinatorVars, workVars,
                  scopeVars, checkerVars
    <2>3. \A k \in AllKinds : Tracked(k) \/ disk'[k] # disk[k] => Tracked(k)'
      BY <1>8, EditTracked DEF CallInv
    <2> QED
      BY <2>1, <2>2, <2>3 DEF IndexTracked
  <1> QED
    BY <1>1, <1>2, <1>3, <1>4, <1>5, <1>6, <1>7, <1>8, LoopCases

-----------------------------------------------------------------------------
(***************************************************************************)
(* The checker.  Its last answer is right, or a reason to ask again is     *)
(* coming: a lost or unread notification, or the backlog.  The carry-free  *)
(* requirement of a drift flush is such a reason too, until the generation *)
(* has passed its enrichment.  An answer is of the inputs now on disk; it  *)
(* is what is published, unless it was empty and kept what was.            *)
(***************************************************************************)
Signalled  == \E i \in DOMAIN channel : channel[i].refresh
CheckerDue == checker_refresh_required \/ checker_dirty_source_paths # {}
Coming     == "source" \in missed \/ Signalled \/ CheckerDue

Serves ==
    /\ checker # None
    /\ checker.digest = CodeDigest(index)
    /\ checker.inputs = disk["boundary"]

Right == AnswersCurrent /\ (~answered.kept => Serves)

Enriched == \E w \in Slots : Current(w) /\ w.phase = "semantic"

CheckerTracked ==
    Enrich =>
        /\ index["source"] # disk["source"] => Coming
        /\ ~checker_paused => Right \/ Coming \/ force_full_enrichment
        /\ ~checker_paused /\ Enriched => Right \/ Coming

(* A refresh that may not rebind is followed by an enrichment.             *)
RefreshPays ==
    Enrich /\ ~checker_paused =>
        \A w \in Slots : Current(w) /\ w.phase = "refresh" /\ ~w.rebind => Owed

(* Whatever enrichment is due or running, superseded or not, is still owed. *)
EnrichmentOwed ==
    \A w \in Slots : w # None /\ w.phase = "enrich" => Owed

(* Nothing makes an answer current without a refresh.                      *)
LEMMA RightKept ==
    ASSUME Right, UNCHANGED <<checkerPlane, index, disk>>
    PROVE  Right'
  BY DEF Right, AnswersCurrent, Serves, CodeDigest, checkerPlane

LEMMA PublicationType ==
    ASSUME LoopInv, Ordered
    PROVE  /\ Publication \in Publications /\ Publication # None
           /\ Publication.digest = CodeDigest(index)
           /\ Publication.inputs = disk["boundary"]
  <1>1. /\ index["source"] \in Nat /\ index["rust"] \in Nat
        /\ disk["boundary"] \in Nat
    BY DEF LoopInv, Ordered, Versions, AllKinds
  <1>2. Publication \in Publications
    BY <1>1 DEF Publication, Publications, CodeDigest
  <1> QED
    BY <1>2, LoopAssumption DEF LoopAssumption, Publication

(* What an enrichment answers for.                                         *)
LEMMA AnswerType ==
    ASSUME LoopInv, Ordered, NEW kept \in BOOLEAN
    PROVE  /\ Answer(kept) \in Answers /\ Answer(kept) # None
           /\ Answer(kept).digest = CodeDigest(index)
           /\ Answer(kept).inputs = disk["boundary"]
           /\ Answer(kept).kept = kept
  <1>1. /\ index["source"] \in Nat /\ index["rust"] \in Nat
        /\ disk["boundary"] \in Nat
    BY DEF LoopInv, Ordered, Versions, AllKinds
  <1>2. Answer(kept) \in Answers
    BY <1>1 DEF Answer, Answers, CodeDigest
  <1> QED
    BY <1>2, LoopAssumption DEF LoopAssumption, Answer

LEMMA CheckerOrderedStep ==
    ASSUME LoopInv, Ordered, CheckerOrdered, Next
    PROVE  CheckerOrdered'
  <1>0. disk["boundary"] \in Nat /\ seen["boundary"] \in Nat
    BY DEF Ordered, Versions, AllKinds
  <1>1. CASE TimerSignal \/ Ingests \/ PhaseEnds \/ Quiet \/ StartWork
    <2>1. UNCHANGED <<checker, answered, disk>>
      BY <1>1, TimerSignalFrame, IngestsFrame, PhaseEndsFrame, QuietFrame,
         StartWorkFrame DEF worldVars, checkerPlane
    <2>2. pc' = "refresh" => seen' = disk \/ (seen' = seen /\ pc = "refresh")
      BY <1>1, TimerSignalFrame, IngestsFrame, PhaseEndsFrame, QuietFrame, StartWorkFrame
    <2> QED
      BY <2>1, <2>2 DEF CheckerOrdered
  <1>2. CASE RefreshSucceeds
    <2>1. UNCHANGED <<seen, disk, answered>> /\ pc' = "refreshed"
      BY <1>2 DEF RefreshSucceeds
    <2>2. PICK next \in [AllKinds -> 0 .. MaxEdits], read \in [AllKinds -> 0 .. MaxEdits] :
             checker' = CheckerAfter(read, next)
      BY <1>2, IndexOfType DEF RefreshSucceeds, LoopInv
    <2>3. CodeDigest(next) \in Nat \X Nat
      BY DEF CodeDigest, AllKinds
    <2>4. \/ checker' \in {checker, None}
          \/ checker # None /\ checker' = [checker EXCEPT !.digest = CodeDigest(next)]
      BY <2>2 DEF CheckerAfter, CanRebind
    <2>5. CASE checker' \in {checker, None}
      BY <2>1, <2>5 DEF CheckerOrdered
    <2>6. CASE checker # None /\ checker' = [checker EXCEPT !.digest = CodeDigest(next)]
      <3>1. checker \in Publications
        BY <2>6 DEF CheckerOrdered
      <3>2. checker' \in Publications /\ checker'.inputs = checker.inputs
        BY <2>3, <2>6, <3>1 DEF Publications
      <3> QED
        BY <2>1, <2>6, <3>2 DEF CheckerOrdered
    <2> QED
      BY <2>4, <2>5, <2>6
  <1>3. CASE EnrichmentSucceeds \/ EnrichmentTerminal
    <2>1. checker' \in {checker, Publication} /\ pc' = "top" /\ disk' = disk
      BY <1>3 DEF EnrichmentSucceeds, EnrichmentTerminal, AfterPhase, worldVars,
                  checkerPlane
    <2>2. answered' \in {answered, None, Answer(FALSE), Answer(TRUE)}
      BY <1>3 DEF EnrichmentSucceeds, EnrichmentTerminal, checkerPlane
    <2>3. answered' \in Answers \cup {None}
      BY <2>2, AnswerType DEF CheckerOrdered
    <2> QED
      BY <1>0, <2>1, <2>3, PublicationType DEF CheckerOrdered
  <1>4. CASE Edit \/ EditMissed
    <2>1. PICK kind \in Kinds : disk' = [disk EXCEPT ![kind] = @ + 1]
      BY <1>4, EditFrame
    <2>2. UNCHANGED <<pc, seen, checker, answered>>
      BY <1>4, EditFrame DEF checkerPlane
    <2>3. disk'["boundary"] \in {disk["boundary"], disk["boundary"] + 1}
      BY <2>1, <1>0 DEF Ordered, Versions, AllKinds
    <2>4. checker # None => checker.inputs \in Nat
      BY DEF CheckerOrdered, Publications
    <2> QED
      BY <1>0, <2>2, <2>3, <2>4 DEF CheckerOrdered
  <1> QED
    BY <1>1, <1>2, <1>3, <1>4, LoopCases

LEMMA RefreshPaysStep ==
    ASSUME Inv, RefreshPays, CoordinatorNext
    PROVE  RefreshPays'
  <1> USE DEF RefreshPays, Slots, Current, Inv
  <1>1. CASE Signals
    BY <1>1, SignalSupersedes
  <1>2. CASE Elapse
    BY <1>2 DEF Elapse, workVars, checkerVars, parkVars, Owed
  <1>3. CASE TakeReady
    BY <1>3 DEF TakeReady, checkerVars, parkVars, Owed
  <1>4. CASE TakeRetry
    BY <1>4 DEF TakeRetry, DueRetry, checkerVars, parkVars, Owed
  <1>5. CASE TakeRefresh
    <2>1. active'.rebind = (Enrich /\ ~checker_paused /\ ~NeedsEnrichment)
      BY <1>5, RefreshWorkType DEF TakeRefresh, Outstanding
    <2>2. Enrich /\ ~checker_paused /\ ~active'.rebind => Owed
      BY <2>1 DEF NeedsEnrichment, Owed
    <2>3. /\ ready' = None /\ retry' = None
          /\ Enrich /\ ~checker_paused' /\ ~active'.rebind => Owed'
      BY <1>5, <2>2 DEF TakeRefresh, checkerVars, parkVars, Owed
    <2> QED
      BY <2>3
  <1>6. CASE Observes
    <2>1. UNCHANGED <<workVars, desired_generation>>
      BY <1>6 DEF Observes, ObserveCheckerSnapshot
    <2>2. checker_paused /\ ~checker_paused' => Owed'
      BY <1>6 DEF Observes, ObserveCheckerSnapshot, Owed
    <2>3. Owed => Owed'
      <3>1. /\ UNCHANGED <<checker_dirty_source_paths, force_full_enrichment>>
            /\ checker_refresh_required => checker_refresh_required'
        BY <1>6 DEF Observes, ObserveCheckerSnapshot
      <3> QED
        BY <3>1 DEF Owed
    <2>4. UNCHANGED <<active, ready, retry, desired_generation>>
      BY <2>1 DEF workVars
    <2>5. CASE checker_paused
      BY <2>2, <2>5
    <2>6. CASE ~checker_paused
      BY <2>3, <2>4, <2>6
    <2> QED
      BY <2>5, <2>6
  <1>7. CASE Superseded
    BY <1>7 DEF Superseded, checkerVars, parkVars, Owed
  <1>8. CASE FinishesPhase
    <2>1. /\ active' = None /\ retry' = None
          /\ Continues(partial_generation) \/ Ends(partial_generation \/ checker_paused)
          /\ active.phase \in Phases /\ NeedsEnrichment \in BOOLEAN
      BY <1>8, FinishOutcome, ActivePhase DEF Outstanding
    <2> QED
      BY <2>1, PhaseAfterType DEF Continues, Ends
  <1>9. CASE Parks
    BY <1>9, ParksOutcome DEF Outstanding
  <1>10. CASE Retries
    BY <1>10 DEF Retries, ScheduleRetry, checkerVars, parkVars, Owed
  <1> QED
    BY <1>1, <1>2, <1>3, <1>4, <1>5, <1>6, <1>7, <1>8, <1>9, <1>10, StepCases
       DEF FinishesPhase

(* An enrichment is begun only if one is owed, and only its success, or its *)
(* parking, ends what it is owed.                                          *)
LEMMA EnrichmentOwedStep ==
    ASSUME Inv, EnrichmentOwed, CoordinatorNext
    PROVE  EnrichmentOwed'
  <1> USE DEF EnrichmentOwed, Slots, Inv
  <1>1. CASE Signals
    <2>1. active' = active /\ ready' = None /\ retry' = None
      BY <1>1, MarkDirtyOutcome DEF Outstanding
    <2>2. Owed => Owed'
      BY <1>1 DEF Signals, MarkDirty, Owed
    <2> QED
      BY <2>1, <2>2
  <1>2. CASE Elapse
    BY <1>2 DEF Elapse, workVars, checkerVars, parkVars, Owed
  <1>3. CASE TakeReady
    BY <1>3 DEF TakeReady, checkerVars, parkVars, Owed
  <1>4. CASE TakeRetry
    BY <1>4 DEF TakeRetry, DueRetry, checkerVars, parkVars, Owed
  <1>5. CASE TakeRefresh
    BY <1>5, RefreshWorkType DEF TakeRefresh, checkerVars, parkVars, Owed, Outstanding
  <1>6. CASE Observes
    <2>1. UNCHANGED workVars
      BY <1>6 DEF Observes, ObserveCheckerSnapshot
    <2>2. Owed => Owed'
      <3>1. /\ UNCHANGED <<checker_dirty_source_paths, force_full_enrichment>>
            /\ checker_refresh_required => checker_refresh_required'
        BY <1>6 DEF Observes, ObserveCheckerSnapshot
      <3> QED
        BY <3>1 DEF Owed
    <2>3. UNCHANGED <<active, ready, retry>>
      BY <2>1 DEF workVars
    <2> QED
      BY <2>2, <2>3
  <1>7. CASE Superseded
    BY <1>7 DEF Superseded, checkerVars, parkVars, Owed
  <1>8. CASE FinishesPhase
    <2>1. /\ active' = None /\ retry' = None
          /\ Continues(partial_generation) \/ Ends(partial_generation \/ checker_paused)
          /\ active.phase \in Phases /\ NeedsEnrichment \in BOOLEAN
      BY <1>8, FinishOutcome, ActivePhase DEF Outstanding
    <2>2. CASE Continues(partial_generation) /\ ready'.phase = "enrich"
      <3>1. NeedsEnrichment /\ active.phase # "enrich"
        BY <2>1, <2>2, LastPhases, PhaseAfterType DEF Continues, PhaseAfter
      <3>2. UNCHANGED checkerVars /\ force_full_enrichment' = force_full_enrichment
        BY <1>8, <2>2, <3>1, FinishOutcome DEF Outstanding, Continues
      <3>3. Owed'
        BY <3>1, <3>2 DEF NeedsEnrichment, Owed, checkerVars
      <3> QED
        BY <3>3
    <2>3. CASE ready' = None \/ ready'.phase # "enrich"
      BY <2>1, <2>3
    <2>4. Ends(partial_generation \/ checker_paused) => ready' = None
      BY DEF Ends
    <2> QED
      BY <2>1, <2>2, <2>3, <2>4
  <1>9. CASE Parks
    <2>1. /\ active' = None /\ retry' = None
          /\ Continues(TRUE) \/ Ends(TRUE)
          /\ active.phase = "enrich" /\ NeedsEnrichment \in BOOLEAN
      BY <1>9, ParksOutcome, ActivePhase DEF Outstanding, Parks
    <2>2. Continues(TRUE) => ready'.phase # "enrich"
      BY <2>1 DEF Continues, PhaseAfter
    <2>3. Ends(TRUE) => ready' = None
      BY DEF Ends
    <2> QED
      BY <2>1, <2>2, <2>3
  <1>10. CASE Retries
    BY <1>10 DEF Retries, ScheduleRetry, checkerVars, parkVars, Owed
  <1> QED
    BY <1>1, <1>2, <1>3, <1>4, <1>5, <1>6, <1>7, <1>8, <1>9, <1>10, StepCases
       DEF FinishesPhase

(* A notification that may release the checker also owes it a publication. *)
LEMMA TriggerRefreshes ==
    ASSUME NEW signal \in EventSignals
    PROVE  signal.trigger => signal.refresh
  <1>1. ASSUME NEW a \in PathSignals PROVE a.trigger => a.refresh
    BY <1>1 DEF PathSignals, FullSignal, DocumentationSignal, RustMembershipSignal,
                InventorySignal, CheckerInputSignal, SourceSignal, Notice
  <1>2. CASE signal = WatchErrorSignal
    BY <1>2 DEF WatchErrorSignal, Notice
  <1>3. ASSUME NEW a \in PathSignals, NEW b \in PathSignals, signal = Merge(a, b)
        PROVE  signal.trigger => signal.refresh
    BY <1>1, <1>3 DEF Merge
  <1> QED
    BY <1>2, <1>3 DEF EventSignals

(* A step that only moves debts about keeps the checker tracked.           *)
LEMMA TrackedKept ==
    ASSUME CheckerTracked, UNCHANGED <<checkerPlane, index, disk>>,
           Enrich => (Coming => Coming'),
           ~checker_paused' => ~checker_paused,
           force_full_enrichment => force_full_enrichment',
           Enriched' => Enriched
    PROVE  CheckerTracked'
  BY RightKept DEF CheckerTracked

LEMMA SignalKeepsDebts ==
    ASSUME NEW signal, NEW immediate, MarkDirty(signal, immediate)
    PROVE  /\ CheckerDue => CheckerDue'
           /\ Enrich /\ signal.refresh => CheckerDue'
           /\ force_full_enrichment => force_full_enrichment'
           /\ checker_paused' = (checker_paused /\ ~signal.trigger)
  BY DEF MarkDirty, CheckerDue

LEMMA IngestTracks ==
    ASSUME CallInv, CheckerTracked, Ingests
    PROVE  CheckerTracked'
  <1>1. /\ channel # <<>> /\ channel' = Tail(channel)
        /\ MarkDirty(Head(channel), FALSE)
        /\ UNCHANGED <<checkerPlane, index, disk, missed>>
    BY IngestsFrame DEF indexVars, worldVars
  <1>2. channel \in Seq(EventSignals) /\ Head(channel) \in EventSignals
    BY <1>1, ChannelHead DEF CallInv, LoopInv
  <1>3. ~Enriched'
    <2>1. Signals
      BY LoopSignals DEF Ingests, DrainEvent, WaitEvent, CallInv
    <2> QED
      BY <2>1, SignalSupersedes DEF Enriched, Slots, CallInv, LoopInv
  <1>4. ASSUME Enrich, Coming PROVE Coming'
    <2>1. CASE "source" \in missed \/ CheckerDue
      BY <1>1, <2>1, SignalKeepsDebts DEF Coming
    <2>2. ASSUME NEW i \in DOMAIN channel, channel[i].refresh PROVE Coming'
      <3>1. CASE i = 1
        <4>1. Head(channel).refresh
          BY <1>2, <2>2, <3>1
        <4> QED
          BY <1>1, <1>4, <4>1, SignalKeepsDebts DEF Coming
      <3>2. CASE i # 1
        <4>1. i - 1 \in DOMAIN Tail(channel) /\ Tail(channel)[i - 1] = channel[i]
          BY <1>1, <1>2, <2>2, <3>2
        <4> QED
          BY <1>1, <2>2, <4>1 DEF Coming, Signalled
      <3> QED
        BY <3>1, <3>2
    <2> QED
      BY <1>4, <2>1, <2>2 DEF Coming, Signalled
  <1>6. CASE Head(channel).trigger
    <2>1. Enrich => Coming'
      BY <1>1, <1>2, <1>6, TriggerRefreshes, SignalKeepsDebts DEF Coming
    <2> QED
      BY <2>1 DEF CheckerTracked
  <1>7. CASE ~Head(channel).trigger
    <2>1. /\ ~checker_paused' => ~checker_paused
          /\ force_full_enrichment => force_full_enrichment'
      BY <1>1, <1>7, SignalKeepsDebts
    <2> QED
      BY <1>1, <1>3, <1>4, <2>1, TrackedKept
  <1> QED
    BY <1>6, <1>7

LEMMA TimerTracks ==
    ASSUME CallInv, CheckerTracked, TimerSignal
    PROVE  CheckerTracked'
  <1>1. UNCHANGED <<channel, checkerPlane, index, disk, missed>>
    BY TimerSignalFrame DEF indexVars, worldVars
  <1>2. PICK signal \in {DriftFlushSignal, ReconciliationSignal} : MarkDirty(signal, TRUE)
    BY DEF TimerSignal, StartFlush, StartReconciliation, MarkCheckerDriftFlush,
           MarkReconciliation
  <1>3. ~signal.trigger
    BY DEF DriftFlushSignal, ReconciliationSignal, Notice
  <1>4. /\ CheckerDue => CheckerDue'
        /\ force_full_enrichment => force_full_enrichment'
        /\ ~checker_paused' => ~checker_paused
    BY <1>2, <1>3, SignalKeepsDebts
  <1>5. ~Enriched'
    BY LoopSignals, SignalSupersedes DEF TimerSignal, Enriched, Slots, CallInv, LoopInv
  <1>6. Coming => Coming'
    BY <1>1, <1>4 DEF Coming, Signalled
  <1> QED
    BY <1>1, <1>4, <1>5, <1>6, TrackedKept

(* A phase that ends without a publication leaves the checker's reasons.   *)
LEMMA FinishTracks ==
    ASSUME CallInv, CheckerTracked, FinishRefresh \/ FinishOptional,
           UNCHANGED <<channel, checkerPlane, index, disk, missed>>
    PROVE  CheckerTracked'
  <1>1. /\ UNCHANGED <<checkerVars, parkVars>>
        /\ active.phase \in {"refresh", "embed", "semantic"} /\ Current(active)
    BY DEF FinishRefresh, FinishOptional
  <1>2. /\ active' = None /\ retry' = None /\ NeedsEnrichment \in BOOLEAN
        /\ desired_generation' = desired_generation
        /\ Continues(partial_generation) \/ Ends(partial_generation \/ checker_paused)
    BY FinishOutcome, ActivePhase
       DEF FinishesPhase, CallInv, LoopInv, Outstanding
  <1>3. (Coming' <=> Coming) /\ checker_paused' = checker_paused
    BY <1>1 DEF Coming, Signalled, CheckerDue, checkerVars, parkVars
  <1>4. SUFFICES ASSUME Enrich, ~checker_paused
                 PROVE  /\ Right \/ Coming \/ force_full_enrichment'
                        /\ Enriched' => Right \/ Coming
    BY <1>3, RightKept DEF CheckerTracked
  <1>5. NeedsEnrichment \/ ~force_full_enrichment
    BY <1>4 DEF NeedsEnrichment
  <1>6. CASE Continues(partial_generation)
    <2>1. ready'.phase = PhaseAfter(active.phase, NeedsEnrichment)
          /\ force_full_enrichment' = force_full_enrichment
      BY <1>6 DEF Continues
    <2>2. Enriched' => ~NeedsEnrichment
      BY <1>1, <1>2, <2>1, LastPhases DEF Enriched, Slots, Current, Phases
    <2> QED
      BY <1>4, <1>5, <2>1, <2>2 DEF CheckerTracked
  <1>7. CASE Ends(partial_generation \/ checker_paused)
    <2>1. PhaseAfter(active.phase, NeedsEnrichment) = "done" /\ ready' = None
      BY <1>7 DEF Ends
    <2>2. ~Enriched'
      BY <1>2, <2>1 DEF Enriched, Slots, Current
    <2>3. ~NeedsEnrichment \/ active.phase = "semantic"
      BY <1>1, <1>2, <2>1, LastPhases DEF Phases
    <2>4. CASE active.phase = "semantic"
      BY <1>1, <1>4, <2>2, <2>4 DEF CheckerTracked, Enriched, Slots
    <2>5. CASE ~NeedsEnrichment
      BY <1>4, <1>5, <2>2, <2>5 DEF CheckerTracked
    <2> QED
      BY <2>3, <2>4, <2>5
  <1> QED
    BY <1>2, <1>6, <1>7

(* So does a failed, superseded or parked phase.                           *)
LEMMA FailureTracks ==
    ASSUME CallInv, CheckerTracked, Superseded \/ Retries \/ Parks,
           UNCHANGED <<channel, checkerPlane, index, disk, missed>>
    PROVE  CheckerTracked'
  <1>1. CASE Superseded \/ Retries
    <2>1. /\ UNCHANGED <<checkerVars, parkVars, force_full_enrichment,
                         desired_generation>>
          /\ Slots' \subseteq Slots \cup {None}
      BY <1>1 DEF Superseded, Retries, ScheduleRetry, Slots
    <2>2. (Coming => Coming') /\ (Enriched' => Enriched)
      BY <2>1 DEF Coming, Signalled, CheckerDue, checkerVars, Enriched, Current
    <2> QED
      BY <2>1, <2>2, TrackedKept DEF parkVars
  <1>2. CASE Parks
    <2>1. checker_paused' = TRUE /\ UNCHANGED checkerVars
      BY <1>2, ParksOutcome DEF CallInv, LoopInv, Outstanding
    <2>2. Coming => Coming'
      BY <2>1 DEF Coming, Signalled, CheckerDue, checkerVars
    <2> QED
      BY <2>1, <2>2 DEF CheckerTracked
  <1> QED
    BY <1>1, <1>2

(***************************************************************************)
(* A refresh keeps a right answer right, by rebinding what it serves; one  *)
(* that may not rebind is followed by an enrichment; and one that reads    *)
(* what the checker has not seen does so ahead of its notification.        *)
(***************************************************************************)
LEMMA RefreshTracks ==
    ASSUME CallInv, Ordered, CheckerOrdered, RefreshPays, CheckerTracked, RefreshSucceeds
    PROVE  CheckerTracked'
  <1> DEFINE next(read) == IndexOf(read, EffectiveScope(read))
  <1>1. PICK read \in [AllKinds -> 0 .. MaxEdits] :
           /\ \A k \in AllKinds : seen[k] <= read[k] /\ read[k] <= disk[k]
           /\ index' = next(read)
           /\ checker' = CheckerAfter(read, next(read))
           /\ ObserveCheckerSnapshot(CodeDigest(next(read)))
           /\ missed' = {k \in missed : index'[k] # disk[k] \/ (Enrich /\ k = "source")}
    BY DEF RefreshSucceeds
  <1>2. /\ UNCHANGED <<disk, channel, answered>> /\ pc = "refresh"
        /\ Current(active) /\ active.phase = "refresh"
        /\ ready = None /\ retry = None
    BY DEF RefreshSucceeds, CallInv, RefreshIsCurrent, Current, LoopInv, RefreshRuns,
           Outstanding, OneOutstanding
  <1>3. /\ UNCHANGED <<workVars, desired_generation, checker_dirty_source_paths,
                       force_full_enrichment>>
        /\ checker_refresh_required => checker_refresh_required'
        /\ checker_paused /\ ~checker_paused' => checker_refresh_required'
    BY <1>1 DEF ObserveCheckerSnapshot
  <1>4. Enrich => (Coming => Coming')
    BY <1>1, <1>2, <1>3 DEF Coming, Signalled, CheckerDue
  <1>5. ~Enriched'
    BY <1>2, <1>3 DEF Enriched, Slots, Current, workVars
  <1>6. /\ seen["source"] <= read["source"] /\ read["source"] <= disk["source"]
        /\ index["source"] <= seen["source"]
        /\ seen["boundary"] <= read["boundary"] /\ read["boundary"] <= disk["boundary"]
        /\ index'["source"] = read["source"]
        /\ {index["source"], seen["source"], read["source"], disk["source"],
            seen["boundary"], read["boundary"], disk["boundary"]} \subseteq Nat
    BY <1>1, <1>2 DEF AllKinds, FullOnly, IndexOf, Ordered, Versions, CallInv, LoopInv
  <1>7. index'["source"] # disk["source"] => index["source"] # disk["source"]
    BY <1>6
  <1>8. SUFFICES ASSUME Enrich, ~checker_paused, ~Coming, ~force_full_enrichment
                 PROVE  Right'
    <2>1. Enrich /\ ~checker_paused' /\ checker_paused => Coming'
      BY <1>3 DEF Coming, CheckerDue
    <2>2. Enrich /\ ~checker_paused' => Right' \/ Coming' \/ force_full_enrichment'
      BY <1>3, <1>4, <1>8, <2>1
    <2>3. Enrich /\ index'["source"] # disk'["source"] => Coming'
      BY <1>2, <1>4, <1>7 DEF CheckerTracked
    <2> QED
      BY <1>5, <2>2, <2>3 DEF CheckerTracked
  <1>9. Right /\ index["source"] = disk["source"]
    BY <1>8 DEF CheckerTracked
  <1>10. active.rebind
    <2>1. ~Owed
      BY <1>8 DEF Coming, CheckerDue, Owed
    <2> QED
      BY <1>2, <1>8, <2>1 DEF RefreshPays, Slots
  <1>11. read["source"] = index["source"]
    BY <1>6, <1>9
  <1>12. AnswersCurrent'
    BY <1>2, <1>6, <1>9, <1>11 DEF Right, AnswersCurrent
  <1>13. SUFFICES ASSUME ~answered.kept PROVE Serves'
    BY <1>2, <1>12 DEF Right
  <1>14. Serves
    BY <1>9, <1>13 DEF Right
  <1>15. checker.inputs = read["boundary"]
    BY <1>2, <1>6, <1>14 DEF Serves, CheckerOrdered
  <1>16. checker' = [checker EXCEPT !.digest = CodeDigest(index')]
    BY <1>1, <1>10, <1>11, <1>14, <1>15 DEF CheckerAfter, CanRebind, Serves
  <1>17. checker \in Publications /\ CodeDigest(index') \in Nat \X Nat
    <2>1. index' \in [AllKinds -> 0 .. MaxEdits]
      BY <1>1, IndexOfType DEF CallInv, LoopInv
    <2> QED
      BY <1>14, <2>1 DEF Serves, CheckerOrdered, CodeDigest, AllKinds
  <1>18. /\ checker' \in Publications
         /\ checker'.digest = CodeDigest(index') /\ checker'.inputs = checker.inputs
    BY <1>16, <1>17 DEF Publications
  <1>19. checker' # None
    BY <1>18, LoopAssumption DEF LoopAssumption
  <1>20. CodeDigest(index)' = CodeDigest(index')
    BY DEF CodeDigest
  <1> QED
    BY <1>2, <1>14, <1>18, <1>19, <1>20 DEF Serves

(* What an enrichment answers is right: it publishes that, or found nothing.*)
LEMMA PublicationTracks ==
    ASSUME LoopInv, Ordered, EnrichmentSucceeds
    PROVE  CheckerTracked'
  <1>1. UNCHANGED <<index, disk>> /\ InputsMatch
    BY DEF EnrichmentSucceeds, indexVars
  <1>2. CodeDigest(index)[1] = index["source"]
    BY DEF CodeDigest
  <1>3. ASSUME NEW kept \in BOOLEAN, answered' = Answer(kept)
        PROVE  AnswersCurrent' /\ answered'.kept = kept
    <2>1. /\ answered' # None /\ answered'.kept = kept
          /\ answered'.digest = CodeDigest(index) /\ answered'.inputs = disk["boundary"]
      BY <1>3, AnswerType
    <2> QED
      BY <1>1, <1>2, <2>1 DEF AnswersCurrent
  <1>4. Right'
    <2>1. CASE checker' = Publication /\ answered' = Answer(FALSE)
      <3>1. AnswersCurrent'
        BY <1>3, <2>1
      <3>2. Serves'
        BY <1>1, <2>1, PublicationType DEF Serves, CodeDigest
      <3> QED
        BY <3>1, <3>2 DEF Right
    <2>2. CASE answered' = Answer(TRUE)
      <3>1. AnswersCurrent' /\ answered'.kept = TRUE
        BY <1>3, <2>2
      <3> QED
        BY <3>1 DEF Right
    <2> QED
      BY <2>1, <2>2 DEF EnrichmentSucceeds
  <1> QED
    BY <1>1, <1>4 DEF CheckerTracked, InputsMatch

(* A terminal failure parks the checker; one that was superseded leaves an *)
(* enrichment owed, whatever it has published.                             *)
LEMMA TerminalTracks ==
    ASSUME CallInv, Ordered, EnrichmentOwed, CheckerTracked, EnrichmentTerminal
    PROVE  CheckerTracked'
  <1>1. UNCHANGED <<channel, index, disk, missed>>
    BY DEF EnrichmentTerminal, indexVars, worldVars
  <1>2. CASE UNCHANGED checkerPlane
    BY <1>1, <1>2, FailureTracks DEF EnrichmentTerminal, FinishOptionalPartial, Parks
  <1>3. ASSUME InputsMatch PROVE CheckerTracked'
    <2>1. index'["source"] = disk'["source"]
      BY <1>1, <1>3 DEF InputsMatch
    <2>2. CASE FinishOptionalPartial
      <3>1. checker_paused' = TRUE
        BY <2>2 DEF FinishOptionalPartial, ParkChecker
      <3> QED
        BY <2>1, <3>1 DEF CheckerTracked
    <2>3. CASE Superseded
      <3>1. /\ active \in Slots /\ active # None /\ active.phase = "enrich"
            /\ ready' = None /\ retry' = None /\ active' = None
        BY <2>3 DEF Superseded, Slots, EnrichmentTerminal, CallInv, LoopInv, Outstanding,
                    OneOutstanding, IsSuperseded
      <3>2. ~Enriched'
        BY <3>1 DEF Enriched, Slots, Current
      <3>3. UNCHANGED <<checkerVars, parkVars, force_full_enrichment>>
        BY <2>3 DEF Superseded
      <3>4. Owed
        BY <3>1 DEF EnrichmentOwed
      <3>5. Enrich /\ ~checker_paused' => Coming' \/ force_full_enrichment'
        BY <3>3, <3>4 DEF Owed, Coming, CheckerDue, checkerVars, parkVars
      <3> QED
        BY <2>1, <3>2, <3>5 DEF CheckerTracked
    <2> QED
      BY <2>2, <2>3 DEF EnrichmentTerminal
  <1> QED
    BY <1>2, <1>3 DEF EnrichmentTerminal

(* An edit the checker must see is signalled, or lost as a source edit.    *)
LEMMA EditTracks ==
    ASSUME CallInv, Ordered, CheckerTracked, Edit \/ EditMissed
    PROVE  CheckerTracked'
  <1>1. UNCHANGED <<coordinatorVars, index, checkerPlane>>
    BY EditFrame DEF indexVars
  <1>2. /\ UNCHANGED <<force_full_enrichment, checker_paused>>
        /\ Enriched' = Enriched /\ (CheckerDue => CheckerDue')
    BY <1>1 DEF coordinatorVars, parkVars, checkerVars, workVars, CheckerDue, Enriched,
                Slots, Current
  <1>3. PICK kind \in Kinds :
           /\ disk' = [disk EXCEPT ![kind] = @ + 1]
           /\ \/ /\ kind \in Missable /\ missed = {} /\ missed' = {kind}
                 /\ channel' = channel
              \/ /\ missed' = missed
                 /\ \E signal \in {SignalOf(kind), WatchErrorSignal} :
                       channel' = Append(channel, signal)
    BY EditFrame
  <1>4. Coming => Coming'
    <2>1. CASE missed' = {kind} /\ missed = {} /\ channel' = channel
      BY <1>2, <2>1 DEF Coming, Signalled
    <2>2. ASSUME missed' = missed,
                 NEW signal \in {SignalOf(kind), WatchErrorSignal},
                 channel' = Append(channel, signal), Signalled
          PROVE  Signalled'
      <3>1. PICK i \in DOMAIN channel : channel[i].refresh
        BY <2>2 DEF Signalled
      <3>2. signal \in EventSignals /\ channel \in Seq(EventSignals)
        BY <2>2, SignalOfType DEF CallInv, LoopInv
      <3>3. i \in DOMAIN channel' /\ channel'[i] = channel[i]
        BY <2>2, <3>1, <3>2, AppendProperties
      <3> QED
        BY <3>1, <3>3 DEF Signalled
    <2> QED
      BY <1>2, <1>3, <2>1, <2>2 DEF Coming
  <1>5. CASE kind \notin {"source", "boundary"}
    <2>1. disk'["source"] = disk["source"] /\ disk'["boundary"] = disk["boundary"]
      BY <1>3, <1>5 DEF Ordered, Versions, AllKinds
    <2> QED
      BY <1>1, <1>2, <1>4, <2>1
         DEF CheckerTracked, Right, AnswersCurrent, Serves, CodeDigest, checkerPlane
  <1>6. CASE kind \in {"source", "boundary"}
    <2>1. Coming'
      <3>1. CASE kind \in Missable /\ missed' = {kind}
        BY <1>6, <3>1, LoopAssumption DEF LoopAssumption, Coming
      <3>2. ASSUME NEW signal \in {SignalOf(kind), WatchErrorSignal},
                   channel' = Append(channel, signal)
            PROVE  Signalled'
        <4>1. signal.refresh
          <5>1. SourceSignal(SourcePath).refresh
            BY LoopAssumption DEF LoopAssumption, SourceSignal
          <5>2. FullSignal.refresh /\ WatchErrorSignal.refresh
            BY DEF FullSignal, WatchErrorSignal, Notice
          <5>3. SignalOf(kind) \in {SourceSignal(SourcePath), FullSignal}
            BY <1>6 DEF SignalOf
          <5> QED
            BY <3>2, <5>1, <5>2, <5>3
        <4>2. signal \in EventSignals /\ channel \in Seq(EventSignals)
          BY <3>2, SignalOfType DEF CallInv, LoopInv
        <4>3. /\ Len(channel) + 1 \in DOMAIN channel'
              /\ channel'[Len(channel) + 1] = signal
          BY <3>2, <4>2, AppendProperties
        <4> QED
          BY <4>1, <4>3 DEF Signalled
      <3> QED
        BY <1>3, <3>1, <3>2 DEF Coming
    <2> QED
      BY <2>1 DEF CheckerTracked
  <1> QED
    BY <1>5, <1>6

LEMMA CheckerTrackedStep ==
    ASSUME CallInv, Ordered, CheckerOrdered, RefreshPays, EnrichmentOwed,
           CheckerTracked, Next
    PROVE  CheckerTracked'
  <1>1. CASE PhaseEnds
    <2>1. UNCHANGED <<channel, checkerPlane, index, disk, missed>>
      BY <1>1, PhaseEndsFrame DEF indexVars, worldVars
    <2>2. FinishRefresh \/ FinishOptional \/ Superseded \/ Retries \/ Parks
      BY <1>1 DEF PhaseEnds, EndRefresh, RefreshFails, EmbeddingEnds, PhaseFails,
                  FinishError, Parks, Retries, AttemptsExhausted
    <2> QED
      BY <2>1, <2>2, FinishTracks, FailureTracks
  <1>2. CASE Quiet
    <2>1. /\ UNCHANGED <<channel, checkerPlane, index, disk, missed, checkerVars, parkVars,
                         force_full_enrichment, desired_generation, workVars>>
      BY <1>2, QuietFrame DEF indexVars, worldVars
    <2>2. Coming' = Coming /\ Enriched' = Enriched
      BY <2>1 DEF Coming, Signalled, CheckerDue, checkerVars, Enriched, Slots, Current,
                  workVars
    <2> QED
      BY <2>1, <2>2, TrackedKept DEF parkVars
  <1>3. CASE StartWork
    <2>1. /\ UNCHANGED <<channel, checkerPlane, index, disk, missed>>
          /\ UNCHANGED <<checkerVars, parkVars, force_full_enrichment>>
      BY <1>3, StartWorkFrame
         DEF indexVars, worldVars, StartWork, NextWork, TakeReady, TakeRetry, TakeRefresh
    <2>2. Coming' = Coming
      BY <2>1 DEF Coming, Signalled, CheckerDue, checkerVars
    <2>3. Enriched' => Enriched
      BY <1>3, RefreshWorkType
         DEF StartWork, NextWork, TakeReady, TakeRetry, TakeRefresh, Enriched, Slots,
             Current, CallInv, LoopInv, Outstanding
    <2> QED
      BY <2>1, <2>2, <2>3, TrackedKept DEF parkVars
  <1>4. CASE RefreshSucceeds
    BY <1>4, RefreshTracks
  <1>5. CASE EnrichmentSucceeds
    BY <1>5, PublicationTracks DEF CallInv
  <1>6. CASE EnrichmentTerminal
    BY <1>6, TerminalTracks
  <1> QED
    BY <1>1, <1>2, <1>3, <1>4, <1>5, <1>6, IngestTracks, TimerTracks, EditTracks, LoopCases

-----------------------------------------------------------------------------
ConvergenceInv ==
    /\ CallInv
    /\ Ordered
    /\ CheckerOrdered
    /\ IndexTracked
    /\ RefreshPays
    /\ EnrichmentOwed
    /\ CheckerTracked

LEMMA ConvergenceInit == Init => ConvergenceInv
  <1> SUFFICES ASSUME Init PROVE ConvergenceInv
    OBVIOUS
  <1>1. CallInv
    BY CallInvInit
  <1>2. Ordered
    BY DEF Init, Ordered, Versions, Unedited, AllKinds
  <1>3. CheckerOrdered
    BY DEF Init, CheckerOrdered
  <1>4. IndexTracked
    BY DEF Init, IndexTracked
  <1>5. RefreshPays /\ EnrichmentOwed /\ ~Enriched
    BY DEF Init, CoordinatorInit, RefreshPays, EnrichmentOwed, Enriched, Slots, Current
  <1>6. Enrich => Coming
    BY DEF Init, CoordinatorInit, Coming, CheckerDue
  <1> QED
    BY <1>1, <1>2, <1>3, <1>4, <1>5, <1>6 DEF ConvergenceInv, CheckerTracked

LEMMA ConvergenceStutters ==
    ASSUME ConvergenceInv, UNCHANGED vars
    PROVE  ConvergenceInv'
  <1>1. CallInv'
    BY CallInvStep DEF ConvergenceInv
  <1>2. UNCHANGED <<pc, channel, disk, seen, index, docs_policy, checkerPlane, missed>>
        /\ UNCHANGED coordinatorVars
    BY DEF vars, loopVars, indexVars, worldVars
  <1>3. Ordered' /\ CheckerOrdered'
    BY <1>2 DEF ConvergenceInv, Ordered, CheckerOrdered, checkerPlane
  <1>4. IndexTracked'
    BY <1>2 DEF ConvergenceInv, IndexTracked, Tracked, Reported, Due, OwedNow,
                RefreshPublished, Current, coordinatorVars, workVars, scopeVars,
                checkerVars
  <1>5. RefreshPays' /\ EnrichmentOwed'
    BY <1>2 DEF ConvergenceInv, RefreshPays, EnrichmentOwed, Slots, Current, Owed,
                coordinatorVars, workVars, checkerVars, parkVars
  <1>6. CheckerTracked'
    <2>1. UNCHANGED <<force_full_enrichment, checker_paused>>
          /\ Enriched' = Enriched /\ Coming' = Coming
      BY <1>2 DEF coordinatorVars, workVars, checkerVars, parkVars, Enriched, Slots,
                  Current, Coming, Signalled, CheckerDue
    <2> QED
      BY <1>2, <2>1, TrackedKept DEF ConvergenceInv
  <1> QED
    BY <1>1, <1>3, <1>4, <1>5, <1>6 DEF ConvergenceInv

LEMMA ConvergenceStep == ConvergenceInv /\ [Next]_vars => ConvergenceInv'
  <1>1. ASSUME ConvergenceInv, Next PROVE ConvergenceInv'
    <2>1. CallInv' /\ Inv'
      BY <1>1, CallInvStep DEF ConvergenceInv, CallInv
    <2>2. Ordered' /\ CheckerOrdered'
      BY <1>1, OrderedStep, CheckerOrderedStep DEF ConvergenceInv, CallInv
    <2>3. IndexTracked'
      BY <1>1, <2>1, IndexTrackedStep DEF ConvergenceInv
    <2>4. RefreshPays' /\ EnrichmentOwed'
      <3>1. CASE CoordinatorNext
        BY <1>1, <3>1, RefreshPaysStep, EnrichmentOwedStep DEF ConvergenceInv, CallInv
      <3>2. CASE UNCHANGED coordinatorVars
        BY <1>1, <3>2 DEF ConvergenceInv, RefreshPays, EnrichmentOwed, Slots, Current,
                          Owed, coordinatorVars, workVars, checkerVars, parkVars
      <3> QED
        BY <1>1, <3>1, <3>2, LegalCall DEF ConvergenceInv, CallInv
    <2>5. CheckerTracked'
      BY <1>1, CheckerTrackedStep DEF ConvergenceInv
    <2> QED
      BY <2>1, <2>2, <2>3, <2>4, <2>5 DEF ConvergenceInv
  <1> QED
    BY <1>1, ConvergenceStutters

(* Every difference between the tree and what is published is a lost event,*)
(* an unread one or a debt of the coordinator.                             *)
THEOREM ConvergenceInvariant == Spec => []ConvergenceInv
  BY ConvergenceInit, ConvergenceStep, PTL DEF Spec

(***************************************************************************)
(* A quiet watcher has indexed the working tree: no edit and no full-scope *)
(* requirement is lost, whatever phase it raced with.                      *)
(***************************************************************************)
LEMMA QuietIndex ==
    ASSUME ConvergenceInv
    PROVE  IndexConverged
  <1> SUFFICES ASSUME Quiescent, NEW k \in AllKinds PROVE index[k] = disk[k]
    BY DEF IndexConverged
  <1>1. ~Tracked(k)
    BY DEF Quiescent, Tracked, Reported
  <1>2. ~Due(k)
    BY DEF Quiescent, IsClean, Due, OwedNow, RefreshPublished
  <1> QED
    BY <1>1, <1>2 DEF ConvergenceInv, IndexTracked

(* A quiet watcher has indexed the tree, at its full scope.                *)
THEOREM IndexAlwaysConverges == Spec => []IndexConverged
  BY QuietIndex, ConvergenceInvariant, PTL

(***************************************************************************)
(* A quiet watcher whose checker is not parked has the checker's answer    *)
(* for the indexed sources and the compiler inputs now on disk, and serves *)
(* it unless it was empty.                                                 *)
(***************************************************************************)
LEMMA QuietChecker ==
    ASSUME ConvergenceInv
    PROVE  CheckerConverged
  <1> SUFFICES ASSUME Quiescent, Enrich, ~checker_paused
               PROVE  /\ AnswersCurrent
                      /\ ~answered.kept =>
                            checker = [digest |-> CodeDigest(index),
                                       inputs |-> disk["boundary"]]
    BY DEF CheckerConverged
  <1>1. ~Owed
    BY DEF Quiescent, ConvergenceInv, CallInv, Inv, CoordinatorInv, SettledOwesNothing
  <1>2. ~Coming
    BY <1>1 DEF Quiescent, Coming, Signalled, CheckerDue, Owed
  <1>3. Right
    BY <1>1, <1>2 DEF ConvergenceInv, CheckerTracked, Owed
  <1>4. Serves => checker \in Publications
    BY DEF ConvergenceInv, CheckerOrdered, Serves
  <1> QED
    BY <1>3, <1>4 DEF Right, Serves, Publications

(* A quiet watcher's checker has answered for the indexed sources and the  *)
(* compiler inputs on disk, unless it is parked; what it found is served.  *)
THEOREM CheckerAlwaysConverges == Spec => []CheckerConverged
  BY QuietChecker, ConvergenceInvariant, PTL

-----------------------------------------------------------------------------
(* The types of the loop's own variables.                                  *)
LoopTypes ==
    /\ pc \in {"top", "drain", "next", "refresh", "refreshed", "phase", "wait",
               "stopped"}
    /\ pc = "phase" => active # None
    /\ published_scope \in Scopes \cup {"none"}
    /\ {next_reconcile, next_checker_flush} \subseteq {"off", "armed", "due"}
    /\ checker_flush_pending \in BOOLEAN
    /\ missed \subseteq Missable

LEMMA LoopTypesStep ==
    ASSUME CallInv, LoopTypes, Next
    PROVE  LoopTypes'
  <1>1. CASE TimerSignal
    BY <1>1 DEF TimerSignal, StartFlush, StartReconciliation, indexVars, worldVars,
                LoopTypes
  <1>2. CASE Ingests
    BY <1>2 DEF Ingests, DrainEvent, WaitEvent, IngestEvent, MarkDirty, indexVars,
                worldVars, timerVars, LoopTypes
  <1>3. CASE PhaseEnds \/ EnrichmentSucceeds \/ EnrichmentTerminal
    <2>1. AfterPhase /\ UNCHANGED published_scope /\ missed' \subseteq missed
      BY <1>3 DEF PhaseEnds, EndRefresh, RefreshFails, EmbeddingEnds, PhaseFails,
                  EnrichmentSucceeds, EnrichmentTerminal, indexVars, worldVars
    <2> QED
      BY <2>1 DEF AfterPhase, LoopTypes
  <1>4. CASE SkipTimers \/ EndDrain \/ Idle \/ WaitTimeout \/ ReconcileDue
                \/ FlushDue \/ Interrupt
    BY <1>4 DEF SkipTimers, EndDrain, Idle, WaitTimeout, ReconcileDue, FlushDue,
                Interrupt, coordinatorVars, workVars, indexVars, worldVars, timerVars,
                LoopTypes
  <1>5. CASE TimePasses
    BY <1>5 DEF TimePasses, Elapse, loopVars, workVars, indexVars, worldVars, timerVars,
                LoopTypes
  <1>6. CASE StartWork
    <2>1. pc' \in {"refresh", "phase"} /\ active' # None
      BY <1>6, TakenWork DEF CallInv, Current
    <2> QED
      BY <1>6, <2>1 DEF StartWork, indexVars, worldVars, timerVars, LoopTypes
  <1>7. CASE RefreshSucceeds
    <2>1. /\ pc' = "refreshed" /\ missed' \subseteq missed /\ UNCHANGED timerVars
          /\ active \in Work /\ active # None
          /\ \E read : published_scope' = EffectiveScope(read)
      BY <1>7 DEF RefreshSucceeds, CallInv, LoopInv, RefreshRuns, Outstanding,
                  CoordinatorTypeOK
    <2>2. published_scope' \in Scopes
      BY <2>1 DEF EffectiveScope, Work, Scopes
    <2> QED
      BY <2>1, <2>2 DEF LoopTypes, timerVars
  <1>8. CASE Edit \/ EditMissed
    <2>1. missed' \subseteq Missable
      BY <1>8, EditFrame DEF LoopTypes
    <2>2. UNCHANGED <<pc, active, published_scope, timerVars>>
      BY <1>8 DEF Edit, EditMissed, Change, coordinatorVars, workVars, indexVars
    <2> QED
      BY <2>1, <2>2 DEF LoopTypes, timerVars
  <1> QED
    BY <1>1, <1>2, <1>3, <1>4, <1>5, <1>6, <1>7, <1>8, LoopCases DEF Quiet

(***************************************************************************)
(* The watcher catches up: whenever it is quiet, with any number of edits, *)
(* failures and generations behind it, the index is that of the working    *)
(* tree and the checker has answered for it (see CheckerConverged).        *)
(***************************************************************************)
THEOREM WatcherConverges == Spec => []Converged
  <1>1. Init => LoopTypes
    BY CoordinatorAssumption DEF Init, LoopTypes
  <1>2. ConvergenceInv /\ LoopTypes /\ [Next]_vars => LoopTypes'
    <2>1. LoopTypes /\ UNCHANGED vars => LoopTypes'
      BY DEF LoopTypes, vars, loopVars, indexVars, worldVars, timerVars,
             coordinatorVars, workVars
    <2> QED
      BY <2>1, LoopTypesStep DEF ConvergenceInv
  <1>3. ConvergenceInv /\ LoopTypes => Converged
    <2>1. ConvergenceInv /\ LoopTypes => LoopTypeOK
      BY DEF ConvergenceInv, CallInv, LoopInv, Outstanding, RefreshRuns, Ordered,
             CheckerOrdered, LoopTypes, LoopTypeOK, Versions
    <2> QED
      BY <2>1, QuietIndex, QuietChecker DEF Converged
  <1> QED
    BY <1>1, <1>2, <1>3, ConvergenceInvariant, PTL DEF Spec
=============================================================================
