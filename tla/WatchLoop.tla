------------------------------ MODULE WatchLoop ------------------------------
(***************************************************************************)
(* The loop of `jscout watch` (fn watch in src/src/watch.rs) around the    *)
(* coordinator, composed with what it observes and publishes:              *)
(*   disk      the version of every kind of input in the working tree;     *)
(*   channel   notifications sent by the notify thread, not yet received;  *)
(*   index     the versions the last index publication contains;           *)
(*   checker   the active checker publication (code digest it is bound to  *)
(*             and the compiler inputs it was computed from);              *)
(*   answered  what the last enrichment that succeeded answered for.       *)
(* The refresh runs on the loop's own thread; the optional phases run on a *)
(* worker while the loop polls events.  A receive may find the channel     *)
(* empty while a notification is on its way, so every drain may stop       *)
(* early.  Boundary inputs (ignore files, manifests, Git controls) reach   *)
(* the index only through a full refresh: that is what the watcher's full  *)
(* scope is for.                                                           *)
(***************************************************************************)
EXTENDS WatchCoordinator, Sequences

CONSTANTS
    SourcePath,      \* a checker-eligible source file
    RustPath,        \* a source file with no checker affinity
    Kinds,           \* the kinds of input edited in a run
    Missable,        \* the kinds whose notification may be lost
    Reconciles,      \* reconcile_interval is not zero
    MaxEdits,        \* bound: edits of the working tree
    MaxFailures,     \* bound: phase failures not caused by an edit
    MaxGenerations   \* bound: generations opened by timers

AllKinds == {"source", "rust", "doc", "boundary", "config"}
FullOnly == {"boundary", "config"}
Versions == [AllKinds -> Nat]
Unedited == [k \in AllKinds |-> 0]
Publications == [digest : Nat \X Nat, inputs : Nat]
Answers == [digest : Nat \X Nat, inputs : Nat, kept : BOOLEAN]

ASSUME LoopAssumption ==
    /\ SourcePath \in Eligible /\ RustPath \in Paths \ Eligible
    /\ Kinds \subseteq AllKinds
    /\ Missable \subseteq AllKinds \ {"boundary"}  \* no reconciliation repairs one
    /\ Reconciles \in BOOLEAN
    /\ MaxEdits \in Nat
    /\ (0 .. MaxEdits) \X (0 .. MaxEdits) \subseteq Snapshots
    /\ None \notin Publications \cup Answers

VARIABLES
    pc, channel, disk, seen, index, checker, answered, docs_policy, published_scope,
    next_reconcile, next_checker_flush, checker_flush_pending,
    missed, failures

timerVars    == <<next_reconcile, next_checker_flush, checker_flush_pending>>
checkerPlane == <<checker, answered>>
indexVars    == <<index, docs_policy, published_scope>>
worldVars    == <<disk, missed>>
loopVars     == <<pc, channel, seen, indexVars, checkerPlane, timerVars, worldVars,
                  failures>>
vars         == <<coordinatorVars, loopVars>>

CodeDigest(i) == <<i["source"], i["rust"]>>

(* EventClassifier::classify, by the kind of path the event names. *)
SignalOf(kind) ==
    CASE kind = "source"   -> SourceSignal(SourcePath)
      [] kind = "rust"     -> SourceSignal(RustPath)
      [] kind = "doc"      -> DocumentationSignal
      [] kind = "boundary" -> FullSignal
      [] kind = "config"   -> CheckerInputSignal

Init ==
    /\ CoordinatorInit
    /\ pc = "top"
    /\ channel = <<>>
    /\ disk = Unedited
    /\ seen = Unedited
    /\ index = Unedited
    /\ checker = None
    /\ answered = None
    /\ docs_policy = 0
    /\ published_scope = "none"
    /\ next_reconcile = "off"
    /\ next_checker_flush = IF Enrich THEN "armed" ELSE "off"
    /\ checker_flush_pending = FALSE
    /\ missed = {}
    /\ failures = 0

-----------------------------------------------------------------------------
(* The environment: edits, lost notifications, clocks, Ctrl-C.             *)

Edits == disk["source"] + disk["rust"] + disk["doc"] + disk["boundary"]
             + disk["config"]

Change(kind) ==
    /\ pc # "stopped"
    /\ Edits < MaxEdits
    /\ disk' = [disk EXCEPT ![kind] = @ + 1]
    /\ UNCHANGED <<coordinatorVars, pc, seen, indexVars, checkerPlane, timerVars,
                   failures>>

(* The backend may report the edit itself or only that it lost track. *)
Edit ==
    \E kind \in Kinds : \E signal \in {SignalOf(kind), WatchErrorSignal} :
        /\ Change(kind)
        /\ channel' = Append(channel, signal)
        /\ UNCHANGED missed

EditMissed ==
    \E kind \in Kinds \cap Missable :
        /\ Reconciles
        /\ missed = {}
        /\ Change(kind)
        /\ missed' = {kind}
        /\ UNCHANGED channel

(* A timer runs out: the bound stops idle rounds before repairing ones. *)
TimerBudget == desired_generation < MaxGenerations

Unrepaired ==
    /\ missed # {}
    /\ ~checker_paused \/ \E k \in missed : index[k] # disk[k]
    /\ desired_generation < 2 * MaxGenerations

ReconcileDue ==
    /\ next_reconcile = "armed"
    /\ TimerBudget \/ Unrepaired
    /\ next_reconcile' = "due"
    /\ UNCHANGED <<coordinatorVars, pc, channel, seen, indexVars, checkerPlane,
                   next_checker_flush, checker_flush_pending, worldVars, failures>>

FlushDue ==
    /\ next_checker_flush = "armed"
    /\ TimerBudget
    /\ next_checker_flush' = "due"
    /\ UNCHANGED <<coordinatorVars, pc, channel, seen, indexVars, checkerPlane,
                   next_reconcile, checker_flush_pending, worldVars, failures>>

TimePasses == Elapse /\ UNCHANGED loopVars

(* Ctrl-C cancels the running checker request and ends the loop. *)
Interrupt ==
    /\ pc = "phase"
    /\ active.phase = "enrich"
    /\ pc' = "stopped"
    /\ UNCHANGED <<coordinatorVars, channel, seen, indexVars, checkerPlane, timerVars,
                   worldVars, failures>>

-----------------------------------------------------------------------------
(* The loop. *)

FlushNow     == next_checker_flush = "due" /\ IsClean
ReconcileNow == ~FlushNow /\ next_reconcile = "due" /\ IsClean

StartFlush ==
    /\ pc = "top"
    /\ FlushNow
    /\ MarkCheckerDriftFlush
    /\ next_checker_flush' = "off"
    /\ checker_flush_pending' = TRUE
    /\ pc' = "drain"
    /\ UNCHANGED <<channel, seen, indexVars, checkerPlane, next_reconcile, worldVars,
                   failures>>

StartReconciliation ==
    /\ pc = "top"
    /\ ReconcileNow
    /\ MarkReconciliation
    /\ next_reconcile' = "off"
    /\ pc' = "drain"
    /\ UNCHANGED <<channel, seen, indexVars, checkerPlane, next_checker_flush,
                   checker_flush_pending, worldVars, failures>>

SkipTimers ==
    /\ pc = "top"
    /\ ~FlushNow /\ ~ReconcileNow
    /\ pc' = "drain"
    /\ UNCHANGED <<coordinatorVars, channel, seen, indexVars, checkerPlane, timerVars,
                   worldVars, failures>>

(* drain_events and PhaseMonitor::poll: one notification at a time. *)
IngestEvent ==
    /\ channel # <<>>
    /\ MarkDirty(Head(channel), FALSE)
    /\ channel' = Tail(channel)
    /\ UNCHANGED <<seen, indexVars, checkerPlane, timerVars, worldVars, failures>>

DrainEvent ==
    /\ pc \in {"drain", "refreshed", "phase"}
    /\ IngestEvent
    /\ UNCHANGED pc

EndDrain ==
    /\ pc = "drain"
    /\ next_reconcile' = IF IsClean THEN next_reconcile ELSE "off"
    /\ pc' = "next"
    /\ UNCHANGED <<coordinatorVars, channel, seen, indexVars, checkerPlane,
                   next_checker_flush, checker_flush_pending, worldVars, failures>>

StartWork ==
    /\ pc = "next"
    /\ NextWork
    /\ pc' = IF active'.phase = "refresh" THEN "refresh" ELSE "phase"
    /\ seen' = disk
    /\ UNCHANGED <<channel, indexVars, checkerPlane, timerVars, worldVars, failures>>

Idle ==
    /\ pc = "next"
    /\ ~HasWork
    /\ pc' = "wait"
    /\ UNCHANGED <<coordinatorVars, channel, seen, indexVars, checkerPlane, timerVars,
                   worldVars, failures>>

(* report_finish and the re-arming of the drift flush after every phase. *)
AfterPhaseOneFlush ==
    /\ pc' = "top"
    /\ next_reconcile' =
          IF completed_generation' # completed_generation
          THEN (IF Reconciles THEN "armed" ELSE "off") ELSE next_reconcile
    /\ UNCHANGED <<next_checker_flush, checker_flush_pending>>

AfterPhase ==
    LET ended == completed_generation' # completed_generation
        rearm == checker_flush_pending /\ IsClean'
    IN
    /\ pc' = "top"
    /\ next_reconcile' =
          IF ended THEN (IF Reconciles THEN "armed" ELSE "off") ELSE next_reconcile
    /\ next_checker_flush' = IF rearm THEN "armed" ELSE next_checker_flush
    /\ checker_flush_pending' = (checker_flush_pending /\ ~rearm)

(***************************************************************************)
(* One index publication.  Every input is read once, at some moment of the *)
(* refresh; a changed documentation policy promotes it to a full refresh.  *)
(* With `rebind` the indexer keeps the checker publication only if it was  *)
(* bound to the previous digest, no checker source changed and the         *)
(* compiler inputs on disk still match; otherwise it is not projected.     *)
(***************************************************************************)
EffectiveScope(read) ==
    IF read["config"] # docs_policy THEN "full" ELSE active.scope

IndexOf(read, scope) ==
    [k \in AllKinds |-> IF k \in FullOnly /\ scope # "full" THEN index[k] ELSE read[k]]

CanRebind(read) ==
    /\ checker # None
    /\ checker.digest = CodeDigest(index)
    /\ read["source"] = index["source"]
    /\ checker.inputs = read["boundary"]

CheckerAfter(read, next) ==
    IF ~active.rebind THEN checker
    ELSE IF CanRebind(read) THEN [checker EXCEPT !.digest = CodeDigest(next)]
    ELSE IF checker # None /\ checker.digest = CodeDigest(next) THEN None
    ELSE checker

RefreshSucceeds ==
    /\ pc = "refresh"
    /\ \E read \in [AllKinds -> 0 .. MaxEdits] :
          LET scope == EffectiveScope(read)
              next  == IndexOf(read, scope)
          IN
          /\ \A k \in AllKinds : seen[k] <= read[k] /\ read[k] <= disk[k]
          /\ index' = next
          /\ docs_policy' = read["config"]
          /\ published_scope' = scope
          /\ checker' = CheckerAfter(read, next)
          /\ ObserveCheckerSnapshot(CodeDigest(next))
          /\ missed' = {k \in missed : next[k] # disk[k] \/ (Enrich /\ k = "source")}
    /\ pc' = "refreshed"
    /\ UNCHANGED <<channel, seen, answered, timerVars, disk, failures>>

EndRefresh ==
    /\ pc = "refreshed"
    /\ FinishRefresh \/ Superseded
    /\ AfterPhase
    /\ UNCHANGED <<channel, seen, indexVars, checkerPlane, worldVars, failures>>

(* A failed refresh ends before the events that arrived meanwhile are read. *)
RefreshFails ==
    /\ pc = "refresh"
    /\ failures < MaxFailures
    /\ failures' = failures + 1
    /\ FinishError
    /\ AfterPhase
    /\ UNCHANGED <<channel, seen, indexVars, checkerPlane, worldVars>>

EmbeddingEnds ==
    /\ pc = "phase"
    /\ active.phase \in {"embed", "semantic"}
    /\ FinishOptional \/ Superseded
    /\ AfterPhase
    /\ UNCHANGED <<channel, seen, indexVars, checkerPlane, worldVars, failures>>

(* Activation verifies every checker input against the working tree. *)
InputsMatch == disk["source"] = index["source"]

Publication == [digest |-> CodeDigest(index), inputs |-> disk["boundary"]]

(***************************************************************************)
(* activate_staging_batch: a run that has staged no fact keeps a           *)
(* publication of the same digest, from whatever inputs, and stamps its    *)
(* empty batch instead; a later run that is not forced may find that batch *)
(* and end at once.                                                        *)
(***************************************************************************)
Answer(kept) == [digest |-> CodeDigest(index), inputs |-> disk["boundary"], kept |-> kept]

Keeps == checker # None /\ checker.digest = CodeDigest(index)
ReusesStamped == ~active.force /\ answered = Answer(TRUE)

(* A superseded worker may still have published before it was cancelled. *)
EnrichmentSucceeds ==
    /\ pc = "phase"
    /\ active.phase = "enrich"
    /\ InputsMatch
    /\ \/ /\ checker' = Publication
          /\ answered' = Answer(FALSE)
       \/ /\ Keeps \/ ReusesStamped
          /\ answered' = Answer(TRUE)
          /\ UNCHANGED checker
    /\ missed' = missed \ {"source"}
    /\ FinishEnrichmentSuccess \/ Superseded
    /\ AfterPhase
    /\ UNCHANGED <<channel, seen, indexVars, disk, failures>>

(* A cancelled phase and stale inputs fail without using up the bound. *)
PhaseFails ==
    /\ pc = "phase"
    /\ LET forced == IsSuperseded(active) \/ (active.phase = "enrich" /\ ~InputsMatch)
       IN  /\ forced \/ failures < MaxFailures
           /\ failures' = failures + (IF forced THEN 0 ELSE 1)
    /\ FinishError \/ Superseded
    /\ AfterPhase
    /\ UNCHANGED <<channel, seen, indexVars, checkerPlane, worldVars>>

(* A terminal checker failure may publish the healthy projects first, or     *)
(* keep what is published if they found nothing: no answer stands then.      *)
EnrichmentTerminal ==
    /\ pc = "phase"
    /\ active.phase = "enrich"
    /\ failures < MaxFailures
    /\ failures' = failures + 1
    /\ \/ UNCHANGED checkerPlane
       \/ /\ InputsMatch
          /\ checker' = Publication \/ (Keeps /\ UNCHANGED checker)
          /\ answered' = None
    /\ FinishOptionalPartial \/ Superseded
    /\ AfterPhase
    /\ UNCHANGED <<channel, seen, indexVars, worldVars>>

(* The blocking receive: an event, or the earliest of the deadlines. *)
WaitEvent ==
    /\ pc = "wait"
    /\ IngestEvent
    /\ pc' = "top"

DeadlineDueWithoutRetry ==
    \/ HasWork /\ retry = None
    \/ next_reconcile = "due"
    \/ IsClean /\ next_checker_flush = "due"

DeadlineDue ==
    \/ HasWork
    \/ next_reconcile = "due"
    \/ IsClean /\ next_checker_flush = "due"

WaitTimeout ==
    /\ pc = "wait"
    /\ DeadlineDue
    /\ pc' = "top"
    /\ UNCHANGED <<coordinatorVars, channel, seen, indexVars, checkerPlane, timerVars,
                   worldVars, failures>>

-----------------------------------------------------------------------------
LoopStep ==
    \/ StartFlush \/ StartReconciliation \/ SkipTimers
    \/ DrainEvent \/ EndDrain \/ StartWork \/ Idle
    \/ RefreshSucceeds \/ EndRefresh \/ RefreshFails
    \/ EmbeddingEnds \/ EnrichmentSucceeds \/ PhaseFails \/ EnrichmentTerminal
    \/ WaitEvent \/ WaitTimeout

Clocks == TimePasses \/ ReconcileDue \/ FlushDue

Environment == Edit \/ EditMissed \/ Interrupt

Next == LoopStep \/ Clocks \/ Environment

Spec == Init /\ [][Next]_vars

(* The loop's thread and its worker run, and clocks advance; nothing else. *)
Fairness ==
    /\ WF_vars(LoopStep)
    /\ WF_vars(TimePasses)
    /\ WF_vars(ReconcileDue)
    /\ WF_vars(FlushDue)

FairSpec == Spec /\ Fairness

-----------------------------------------------------------------------------
LoopTypeOK ==
    /\ CoordinatorTypeOK
    /\ pc \in {"top", "drain", "next", "refresh", "refreshed", "phase", "wait",
               "stopped"}
    /\ pc \in {"refresh", "refreshed", "phase"} => active # None
    /\ disk \in Versions /\ seen \in Versions /\ index \in Versions
    /\ checker \in Publications \cup {None}
    /\ answered \in Answers \cup {None}
    /\ published_scope \in Scopes \cup {"none"}
    /\ {next_reconcile, next_checker_flush} \subseteq {"off", "armed", "due"}
    /\ checker_flush_pending \in BOOLEAN
    /\ missed \subseteq Missable

Quiescent == pc = "wait" /\ channel = <<>> /\ missed = {} /\ IsClean

(***************************************************************************)
(* A quiet watcher has indexed the working tree: no edit, whatever phase   *)
(* it raced with, and no full-scope requirement, whatever failure or       *)
(* supersession it went through, is lost.                                  *)
(***************************************************************************)
IndexConverged ==
    Quiescent => \A k \in AllKinds : index[k] = disk[k]

(***************************************************************************)
(* A quiet watcher with --enrich whose checker is not parked has had the   *)
(* checker answer for exactly the indexed sources and the compiler inputs  *)
(* now on disk, and serves that answer, bound to the indexed code, unless  *)
(* it was empty and a publication of the same code was kept in its place.  *)
(* What is kept may be of older inputs: see the README.                    *)
(***************************************************************************)
AnswersCurrent ==
    /\ answered # None
    /\ answered.digest[1] = index["source"]
    /\ answered.inputs = disk["boundary"]

CheckerConverged ==
    Quiescent /\ Enrich /\ ~checker_paused =>
        /\ AnswersCurrent
        /\ ~answered.kept =>
              checker = [digest |-> CodeDigest(index), inputs |-> disk["boundary"]]

(* A quiet watcher has caught up in both planes.  (With the types.)          *)
Converged ==
    /\ LoopTypeOK
    /\ IndexConverged
    /\ CheckerConverged

(***************************************************************************)
(* The timers survive: a watcher waiting in a clean state has its          *)
(* reconciliation and its drift flush scheduled, and one that waits in a   *)
(* dirty state has no reconciliation deadline to spin on.                  *)
(***************************************************************************)
TimersScheduled ==
    pc = "wait" =>
        /\ IsClean /\ Reconciles => next_reconcile # "off"
        /\ IsClean /\ Enrich => next_checker_flush # "off"
        /\ ~IsClean => next_reconcile = "off"

(***************************************************************************)
(* The loop implements the obligations: a change is owed an index          *)
(* publication, a boundary a full one, a checker input a checker           *)
(* publication, and each obligation ends only with what discharges it.     *)
(***************************************************************************)
RefreshPublished ==
    \/ desired_generation = completed_generation
    \/ \E w \in {active, ready, retry} :
          Current(w) /\ (w.phase # "refresh" \/ pc = "refreshed")

OwedNow ==
    (IF RefreshPublished THEN {}
     ELSE {"index"} \cup (IF refresh_scope = "full" THEN {"full"} ELSE {}))
    \cup (IF checker_refresh_required \/ checker_dirty_source_paths # {}
          THEN {"checker"} ELSE {})

Promise == INSTANCE WatchObligations WITH
    CheckerOn <- Enrich, owed <- OwedNow, parked <- checker_paused,
    settled <- IsClean, published <- published_scope

KeepsObligations == Promise!ObligationsSpec

(***************************************************************************)
(* Once edits stop, the watcher settles: no failure, retry, supersession   *)
(* or timer leaves it waiting for work nobody will start.                  *)
(***************************************************************************)
Settles == []<>(IsClean \/ pc = "stopped")

(***************************************************************************)
(* An edit whose notification was lost is repaired by reconciliation       *)
(* (unless the checker, whose part of the repair it is, stays parked).     *)
(***************************************************************************)
MissedRepaired ==
    missed # {} ~> (missed = {} \/ checker_paused \/ pc = "stopped")

(***************************************************************************)
(* A drift flush that fired is completed, or waits on a parked checker.    *)
(***************************************************************************)
FlushCompletes ==
    force_full_enrichment
        ~> (~force_full_enrichment \/ checker_paused \/ pc = "stopped")

(* Nothing the loop has begun, missed or scheduled is left undone for ever.  *)
Progresses ==
    /\ Settles
    /\ MissedRepaired
    /\ FlushCompletes

=============================================================================
