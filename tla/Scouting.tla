------------------------------ MODULE Scouting ------------------------------
(***************************************************************************)
(* The scouting commands (src/src/scouting/mod.rs): `jscout scout          *)
(* workflows|cards|summaries|concepts [--rebuild]` and `jscout scout       *)
(* refresh`, run by several processes over one SemanticStore while the     *)
(* index and the MCP annotate tool change it.                              *)
(*                                                                         *)
(* A command plans a stage, then works through it in waves: it claims runs *)
(* one transaction each until the wave is full, sends the wave to the      *)
(* model, and finishes every claimed run, the good ones by publishing an   *)
(* artifact.  A new wave starts when the wave before it is finished.       *)
(*                                                                         *)
(* Abstractions: within a stage the items are taken in any order; a stage  *)
(* is planned in one step; a run's age is not counted, so that the sweep   *)
(* of "old" running rows may take any of them.                             *)
(***************************************************************************)
EXTENDS SemanticStore

CONSTANTS
    Proc,            \* the scouting processes
    Jobs,            \* the commands they may be given
    MaxConcurrency,  \* --max-concurrency
    MaxCalls,        \* --max-calls
    MaxStarts,       \* bound: commands started
    MaxEdits,        \* bound: changes of the index, annotations and crashes
    Budgeted         \* the subjects whose evidence may exceed --context-bytes

ASSUME ScoutingAssumption ==
    /\ MaxConcurrency \in Nat \ {0}
    /\ MaxCalls \in Nat
    /\ Budgeted \subseteq Subjects

VARIABLES
    pc,       \* Proc -> idle, plan, wave, claim, finish, publish, abort
    mode,     \* Proc -> scout, rebuild, refresh
    stages,   \* Proc -> the sets of kinds still to plan, in order
    targets,  \* Proc -> the artifacts a refresh selected
    pending,  \* Proc -> prepared items not yet scheduled
    item,     \* Proc -> the item being claimed or published
    wave,     \* Proc -> the claimed runs that wait for their outcome
    tracked,  \* Proc -> StagedRunGuard.run_ids
    calls,    \* Proc -> model_calls of the command
    failed,   \* Proc -> first_error.is_some()
    starts, edits

command == <<pc, mode, stages, targets, pending, item, wave, tracked, calls, failed>>
vars == <<store, command, starts, edits>>

Ranks == <<Grounded, {"file"}, {"module"}, {"repository"}, {"concept"}>>

(* The commands: what each plans, stage after stage. *)
ScoutWorkflows == <<{"workflow"}>>
ScoutCards     == <<{"card"}>>
ScoutSummaries == <<{"file"}, {"module"}, {"repository"}>>
ScoutConcepts  == <<{"concept"}>>
Commands == [mode : {"scout", "rebuild"},
             stages : {ScoutWorkflows, ScoutCards, ScoutSummaries, ScoutConcepts}]
            \cup {[mode |-> "refresh", stages |-> Ranks]}

Go(p, label) == pc' = [pc EXCEPT ![p] = label]

Init ==
    /\ StoreInit
    /\ pc = [p \in Proc |-> "idle"]
    /\ mode = [p \in Proc |-> "scout"]
    /\ stages = [p \in Proc |-> <<>>]
    /\ targets = [p \in Proc |-> {}]
    /\ pending = [p \in Proc |-> {}]
    /\ item = [p \in Proc |-> None]
    /\ wave = [p \in Proc |-> {}]
    /\ tracked = [p \in Proc |-> {}]
    /\ calls = [p \in Proc |-> 0]
    /\ failed = [p \in Proc |-> FALSE]
    /\ starts = 0
    /\ edits = 0

(* The command returns: everything the process held is dropped. *)
Reset(p) ==
    /\ Go(p, "idle")
    /\ stages' = [stages EXCEPT ![p] = <<>>]
    /\ targets' = [targets EXCEPT ![p] = {}]
    /\ pending' = [pending EXCEPT ![p] = {}]
    /\ item' = [item EXCEPT ![p] = None]
    /\ wave' = [wave EXCEPT ![p] = {}]
    /\ tracked' = [tracked EXCEPT ![p] = {}]
    /\ calls' = [calls EXCEPT ![p] = 0]
    /\ failed' = [failed EXCEPT ![p] = FALSE]
    /\ UNCHANGED mode

-----------------------------------------------------------------------------
(* Starting and planning.                                                  *)

(* refresh::select: current generated artifacts that are not fresh. *)
Selected == {i \in Current : artifacts[i].run # 0 /\ Freshness[i] # "fresh"}

(* Every command sweeps the running rows that look dead before it plans. *)
SweepOrphanedRuns(old) == runs' = Mark(old, "failed")

Start(p, job, old) ==
    /\ pc[p] = "idle"
    /\ starts < MaxStarts
    /\ starts' = starts + 1
    /\ SweepOrphanedRuns(old)
    /\ mode' = [mode EXCEPT ![p] = job.mode]
    /\ stages' = [stages EXCEPT ![p] = job.stages]
    /\ targets' = [targets EXCEPT ![p] = IF job.mode = "refresh" THEN Selected ELSE {}]
    /\ Go(p, "plan")
    /\ UNCHANGED <<code, links, artifacts, pending, item, wave, tracked, calls, failed, edits>>

(* prepare_*: the exact input of one subject, and the artifact to replace.   *)
(* `links` is history: the edges the plan was made with.                     *)
Item(s, replaces) ==
    [subject |-> s, input |-> InputOf(s), snapshot |-> code, links |-> links,
     children |-> ExpectedChildren(s), replaces |-> replaces, lineage |-> 0]

PlannedItems(kinds) ==
    {Item(s, 0) : s \in {x \in Subjects : KindOf[x] \in kinds /\ Scoutable(x)}}

(* A target whose recorded scope no longer resolves is reported and skipped. *)
RefreshItems(kinds, ts) ==
    {Item(artifacts[t].subject, t) :
       t \in {x \in ts : /\ KindOf[artifacts[x].subject] \in kinds
                         /\ Scoutable(artifacts[x].subject)}}

Prepared(p) ==
    IF mode[p] = "refresh" THEN RefreshItems(Head(stages[p]), targets[p])
                           ELSE PlannedItems(Head(stages[p]))

(* A stage is planned only after the stage before it has published.  Items   *)
(* over the context budget are reported and skipped.                         *)
PlanStage(p) ==
    /\ pc[p] = "plan"
    /\ stages[p] # <<>>
    /\ \E over \in SUBSET Budgeted :
         pending' = [pending EXCEPT ![p] = {it \in Prepared(p) : it.subject \notin over}]
    /\ stages' = [stages EXCEPT ![p] = Tail(@)]
    /\ Go(p, "wave")
    /\ UNCHANGED <<store, mode, targets, item, wave, tracked, calls, failed, starts, edits>>

Finished(p) ==
    /\ pc[p] = "plan"
    /\ stages[p] = <<>>
    /\ Reset(p)
    /\ UNCHANGED <<store, starts, edits>>

-----------------------------------------------------------------------------
(* Scheduling a wave.                                                      *)

BudgetSpent(p) == calls[p] >= MaxCalls

(* claim_prepared_concept pins the lineage before it claims. *)
Pinned(it) ==
    IF KindOf[it.subject] = "concept"
    THEN [it EXCEPT !.lineage = Newest(CurrentOf(it.subject))] ELSE it

TakeItem(p, it) ==
    /\ pc[p] = "wave"
    /\ Cardinality(wave[p]) < MaxConcurrency
    /\ pending' = [pending EXCEPT ![p] = @ \ {it}]
    /\ LET reusable == mode[p] # "rebuild" /\ ReusableFor(it.input) # {} IN
       IF ~reusable /\ BudgetSpent(p)
       THEN UNCHANGED <<pc, item>>                    \* skipped_for_call_budget
       ELSE Go(p, "claim") /\ item' = [item EXCEPT ![p] = Pinned(it)]
    /\ UNCHANGED <<store, mode, stages, targets, wave, tracked, calls, failed, starts, edits>>

(* What the claimed run will replace, and its row. *)
Replaced(it) == IF it.replaces # 0 THEN it.replaces ELSE CurrentForInput(it.input)

NewRun(it) == [subject |-> it.subject, input |-> it.input, status |-> "running"]

LineageBroken(it) ==
    KindOf[it.subject] = "concept" /\ it.replaces \notin {0, it.lineage}

LineageMoved(it) ==
    KindOf[it.subject] = "concept" /\ Replaced(it) \notin {0, it.lineage}

Retired(p) ==
    IF mode[p] = "rebuild" THEN CompletedFor(item[p].input) ELSE OutdatedFor(item[p].input)

ClaimReused(p) ==
    /\ mode[p] # "rebuild"
    /\ ReusableFor(item[p].input) # {}
    /\ runs' = Mark(Retired(p), "superseded")
    /\ Go(p, "wave")
    /\ UNCHANGED <<wave, tracked, calls>>

(* A running row of the same inputs: the transaction rolls back and the      *)
(* command ends.                                                             *)
ClaimRefused(p) ==
    /\ mode[p] = "rebuild" \/ ReusableFor(item[p].input) = {}
    /\ Occupied(item[p].input, Retired(p))
    /\ Go(p, "abort")
    /\ UNCHANGED <<runs, wave, tracked, calls>>

ClaimGranted(p) ==
    LET it == item[p] IN
    /\ mode[p] = "rebuild" \/ ReusableFor(it.input) = {}
    /\ ~Occupied(it.input, Retired(p))
    /\ IF LineageMoved(it)
       THEN /\ runs' = Append(Mark(Retired(p), "superseded"),
                              [NewRun(it) EXCEPT !.status = "incomplete"])
            /\ Go(p, "abort")
            /\ UNCHANGED <<wave, tracked, calls>>
       ELSE /\ runs' = Append(Mark(Retired(p), "superseded"), NewRun(it))
            /\ wave' = [wave EXCEPT ![p] = @ \cup
                          {[it |-> it, run |-> Len(runs) + 1, replaces |-> Replaced(it),
                            context |-> None]}]
            /\ tracked' = [tracked EXCEPT ![p] = @ \cup {Len(runs) + 1}]
            /\ calls' = [calls EXCEPT ![p] = @ + 1]
            /\ Go(p, "wave")

(* ledger::claim_run, one immediate transaction. *)
ClaimRun(p) ==
    /\ pc[p] = "claim"
    /\ IF LineageBroken(item[p])
       THEN Go(p, "abort") /\ UNCHANGED <<runs, wave, tracked, calls>>
       ELSE ClaimReused(p) \/ ClaimRefused(p) \/ ClaimGranted(p)
    /\ item' = [item EXCEPT ![p] = None]
    /\ UNCHANGED <<code, links, artifacts, mode, stages, targets, pending, failed, starts, edits>>

(* The wave is full or nothing is left: complete_batch. *)
Dispatch(p) ==
    /\ pc[p] = "wave"
    /\ pending[p] = {} \/ Cardinality(wave[p]) >= MaxConcurrency
    /\ Go(p, "finish")
    /\ UNCHANGED <<store, mode, stages, targets, pending, item, wave, tracked, calls,
                   failed, starts, edits>>

-----------------------------------------------------------------------------
(* Finishing a claimed run.                                                *)

(* finish_run moves a running row only; otherwise it is an error. *)
FinishRun(r, status) == runs' = IF Running(r) THEN Mark({r}, status) ELSE runs

Resolve(p, r) ==
    /\ tracked' = [tracked EXCEPT ![p] = @ \ {r}]
    /\ UNCHANGED failed

KeepError(p) ==
    /\ failed' = [failed EXCEPT ![p] = TRUE]
    /\ UNCHANGED tracked

(* The model's answer was refused, or the gateway reported a timeout or a    *)
(* contract failure for this request alone: the batch goes on.               *)
SubjectFails(p, w, status) ==
    /\ FinishRun(w.run, status)
    /\ IF Running(w.run) THEN Resolve(p, w.run) ELSE KeepError(p)
    /\ Go(p, "finish") /\ UNCHANGED item

(* Cancellation, a poisoned connection or a missing outcome. *)
GatewayFails(p, w) ==
    /\ FinishRun(w.run, "failed")
    /\ KeepError(p)
    /\ Go(p, "finish") /\ UNCHANGED item

(* validate_annotate_input: the index moved, the file on disk is ahead of the *)
(* index, or the predecessor has been replaced.                               *)
Predecessor(w) ==
    IF KindOf[w.it.subject] = "concept" THEN w.it.lineage ELSE w.replaces

InputsChanged(p, w) ==
    /\ FinishRun(w.run, "incomplete")
    /\ KeepError(p)
    /\ Go(p, "finish") /\ UNCHANGED item

StillValid(w) == code = w.it.snapshot /\ Predecessor(w) \in Current \cup {0}

(* The context hashes are taken here, before the publication transaction. *)
InputsValid(p, w) ==
    /\ StillValid(w)
    /\ item' = [item EXCEPT ![p] = [w EXCEPT !.context = ContextOf(w.it.subject)]]
    /\ Go(p, "publish")
    /\ UNCHANGED <<runs, tracked, failed>>

Finish(p, w) ==
    /\ pc[p] = "finish"
    /\ wave' = [wave EXCEPT ![p] = @ \ {w}]
    /\ \/ \E status \in {"failed", "incomplete"} : SubjectFails(p, w, status)
       \/ GatewayFails(p, w)
       \/ InputsChanged(p, w)
       \/ InputsValid(p, w)
    /\ UNCHANGED <<code, links, artifacts, mode, stages, targets, pending, calls, starts, edits>>

(* The checks each kind repeats inside the publication transaction, and the  *)
(* predecessor it settles on.                                                *)
WorkflowPredecessor(w) == w.replaces
CardPredecessorClaimed(w) == w.replaces
CardPredecessor(w) ==
    IF w.replaces # 0 THEN w.replaces ELSE Newest(CurrentOf(w.it.subject))
SummaryPredecessor(w) ==
    IF w.replaces # 0 THEN w.replaces ELSE Newest(CurrentOf(w.it.subject))

SummaryUnchanged(w) == ExpectedChildren(w.it.subject) = w.it.children
ConceptUnchanged(w) ==
    /\ ExpectedChildren(w.it.subject) = w.it.children
    /\ Newest(CurrentOf(w.it.subject)) = w.it.lineage

PublishedPredecessor(w) ==
    CASE KindOf[w.it.subject] = "workflow" -> WorkflowPredecessor(w)
      [] KindOf[w.it.subject] = "card" -> CardPredecessor(w)
      [] KindOf[w.it.subject] \in Summaries -> SummaryPredecessor(w)
      [] OTHER -> w.it.lineage

RecheckCodeOnly(w) == code = w.it.snapshot
RecheckPasses(w) ==
    /\ code = w.it.snapshot
    /\ KindOf[w.it.subject] \in Summaries => SummaryUnchanged(w)
    /\ KindOf[w.it.subject] = "concept" => ConceptUnchanged(w)

(* The row constraint: an artifact has one successor at most. *)
Insertable(w) == PublishedPredecessor(w) = 0 \/ ~HasSuccessor(PublishedPredecessor(w))

(* The terminal transition of the same transaction needs the row to be       *)
(* running still: a sweep may have taken it.                                 *)
StillOwnedUnchecked(w) == TRUE
StillOwned(w) == Running(w.run)

PublishArtifact(w, body) ==
    LET pred == PublishedPredecessor(w) IN
    /\ artifacts' = Append(artifacts, Artifact(w.it.subject, w.run, pred,
                                               w.it.snapshot, w.context,
                                               w.it.children, body))
    /\ runs' = [Mark(GeneratingRun(pred), "superseded") EXCEPT ![w.run].status = "completed"]

Publish(p) ==
    LET w == item[p] IN
    /\ pc[p] = "publish"
    /\ IF RecheckPasses(w) /\ Insertable(w) /\ StillOwned(w)
       THEN /\ \E body \in Bodies : PublishArtifact(w, body)
            /\ Resolve(p, w.run)
       ELSE /\ FinishRun(w.run, "incomplete")          \* rolled back
            /\ UNCHANGED artifacts
            /\ KeepError(p)
    /\ item' = [item EXCEPT ![p] = None]
    /\ Go(p, "finish")
    /\ UNCHANGED <<code, links, mode, stages, targets, pending, wave, calls, starts, edits>>

EndWave(p) ==
    /\ pc[p] = "finish"
    /\ wave[p] = {}
    /\ Go(p, IF failed[p] THEN "abort" ELSE IF pending[p] = {} THEN "plan" ELSE "wave")
    /\ UNCHANGED <<store, mode, stages, targets, pending, item, wave, tracked, calls,
                   failed, starts, edits>>

(* The batch returns its first error; dropping StagedRunGuard fails every    *)
(* run that has not reached a terminal status.                               *)
Abort(p) ==
    /\ pc[p] = "abort"
    /\ runs' = Mark({r \in tracked[p] : Running(r)}, "failed")
    /\ Reset(p)
    /\ UNCHANGED <<code, links, artifacts, starts, edits>>

(* The process is killed: nothing is cleaned up. *)
Crash(p) ==
    /\ pc[p] # "idle"
    /\ edits < MaxEdits
    /\ edits' = edits + 1
    /\ Reset(p)
    /\ UNCHANGED <<store, starts>>

-----------------------------------------------------------------------------
Step(p) ==
    \/ PlanStage(p) \/ Finished(p)
    \/ \E it \in pending[p] : TakeItem(p, it)
    \/ ClaimRun(p) \/ Dispatch(p)
    \/ \E w \in wave[p] : Finish(p, w)
    \/ Publish(p) \/ EndWave(p) \/ Abort(p)

Surroundings ==
    /\ edits < MaxEdits
    /\ edits' = edits + 1
    /\ \/ \E f \in Files, v \in Versions : Reindex(f, v)
       \/ RebuildProjection
       \/ \E s \in Subjects, b \in Bodies, i \in ArtifactIds \cup {0} : Annotate(s, b, i)
    /\ UNCHANGED <<command, starts>>

StartCommand(p) ==
    \E job \in Jobs, old \in SUBSET {r \in RunIds : Running(r)} : Start(p, job, old)

Next ==
    \/ \E p \in Proc : StartCommand(p) \/ Step(p) \/ Crash(p)
    \/ Surroundings

Spec == Init /\ [][Next]_vars

-----------------------------------------------------------------------------
(* Properties.                                                             *)

(* Scouting keeps one current card per anchor, one summary per scope and one *)
(* concept per term, whatever the processes and their crashes do: each       *)
(* publication replaces the current artifact inside its own transaction.     *)
OneCurrentPerSubject ==
    \A s \in Subjects : KindOf[s] # "workflow" => Cardinality(CurrentOf(s)) <= 1

(* The ledger and the artifacts agree: a completed run has published exactly *)
(* one artifact, no run that failed, was swept or is running has any, and    *)
(* one input has one run in progress or completed.                           *)
LedgerAgrees ==
    /\ \A q, r \in RunIds :
         /\ q # r
         /\ runs[q].input = runs[r].input
         /\ Running(q) \/ Completed(q)
         => ~Running(r) /\ ~Completed(r)
    /\ \A r \in RunIds : Completed(r) =>
         Cardinality({i \in ArtifactIds : artifacts[i].run = r}) = 1
    /\ \A i \in ArtifactIds : artifacts[i].run # 0 =>
         runs[artifacts[i].run].status \in {"completed", "superseded"}

(* A claim is refused only for a run that is really in progress: inputs that *)
(* go from A to B and back to A, or a rebuild, never find their own finished *)
(* run in the way.                                                           *)
RefusedOnlyWhileRunning ==
    \A p \in Proc :
      (/\ pc[p] = "claim"
       /\ mode[p] = "rebuild" \/ ReusableFor(item[p].input) = {}
       /\ Occupied(item[p].input, Retired(p)))
      => \E r \in RunIds : runs[r].input = item[p].input /\ Running(r)

(* The ledger tells the truth about runs, artifacts and occupied inputs.     *)
LedgerHonest ==
    /\ LedgerAgrees
    /\ RefusedOnlyWhileRunning

(* What the publication of a run writes is not out of date when it commits,  *)
(* by the freshness rules every later read applies: the sources it rests on, *)
(* and those its children rest on when it is a concept, are the indexed      *)
(* ones; a summary or concept covers its current children.  A checker may    *)
(* rebuild the edges without moving the code digest, and nothing looks at    *)
(* the context hashes again: only while the edges are those it was written   *)
(* from (a concept: planned with) is it wholly fresh.                        *)
RestsOn(i) == IF KindOf[artifacts[i].subject] = "concept" THEN artifacts[i].children ELSE {i}

EdgesKept(w) ==
    IF KindOf[w.it.subject] = "concept" THEN w.it.links = links
                                        ELSE w.context = ContextOf(w.it.subject)

SourcesCurrent(i) ==
    \A c \in RestsOn(i) : \A x \in AnchorsOf[artifacts[c].subject] : SourceCurrent(c, x)

PublishedFresh ==
    [][\A i \in ArtifactIds' \ ArtifactIds :
         artifacts'[i].run # 0 =>
           /\ SourcesCurrent(i)'
           /\ KindOf[artifacts'[i].subject] \notin Grounded => Freshness'[i] # "stale"
           /\ \E p \in Proc :
                /\ pc[p] = "publish" /\ item[p].run = artifacts'[i].run
                /\ EdgesKept(item[p]) /\ KindOf[artifacts'[i].subject] \notin Summaries
                   => Freshness'[i] = "fresh"]_vars

(* Only a crash abandons a claim: a command that returns, for whatever       *)
(* error, leaves none of its runs in progress.                               *)
NoLeakedClaim ==
    [][\A r \in RunIds' :
         runs'[r].status = "running" =>
           \/ \E p \in Proc : r \in tracked'[p]
           \/ r \in RunIds /\ \A p \in Proc : r \notin tracked[p]
           \/ edits' # edits]_vars

(* What a command leaves behind is good: artifacts that rest on what is      *)
(* current, and no run in progress.                                          *)
LeavesSound ==
    /\ PublishedFresh
    /\ NoLeakedClaim

(* Scouting implements the register of every subject but the workflows, of   *)
(* which one seed may have several.                                          *)
Registered == {s \in Subjects : KindOf[s] # "workflow"}
Register == INSTANCE ScoutRegister WITH
    Entries <- Registered, register <- [s \in Registered |-> CurrentOf(s)]
ImplementsRegister == Register!RegisterSpec

(* A refresh that ends within its budget and without a failed run has        *)
(* replaced every target it could prepare: the promise of the refresh        *)
(* command, which publishes successors of what it selected.  The code does   *)
(* not have this property, as the README explains.                           *)
RefreshReplaces ==
    [][\A p \in Proc :
         (/\ Finished(p)
          /\ mode[p] = "refresh"
          /\ calls[p] < MaxCalls
          /\ \A r \in RunIds : Completed(r) \/ runs[r].status = "superseded")
         => \A t \in targets[p] :
              HasSuccessor(t) \/ ~Scoutable(artifacts[t].subject)]_vars
=============================================================================
