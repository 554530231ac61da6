------------------------- MODULE CheckerPublication -------------------------
(***************************************************************************)
(* The life of a checker publication: how `enrich` (src/checker/enrich.rs) *)
(* stages, carries and activates the answers of the type checker in        *)
(* batches, how the index builder (src/indexer.rs, src/store.rs) retains,  *)
(* rebinds or drops them, and how src/structural.rs projects the active    *)
(* batch onto the graph.                                                   *)
(*                                                                         *)
(* Every SQLite transaction is one action; the reads that prepare it       *)
(* belong to its action.  Between two transactions a process may die, and  *)
(* another process may run.                                                *)
(*                                                                         *)
(* Each source file has one member call, so a file stands for its          *)
(* occurrence; a fact leads from it to a declaration in Target[file].      *)
(* A call's rowid matters only for equality: `rows` numbers the            *)
(* extraction that assigned the rowids.  Confidence is left out.           *)
(***************************************************************************)
EXTENDS Naturals, FiniteSets

CONSTANTS
    Files,          \* checker-eligible source files
    Projects,       \* configured checker projects
    Members,        \* Members[p]: the files project p owns
    Target,         \* Target[f]: the file that declares what f calls
    Unanswered,     \* <<p, v>>: under version v of its config p resolves nothing
    Enrichers,      \* processes that run `enrich`
    Mode,           \* Mode[e]: "carry" (watch), "plain" (manual), "full" (--full)
    IndexKinds,     \* the kinds of index publication in a run
    EditKinds,      \* the kinds of input edited in a run
    Concurrent,     \* the index is also published while an enricher runs
    TornActivation, \* a process may die between activation and projection
    MaxEdits, MaxIndexes, MaxRuns, MaxFaults,   \* bounds
    None

Versions == {0, 1}     \* an edit toggles, so it may also restore a version
Inputs   == ({"src"} \X Files \X Versions)
                \cup ({"conf", "ext"} \X Projects \X Versions)

ASSUME PublicationAssumption ==
    /\ Members \in [Projects -> SUBSET Files]
    /\ \A p \in Projects : Members[p] # {}
    /\ Target \in [Files -> Files]
    /\ Mode \in [Enrichers -> {"carry", "plain", "full"}]
    /\ IsFiniteSet(Files) /\ IsFiniteSet(Projects)

VARIABLES
    disk,       \* versions of the working tree
    index,      \* versions in the published index, and the rowids' extraction
    batches,    \* checker_enrichment_batches with their rows, by id
    graph,      \* the structural graph: what it was built from, and its facts
    proc,       \* the running enrichers
    spent       \* what the bounds have used up

vars == <<disk, index, batches, graph, proc, spent>>

Digest(i) == <<i.src, i.rust>>
Snapshot == Digest(index)

-----------------------------------------------------------------------------
(* Checker inputs.                                                         *)

Holds(d, input) ==
    CASE input[1] = "src"  -> d.src[input[2]] = input[3]
      [] input[1] = "conf" -> d.conf[input[2]] = input[3]
      [] input[1] = "ext"  -> d.ext[input[2]] = input[3]

AllHold(d, inputs) == \A i \in inputs : Holds(d, i)

(* The program of a project: its members, and what they refer to. *)
Program(p) == Members[p] \cup {Target[f] : f \in Members[p]}

(* The input identity the checker computes: config, sources, externals. *)
InputsOf(p, d) ==
    {<<"src", f, d.src[f]>> : f \in Program(p)}
        \cup {<<"conf", p, d.conf[p]>>, <<"ext", p, d.ext[p]>>}

External(inputs) == {i \in inputs : i[1] = "ext"}

(***************************************************************************)
(* Batches.  A run's `cover` holds its rows of checker_occurrence_projects *)
(* together with the fact the answer gave; `fp` is the input identity the  *)
(* answer was computed from ({} for an answer that never came).            *)
(***************************************************************************)
Fact(row) == row.target # None
Healthy(rows) == {r \in rows : r.status # "failed"}
TargetCurrent(i, row) == row.target = i.src[Target[row.file]]

Publishable(run) == run.status \in {"completed", "partial"}
Covers(run, p) ==
    Cardinality(run.cover) = Cardinality(Members[p]) /\ Healthy(run.cover) = run.cover

(* project_inputs_fresh: no inputs are fresh only for a carried run. *)
InputsFresh(run, d) ==
    IF run.inputs = {} THEN run.kind = "carried" ELSE AllHold(d, run.inputs)

CompleteOnly(run, d) == run.status = "completed"
CompleteAndFresh(run, d) == run.status = "completed" /\ InputsFresh(run, d)

Active == {b \in DOMAIN batches : batches[b].active}
Newest(ids) == CHOOSE b \in ids : \A c \in ids : c <= b

Only(table, ids) == [b \in DOMAIN table \cap ids |-> table[b]]
With(table, id, batch) ==
    [b \in DOMAIN table \cup {id} |-> IF b = id THEN batch ELSE table[b]]
NextId(table) == IF DOMAIN table = {} THEN 1 ELSE Newest(DOMAIN table) + 1

Deactivated(table, ids) ==
    [b \in DOMAIN table |-> [table[b] EXCEPT !.active = @ /\ b \notin ids]]

FactsOf(b) == {r \in UNION {batches[b].runs[p].cover : p \in Projects} : Fact(r)}

(* The facts, by project, that batch b of `table` publishes. *)
Published(table, b) ==
    UNION {{<<p, r>> : r \in {x \in table[b].runs[p].cover : Fact(x)}} :
              p \in {q \in Projects : Publishable(table[b].runs[q])}}

(***************************************************************************)
(* rebuild_projection: the canonical tables and the facts of the active    *)
(* batch, if that is bound to the digest the caller asks for.              *)
(***************************************************************************)
Projectable(row, i) ==
    row.rows = i.rows /\ row.src = i.src[row.file] /\ TargetCurrent(i, row)

ProjectionChecked(table, i, snapshot) ==
    LET bound == {b \in DOMAIN table : table[b].active /\ table[b].snapshot = snapshot}
    IN  [digest |-> Digest(i), rows |-> i.rows,
         facts |-> {x \in UNION {Published(table, b) : b \in bound} :
                       /\ Projectable(x[2], i)
                       /\ \E b \in bound : table[b].runs[x[1]].kind = "checked"}]

Projection(table, i, snapshot) ==
    LET bound == {b \in DOMAIN table : table[b].active /\ table[b].snapshot = snapshot}
    IN  [digest |-> Digest(i), rows |-> i.rows,
         facts |-> {x \in UNION {Published(table, b) : b \in bound} :
                       Projectable(x[2], i)}]

-----------------------------------------------------------------------------
Idle == [pc |-> "idle"]

Init ==
    /\ disk = [src |-> [f \in Files |-> 0], rust |-> 0,
               conf |-> [p \in Projects |-> 0], ext |-> [p \in Projects |-> 0]]
    /\ index = [src |-> disk.src, rust |-> 0, rows |-> 0]
    /\ batches = <<>>
    /\ graph = Projection(batches, index, Snapshot)
    /\ proc = [e \in Enrichers |-> Idle]
    /\ spent = [edits |-> 0, indexes |-> 0, runs |-> 0, faults |-> 0]

Spend(what, bound) ==
    /\ spent[what] < bound
    /\ spent' = [spent EXCEPT ![what] = @ + 1]

Edit ==
    /\ Spend("edits", MaxEdits)
    /\ \/ /\ "src" \in EditKinds
          /\ \E f \in Files : disk' = [disk EXCEPT !.src[f] = 1 - @]
       \/ /\ "rust" \in EditKinds
          /\ disk' = [disk EXCEPT !.rust = 1 - @]
       \/ /\ "conf" \in EditKinds
          /\ \E p \in Projects : disk' = [disk EXCEPT !.conf[p] = 1 - @]
       \/ /\ "ext" \in EditKinds
          /\ \E p \in Projects : disk' = [disk EXCEPT !.ext[p] = 1 - @]
    /\ UNCHANGED <<index, batches, graph, proc>>

-----------------------------------------------------------------------------
(* enrich(), from its plan to its publication.                             *)

At(e, pc) == proc[e].pc = pc
Step(e, next) == proc' = [proc EXCEPT ![e] = next]
Goto(e, pc) == Step(e, [proc[e] EXCEPT !.pc = pc])
Leave(e) == Step(e, Idle)

(* The plan: the occurrences (by rowid) and each project's config. *)
PlanOf == [snapshot |-> Snapshot, rows |-> index.rows, conf |-> disk.conf]

(* The indexed sources of every selected occurrence must be on disk. *)
Plan(e) ==
    /\ At(e, "idle")
    /\ disk.src = index.src
    /\ Spend("runs", MaxRuns)
    /\ Step(e, [pc |-> "reuse", plan |-> PlanOf, batch |-> 0, seen |-> disk,
                since |-> spent.edits, jobs |-> {},
                work |-> [p \in Projects |-> {}], lost |-> [p \in Projects |-> {}],
                failed |-> FALSE])
    /\ UNCHANGED <<disk, index, batches, graph>>

(* The freshness cache answers with the tree as first read, or as it is. *)
Observed(e) == {proc[e].seen, disk}

SameDigest(e, b) == batches[b].snapshot = proc[e].plan.snapshot
SamePlan(e, b) == SameDigest(e, b) /\ batches[b].plan = proc[e].plan

(* reusable_completed_batch: the publication, or a stamped empty batch. *)
Reusable(e, d) ==
    {b \in DOMAIN batches :
        /\ SamePlan(e, b)
        /\ batches[b].active \/ (batches[b].stamped /\ FactsOf(b) = {})
        /\ \A p \in Projects :
              /\ CompleteAndFresh(batches[b].runs[p], d)
              /\ Cardinality(Healthy(batches[b].runs[p].cover))
                    = Cardinality(Members[p])}

Reuse(e) ==
    /\ At(e, "reuse")
    /\ Mode[e] # "full"
    /\ \E d \in Observed(e) : Reusable(e, d) # {}
    /\ Leave(e)
    /\ UNCHANGED <<disk, index, batches, graph, spent>>

NoneStale(e, d) == {}

(* deactivate_stale_active_batch, for a run that does not carry. *)
StaleActive(e, d) ==
    {b \in Active :
        /\ SameDigest(e, b)
        /\ \E p \in Projects :
              Publishable(batches[b].runs[p]) /\ ~InputsFresh(batches[b].runs[p], d)}

CheckReuse(e) ==
    /\ At(e, "reuse")
    /\ \E d \in Observed(e) :
          /\ Mode[e] = "full" \/ Reusable(e, d) = {}
          /\ LET stale == IF Mode[e] = "carry" THEN {} ELSE StaleActive(e, d)
             IN  /\ batches' = Deactivated(batches, stale)
                 /\ Goto(e, IF stale = {} THEN "open" ELSE "retire")
    /\ UNCHANGED <<disk, index, graph, spent>>

RebuildPlanned(e) ==
    graph' = [Projection(batches, index, proc[e].plan.snapshot)
                EXCEPT !.digest = proc[e].plan.snapshot]
Rebuild(e) == graph' = Projection(batches, index, proc[e].plan.snapshot)

ProjectRetirement(e) ==
    /\ At(e, "retire")
    /\ Rebuild(e)
    /\ Goto(e, "open")
    /\ UNCHANGED <<disk, index, batches, spent>>

(***************************************************************************)
(* open_staging_batch: resume the newest staging of this plan; else clone  *)
(* the incomplete publication of this plan; else start anew, keeping one   *)
(* inactive batch to carry from.                                           *)
(***************************************************************************)
Staging(e) ==
    {b \in DOMAIN batches :
        /\ Mode[e] # "full"
        /\ SamePlan(e, b)
        /\ \/ ~batches[b].active
           \/ \E p \in Projects : batches[b].runs[p].status # "completed"}

(* preserve_checker_carry_source_for_watch: one inactive batch remains. *)
CarrySource(batch) ==
    \E p \in Projects : batch.runs[p].status = "completed" /\ Covers(batch.runs[p], p)

RetainedNewest(table, inactive) == Newest(inactive)
Retained(table, inactive) ==
    LET useful == {b \in inactive : CarrySource(table[b])}
    IN  Newest(IF useful # {} THEN useful ELSE inactive)

Preserve(table) ==
    LET inactive == {b \in DOMAIN table : ~table[b].active}
    IN  IF inactive = {} THEN table
        ELSE Only(table, (DOMAIN table \ inactive) \cup {Retained(table, inactive)})

PendingRun(conf) ==
    [status |-> "pending", kind |-> "checked", conf |-> conf, inputs |-> {},
     cover |-> {}]

NewBatch(plan) ==
    [snapshot |-> plan.snapshot, plan |-> plan, active |-> FALSE, stamped |-> FALSE,
     runs |-> [p \in Projects |-> PendingRun(plan.conf[p])]]

(* clone_active_batch_for_resume: only answers no project failed to give. *)
FailedFiles(b) ==
    {r.file : r \in UNION {{x \in batches[b].runs[p].cover :
                                x.status = "failed" \/ batches[b].runs[p].status = "failed"}
                            : p \in Projects}}

ClonedRun(b, p) ==
    LET run  == batches[b].runs[p]
        rows == IF Publishable(run)
                THEN {r \in run.cover : r.file \notin FailedFiles(b)} ELSE {}
        full == Cardinality(rows) = Cardinality(Members[p])
    IN  [run EXCEPT
           !.status = IF run.status = "completed" /\ full THEN "completed" ELSE "pending",
           !.kind   = IF full THEN (IF run.status = "completed" THEN run.kind ELSE "mixed")
                      ELSE IF rows # {} THEN "mixed" ELSE "checked",
           !.inputs = IF Publishable(run) THEN run.inputs ELSE {},
           !.cover  = rows]

Clone(b) ==
    [batches[b] EXCEPT !.active = FALSE, !.stamped = FALSE,
                       !.runs = [p \in Projects |-> ClonedRun(b, p)]]

Resumable(e) == Staging(e) \ Active

OpenStaging(e) ==
    /\ At(e, "open")
    /\ LET kept == Preserve(batches)
           Opened(b) == Step(e, [proc[e] EXCEPT !.pc = "carry", !.batch = b])
       IN  IF Resumable(e) # {}
           THEN Opened(Newest(Resumable(e))) /\ UNCHANGED batches
           ELSE IF Staging(e) # {}
           THEN \E b \in Staging(e) :
                   /\ Opened(b + 1)
                   /\ batches' = With(Only(batches, Active), b + 1, Clone(b))
           ELSE /\ Opened(NextId(kept))
                /\ batches' = With(kept, NextId(kept), NewBatch(proc[e].plan))
    /\ UNCHANGED <<disk, index, graph, spent>>

(***************************************************************************)
(* carry_forward_projects: for each project the newest inactive batch, or  *)
(* else the publication, may be the source.  An occurrence is carried only *)
(* if every owner can carry it.  The other inactive batches are retired in *)
(* the same transaction.                                                   *)
(***************************************************************************)
Own(e) == proc[e].batch \in DOMAIN batches
Mine(e, p) == batches[proc[e].batch].runs[p]

CanSupply(e, b, p, d) ==
    LET run == batches[b].runs[p]
    IN  /\ run.status = "completed" /\ Covers(run, p)
        /\ run.conf = proc[e].plan.conf[p]
        /\ AllHold(d, External(run.inputs))

Source(e, p, d) ==
    LET inactive == DOMAIN batches \ (Active \cup {proc[e].batch})
        newest   == IF inactive = {} THEN {} ELSE {Newest(inactive)}
        others   == Active \ {proc[e].batch}
        Able(bs) == {b \in bs : CanSupply(e, b, p, d)}
    IN  IF Able(newest) # {} THEN Able(newest) ELSE Able(others)

Owners(f) == {p \in Projects : f \in Members[p]}

Carried(e, f, p, d) ==
    {r \in UNION {batches[b].runs[p].cover : b \in Source(e, p, d)} :
        /\ r.file = f
        /\ r.src = proc[e].plan.snapshot[1][f]
        /\ Fact(r) => TargetCurrent(index, r)}

CarriedFiles(e, d) ==
    {f \in Files : \A p \in Owners(f) : Carried(e, f, p, d) # {}}

CarriedRun(e, p, d) ==
    LET files == Members[p] \cap CarriedFiles(e, d)
        rows  == {[r EXCEPT !.rows = proc[e].plan.rows] :
                    r \in UNION {Carried(e, f, p, d) : f \in files}}
        full  == files = Members[p]
    IN  [Mine(e, p) EXCEPT
           !.status = IF full THEN "completed" ELSE @,
           !.kind   = IF full THEN "carried" ELSE IF rows # {} THEN "mixed" ELSE "checked",
           !.inputs = @ \cup (IF rows = {} THEN {} ELSE
                        UNION {External(batches[b].runs[p].inputs) : b \in Source(e, p, d)}),
           !.cover  = rows]

AlreadyStaged(e) == Own(e) /\ \E p \in Projects : Mine(e, p).cover # {}

UnretiredOwn(e) == Only(batches, {proc[e].batch})
Unretired(e) == Only(batches, Active \cup {proc[e].batch})

CarryForward(e) ==
    /\ At(e, "carry")
    /\ IF Mode[e] # "carry" \/ AlreadyStaged(e)
       THEN Goto(e, "prepare") /\ UNCHANGED batches
       ELSE \E d \in Observed(e) :
            IF Own(e)
            THEN /\ batches' = [Unretired(e) EXCEPT ![proc[e].batch].runs =
                                   [p \in Projects |-> CarriedRun(e, p, d)]]
                 /\ Goto(e, "prepare")
            ELSE IF CarriedFiles(e, d) = {}
            THEN batches' = Unretired(e) /\ Goto(e, "prepare")
            ELSE Leave(e) /\ UNCHANGED batches
    /\ UNCHANGED <<disk, index, graph, spent>>

(***************************************************************************)
(* The loop over the projects before any is checked: what is complete and  *)
(* fresh is skipped, what is covered but not fresh is reset.               *)
(***************************************************************************)
ResetRun(run) ==
    [run EXCEPT !.status = "pending", !.kind = "checked", !.inputs = {}, !.cover = {}]

Uncovered(e, p) ==
    Members[p] \ {r.file : r \in {x \in Healthy(Mine(e, p).cover) :
                                    x.rows = proc[e].plan.rows}}

PreparedRun(e, p) ==
    IF Cardinality(Healthy(Mine(e, p).cover)) = Cardinality(Members[p])
    THEN ResetRun(Mine(e, p)) ELSE [Mine(e, p) EXCEPT !.status = "pending"]

PrepareProjects(e) ==
    /\ At(e, "prepare")
    /\ \E d \in Observed(e) :
          LET jobs == {p \in Projects : ~(Own(e) /\ CompleteAndFresh(Mine(e, p), d))}
          IN  /\ Step(e, [proc[e] EXCEPT !.pc = "check", !.jobs = jobs])
              /\ batches' = IF ~Own(e) THEN batches
                            ELSE [batches EXCEPT ![proc[e].batch].runs =
                                    [p \in Projects |-> IF p \in jobs THEN PreparedRun(e, p)
                                                        ELSE Mine(e, p)]]
    /\ UNCHANGED <<disk, index, graph, spent>>

-----------------------------------------------------------------------------
(* execute_project: one checker process per project, jobs in parallel.     *)

Checking(e, p) == At(e, "check") /\ p \in proc[e].jobs /\ Own(e)
SetRun(e, p, run) == batches' = [batches EXCEPT ![proc[e].batch].runs[p] = run]
Working(e, p, inputs) == Step(e, [proc[e] EXCEPT !.work[p] = inputs])
Finished(e, p, failed) ==
    Step(e, [proc[e] EXCEPT !.jobs = @ \ {p}, !.work[p] = {}, !.failed = @ \/ failed])

(* Answers staged from other inputs go. *)
StagedRunAny(e, p, inputs) == Mine(e, p)
StagedRun(e, p, inputs) ==
    IF \A r \in Mine(e, p).cover : r.fp \in {{}, inputs} THEN Mine(e, p)
    ELSE ResetRun(Mine(e, p))

(* The checker loads the project. *)
StartProject(e, p) ==
    /\ Checking(e, p)
    /\ proc[e].work[p] = {}
    /\ Working(e, p, InputsOf(p, disk))
    /\ SetRun(e, p, StagedRun(e, p, InputsOf(p, disk)))
    /\ UNCHANGED <<disk, index, graph, spent>>

Loaded(inputs, f) == (CHOOSE i \in inputs : i[1] = "src" /\ i[2] = f)[3]

(* An answer maps to the indexed declaration the checker has seen. *)
Answer(e, p, f) ==
    LET inputs   == proc[e].work[p]
        resolved == \A v \in Versions :
                       <<"conf", p, v>> \in inputs => <<p, v>> \notin Unanswered
        target   == Loaded(inputs, Target[f])
    IN  [file |-> f, rows |-> proc[e].plan.rows, src |-> proc[e].plan.snapshot[1][f],
         status |-> IF resolved THEN "resolved" ELSE "unknown",
         target |-> IF resolved /\ target = index.src[Target[f]] THEN target ELSE None,
         fp |-> inputs]

FailedRow(e, f, inputs) ==
    [file |-> f, rows |-> proc[e].plan.rows, src |-> proc[e].plan.snapshot[1][f],
     status |-> "failed", target |-> None, fp |-> inputs]

OtherRows(e, p, files) ==
    {r \in Mine(e, p).cover : r.file \notin files \/ r.rows # proc[e].plan.rows}

(* stage_batch: the answers to one request, some of the pending files. *)
StageBatch(e, p) ==
    /\ Checking(e, p)
    /\ proc[e].work[p] # {}
    /\ \E files \in SUBSET (Uncovered(e, p) \ proc[e].lost[p]) \ {{}} :
          /\ \A f \in files : disk.src[f] = proc[e].plan.snapshot[1][f]
          /\ SetRun(e, p, [Mine(e, p) EXCEPT !.cover =
                 OtherRows(e, p, files) \cup {Answer(e, p, f) : f \in files}])
    /\ UNCHANGED <<disk, index, graph, proc, spent>>

(* stage_file_failed: the checker could not answer for one file.  Its        *)
(* preparation looks at every file of the project again, and what was        *)
(* staged for one that now fails goes too.                                   *)
StageFileFailed(e, p) ==
    /\ Checking(e, p)
    /\ proc[e].work[p] # {}
    /\ Spend("faults", MaxFaults)
    /\ \E f \in Members[p] \ proc[e].lost[p] :
          /\ Step(e, [proc[e] EXCEPT !.lost[p] = @ \cup {f}])
          /\ SetRun(e, p, [Mine(e, p) EXCEPT !.cover =
                {r \in @ : r.file # f} \cup {FailedRow(e, f, proc[e].work[p])}])
    /\ UNCHANGED <<disk, index, graph>>

(* complete_project, after the checker validated that its inputs stand. *)
CompletedRun(e, p) ==
    LET run     == Mine(e, p)
        healthy == Cardinality(Healthy(run.cover))
    IN  [run EXCEPT
           !.status = IF healthy = Cardinality(Members[p]) THEN "completed"
                      ELSE IF healthy = 0 THEN "failed" ELSE "partial",
           !.kind   = IF @ = "mixed" THEN "mixed" ELSE "checked",
           !.inputs = proc[e].work[p],
           !.cover  = {[r EXCEPT !.fp = proc[e].work[p]] : r \in @}]

CompleteProject(e, p) ==
    /\ Checking(e, p)
    /\ proc[e].work[p] # {}
    /\ Uncovered(e, p) \subseteq proc[e].lost[p]
    /\ AllHold(disk, proc[e].work[p])
    /\ Cardinality(Mine(e, p).cover) = Cardinality(Members[p])
    /\ SetRun(e, p, CompletedRun(e, p))
    /\ Finished(e, p, proc[e].lost[p] # {})
    /\ UNCHANGED <<disk, index, graph, spent>>

(* mark_project_failed: the checker failed, or its inputs have changed. *)
FailProject(e, p) ==
    /\ Checking(e, p)
    /\ \/ Spend("faults", MaxFaults)
       \/ /\ \/ proc[e].work[p] # {} /\ ~AllHold(disk, proc[e].work[p])
             \/ \E f \in Uncovered(e, p) : disk.src[f] # proc[e].plan.snapshot[1][f]
             \/ Cardinality(Mine(e, p).cover) > Cardinality(Members[p])
          /\ UNCHANGED spent
    /\ LET known == {r.file : r \in {x \in Mine(e, p).cover :
                                        x.rows = proc[e].plan.rows}}
       IN  SetRun(e, p, [Mine(e, p) EXCEPT !.status = "failed",
              !.cover = @ \cup {FailedRow(e, f, {}) : f \in Members[p] \ known}])
    /\ Finished(e, p, TRUE)
    /\ UNCHANGED <<disk, index, graph>>

(* The batch was deleted by another process: writing to it is an error. *)
LoseBatch(e) ==
    /\ At(e, "check")
    /\ ~Own(e)
    /\ Leave(e)
    /\ UNCHANGED <<disk, index, batches, graph, spent>>

-----------------------------------------------------------------------------
(* activate_staging_batch. *)

WellFormed(run, p) ==
    LET healthy  == Cardinality(Healthy(run.cover))
        selected == Cardinality(Members[p])
    IN  Publishable(run) =>
          /\ Cardinality(run.cover) = selected
          /\ run.status = "completed" => healthy = selected
          /\ run.status = "partial" => 0 < healthy /\ healthy < selected

Activatable(e) ==
    /\ Own(e)
    /\ Snapshot = proc[e].plan.snapshot
    /\ \A p \in Projects :
          /\ Mine(e, p).status # "pending"
          /\ ~proc[e].failed => Mine(e, p).status = "completed"
          /\ WellFormed(Mine(e, p), p)
          /\ AllHold(disk, Mine(e, p).inputs)
    /\ \E p \in Projects : Publishable(Mine(e, p))
    /\ \A r \in FactsOf(proc[e].batch) : TargetCurrent(index, r)

(* Nothing found while a publication of this digest stands: it is kept. *)
KeepsPublication(e) ==
    /\ FactsOf(proc[e].batch) = {}
    /\ \E b \in Active \ {proc[e].batch} : batches[b].snapshot = Snapshot

Activate(e) ==
    /\ At(e, "check")
    /\ proc[e].jobs = {}
    /\ Activatable(e)
    /\ ~KeepsPublication(e)
    /\ batches' = [Only(batches, {proc[e].batch})
                      EXCEPT ![proc[e].batch].active = TRUE,
                             ![proc[e].batch].stamped = TRUE]
    /\ Goto(e, "project")
    /\ UNCHANGED <<disk, index, graph, spent>>

StampEmpty(e) ==
    /\ At(e, "check")
    /\ proc[e].jobs = {}
    /\ Activatable(e)
    /\ KeepsPublication(e)
    /\ batches' = [Only(batches, Active \cup {proc[e].batch})
                      EXCEPT ![proc[e].batch].stamped = TRUE]
    /\ Leave(e)
    /\ UNCHANGED <<disk, index, graph, spent>>

RefuseActivation(e) ==
    /\ At(e, "check")
    /\ proc[e].jobs = {}
    /\ ~Activatable(e)
    /\ Leave(e)
    /\ UNCHANGED <<disk, index, batches, graph, spent>>

ProjectPublication(e) ==
    /\ At(e, "project")
    /\ Rebuild(e)
    /\ Leave(e)
    /\ UNCHANGED <<disk, index, batches, spent>>

(* A crash, Ctrl-C, a refused package policy: what is staged remains. *)
Die(e) ==
    /\ ~At(e, "idle")
    /\ proc[e].pc \in {"retire", "project"} => TornActivation
    /\ Spend("faults", MaxFaults)
    /\ Leave(e)
    /\ UNCHANGED <<disk, index, batches, graph>>

-----------------------------------------------------------------------------
(***************************************************************************)
(* One index publication (index_repo_impl), a single transaction: the      *)
(* canonical rows, the checker retention, the projection.                  *)
(***************************************************************************)
Bound == {b \in Active : batches[b].snapshot = Snapshot}

Extractions(reset) ==
    IF reset \/ disk.src # index.src THEN {index.rows, index.rows + 1} ELSE {index.rows}

Remappable(b, next) ==
    \A p \in Projects : \A r \in batches[b].runs[p].cover : r.src = next.src[r.file]

(* rebind_active_checker_batch: a clone under the new digest and rowids. *)
ReboundRun(run, next) ==
    [run EXCEPT
       !.kind  = IF run.status = "completed" THEN "carried"
                 ELSE IF Healthy(run.cover) # {} THEN "mixed" ELSE "checked",
       !.cover = {[r EXCEPT !.rows = next.rows] : r \in @}]

Rebound(b, next) ==
    With(Deactivated(batches, {b}), NextId(batches),
         [batches[b] EXCEPT
            !.snapshot = Digest(next),
            !.runs = [p \in Projects |-> ReboundRun(batches[b].runs[p], next)]])

(* active_batch_inputs_fresh *)
InputsStandUnread(b) == \E p \in Projects : Publishable(batches[b].runs[p])
InputsStand(b) ==
    /\ \E p \in Projects : Publishable(batches[b].runs[p])
    /\ \A p \in Projects :
          Publishable(batches[b].runs[p]) => InputsFresh(batches[b].runs[p], disk)

CanRebind == disk.src = index.src /\ \E b \in Bound : InputsStand(b)

SkipsProjection(reset, next, changed) ==
    ~reset /\ Digest(next) = Snapshot /\ ~changed

PublishIndex(kind, reset, next, table, changed) ==
    /\ Concurrent \/ \A e \in Enrichers : At(e, "idle")
    /\ Spend("indexes", MaxIndexes)
    /\ kind \in IndexKinds
    /\ next.src = disk.src /\ next.rust = disk.rust
    /\ index' = next
    /\ batches' = table
    /\ graph' = IF SkipsProjection(reset, next, changed) THEN graph
                ELSE Projection(table, next, Digest(next))
    /\ UNCHANGED <<disk, proc>>

Nexts(reset) ==
    {[src |-> disk.src, rust |-> disk.rust, rows |-> n] : n \in Extractions(reset)}

(* The watcher's refresh before an enrichment: sources for carry stay. *)
IndexPreserving ==
    \E reset \in BOOLEAN : \E next \in Nexts(reset) :
        LET remap == reset /\ Digest(next) = Snapshot
            able  == {b \in Bound : Remappable(b, next)}
        IN  IF remap /\ able # {}
            THEN \E b \in able :
                   PublishIndex("preserve", reset, next, Preserve(Rebound(b, next)), TRUE)
            ELSE LET lost == IF remap THEN Bound ELSE {}
                 IN  PublishIndex("preserve", reset, next,
                                  Preserve(Deactivated(batches, lost)), lost # {})

(***************************************************************************)
(* ValidateActive: keep the publication if its inputs stand; the watcher   *)
(* then keeps a carry source, a manual index (always a full one) keeps     *)
(* nothing else.                                                           *)
(***************************************************************************)
IndexValidating(kind) ==
    \E reset \in (IF kind = "manual" THEN {TRUE} ELSE BOOLEAN) :
    \E next \in Nexts(reset) :
        LET already  == Digest(next) = Snapshot
            able     == {b \in Bound : CanRebind /\ Remappable(b, next)}
            rebinds  == able # {} /\ (reset \/ ~already)
            retained == rebinds \/ (CanRebind /\ ~reset /\ already)
            Publish(table, changed) == PublishIndex(kind, reset, next, table, changed)
        IN  IF retained
            THEN \E table \in (IF rebinds THEN {Rebound(b, next) : b \in able}
                               ELSE {batches}) :
                   LET live == {b \in DOMAIN table : table[b].active}
                   IN  Publish(IF kind = "manual" THEN Only(table, live)
                               ELSE Preserve(table), rebinds)
            ELSE IF kind = "manual"
            THEN Publish(<<>>, Active # {})
            ELSE LET lost == IF already THEN Bound ELSE {}
                 IN  Publish(Preserve(Deactivated(batches, lost)), lost # {})

IndexManually   == IndexValidating("manual")
IndexRebinding  == IndexValidating("rebind")

Enrich(e) ==
    \/ Plan(e) \/ Reuse(e) \/ CheckReuse(e) \/ ProjectRetirement(e)
    \/ OpenStaging(e) \/ CarryForward(e) \/ PrepareProjects(e)
    \/ \E p \in Projects :
          \/ StartProject(e, p) \/ StageBatch(e, p) \/ StageFileFailed(e, p)
          \/ CompleteProject(e, p) \/ FailProject(e, p)
    \/ LoseBatch(e) \/ Activate(e) \/ StampEmpty(e) \/ RefuseActivation(e)
    \/ ProjectPublication(e)

Index == IndexPreserving \/ IndexManually \/ IndexRebinding

Next == Edit \/ Index \/ \E e \in Enrichers : Enrich(e) \/ Die(e)

Spec == Init /\ [][Next]_vars

-----------------------------------------------------------------------------
(* Properties.                                                             *)

Rows == [file : Files, rows : Nat, src : Versions,
         status : {"resolved", "unknown", "failed"},
         target : Versions \cup {None}, fp : SUBSET Inputs]
Runs == [status : {"pending", "completed", "partial", "failed"},
         kind : {"checked", "carried", "mixed"}, conf : Versions,
         inputs : SUBSET Inputs, cover : SUBSET Rows]
Digests == [Files -> Versions] \X Versions
Plans == [snapshot : Digests, rows : Nat, conf : [Projects -> Versions]]

(* The store promises by an index that one batch at most is published.     *)
OnePublication == \A b, c \in Active : b = c

(* Every variable keeps its type, a file has one row in a run, and one     *)
(* batch at most is the active publication.                                *)
PublicationTypeOK ==
    /\ Digest(disk) \in Digests /\ disk.conf \in [Projects -> Versions]
    /\ disk.ext \in [Projects -> Versions]
    /\ Snapshot \in Digests /\ index.rows \in Nat
    /\ \A b \in DOMAIN batches :
          /\ batches[b].snapshot \in Digests /\ batches[b].plan \in Plans
          /\ batches[b].active \in BOOLEAN /\ batches[b].stamped \in BOOLEAN
          /\ batches[b].runs \in [Projects -> Runs]
          /\ \A p \in Projects : \A r, s \in batches[b].runs[p].cover :
                r.file = s.file => r = s
    /\ OnePublication
    /\ \A e \in Enrichers :
          proc[e].pc \in {"idle", "reuse", "retire", "open", "carry", "prepare",
                          "check", "project"}

Quiet == \A e \in Enrichers : proc[e].pc \notin {"retire", "project"}

(* With no enricher between its publication and its projection, the graph  *)
(* is what a rebuild would give: the skips of the index builder and the    *)
(* exact reuse never serve edges of another batch or of other rows.        *)
ProjectionCurrent == Quiet => graph = Projection(batches, index, Snapshot)

(* Whatever two enrichers and the index do at a time, every checker edge   *)
(* names a call and a declaration as the published index has them.         *)
GraphIndexed ==
    /\ graph.digest = Snapshot /\ graph.rows = index.rows
    /\ \A x \in graph.facts : Projectable(x[2], index)

Configs(run) == {i \in run.inputs : i[1] = "conf"}

(* Every answer of a published, freshly checked run follows from the       *)
(* config recorded with it, after any resume, clone, reset or edit.        *)
AnswersFollowInputs ==
    \A b \in Active : \A p \in Projects : \A r \in Healthy(batches[b].runs[p].cover) :
        LET run == batches[b].runs[p]
        IN  Publishable(run) /\ run.kind = "checked" =>
              \A c \in Configs(run) : (r.status = "resolved") <=> <<p, c[3]>> \notin Unanswered

(* What is published follows from the inputs recorded with it, and the graph *)
(* shows it.  (With the types.)                                              *)
PublicationSound ==
    /\ PublicationTypeOK
    /\ AnswersFollowInputs
    /\ ProjectionCurrent

(* A carried answer follows from the config it is carried under: the       *)
(* configuration chain of its project is "revalidated" (docs/advanced.md). *)
(* The code does not have this property, as the README explains.           *)
CarriedFollowConfig ==
    \A b \in DOMAIN batches : \A p \in Projects :
        LET run == batches[b].runs[p]
        IN  run.kind = "carried" =>
              \A r \in run.cover : (r.status = "resolved") <=> <<p, run.conf>> \notin Unanswered

(* A batch does not change while it is the publication: a resumed run      *)
(* works in an inactive clone.                                             *)
ActiveImmutable ==
    [][\A b \in DOMAIN batches \cap DOMAIN batches' :
          batches[b].active /\ batches'[b].active => batches'[b].runs = batches[b].runs]_vars

(* A publication whose facts were staged, carried or cloned over several   *)
(* runs names, as it is activated, only the rows, sources and declarations *)
(* of the index, and external inputs that are on disk.                     *)
ActivationCurrent ==
    [][\A e \in Enrichers : Activate(e) =>
          \A x \in Published(batches', proc[e].batch) :
             Projectable(x[2], index) /\ AllHold(disk, External(x[2].fp))]_vars

(* A run that no failure and no edit disturbed is never refused: whatever  *)
(* an earlier run left staged, it ends with a publication.                 *)
UndisturbedPublishes ==
    [][\A e \in Enrichers :
          RefuseActivation(e) => proc[e].failed \/ spent.edits # proc[e].since]_vars

ReusesPublication(e) == Reuse(e) /\ \E d \in Observed(e) : Reusable(e, d) \cap Active # {}

(* The exact reuse of a publication answers with a graph that has its      *)
(* facts: no run ends successfully while they are missing.                 *)
ReuseServesFacts ==
    [][\A e \in Enrichers : ReusesPublication(e) =>
          \A b \in Bound : Published(batches, b) \subseteq graph.facts]_vars

(* A destination that a crash left empty never displaces a carry source:   *)
(* a refresh, or a run that does not go on with the publication itself,    *)
(* keeps some batch to carry from.                                         *)
OpensAside(e) == OpenStaging(e) /\ ~(Staging(e) # {} /\ Staging(e) \subseteq Active)

CarrySourceKept ==
    [][(IndexPreserving \/ IndexRebinding \/ \E e \in Enrichers : OpensAside(e)) =>
          ((\E b \in DOMAIN batches : CarrySource(batches[b])) =>
             (\E b \in DOMAIN batches' : CarrySource(batches'[b])))]_vars

(* Work of an earlier run is carried into a publication only as far as it is *)
(* still true, is not touched once it is there, and is not lost before.      *)
CarriesSoundly ==
    /\ ActivationCurrent
    /\ ActiveImmutable
    /\ CarrySourceKept

Ends(e) == \/ ReusesPublication(e) \/ RefuseActivation(e) \/ StampEmpty(e)
           \/ ProjectPublication(e)

(* However it ends, a plain run that no edit disturbed leaves no edge of   *)
(* the publication in the graph whose inputs have changed, unless it ended *)
(* at once by reusing an empty batch stamped beside the publication.       *)
PlainRunRetiresStale ==
    [][\A e \in Enrichers :
          (Mode[e] = "plain" /\ Ends(e) /\ spent.edits = proc[e].since) =>
             \A b \in Bound : \A x \in graph'.facts \cap Published(batches', b) :
                InputsFresh(batches'[b].runs[x[1]], disk)]_vars

(* The publication, if there is one, is of the digest the index has.       *)
NoneBehind == Active \subseteq Bound

(* An index that validates the publication keeps a checker edge only if    *)
(* the inputs of its project stand; the refresh before an enrichment       *)
(* leaves that to the enrichment.  (The watcher does not validate a        *)
(* publication that an earlier refresh left behind at another digest.)     *)
IndexRetainsFresh ==
    [][IndexManually \/ (IndexRebinding /\ NoneBehind) =>
          \A x \in graph'.facts : \E b \in DOMAIN batches' :
             batches'[b].active /\ InputsFresh(batches'[b].runs[x[1]], disk)]_vars

Edge(x) == <<x[1], x[2].file, x[2].target>>

(* An index that keeps a publication whose facts the graph shows loses     *)
(* none of its edges.                                                      *)
IndexKeepsEdges ==
    [][(IndexManually /\ batches' # <<>>
          /\ graph = Projection(batches, index, Snapshot)) =>
          /\ \A b \in DOMAIN batches' : batches'[b].snapshot = Digest(index')
          /\ UNION {Published(batches', b) : b \in DOMAIN batches'} = graph'.facts
          /\ {Edge(x) : x \in graph.facts} \subseteq {Edge(x) : x \in graph'.facts}]_vars

(* An index that rebinds a publication keeps all of its edges, and only them *)
(* whose inputs stand.                                                       *)
IndexRebinds ==
    /\ IndexRetainsFresh
    /\ IndexKeepsEdges

(* Only an index, or a run that found it stale, leaves the digest without  *)
(* a publication: enrichers that work side by side never lose it.          *)
PublicationKept ==
    [][Bound # {} =>
          \/ \E b \in DOMAIN batches' : batches'[b].active
          \/ Index \/ \E e \in Enrichers : CheckReuse(e)]_vars

=============================================================================
