---------------------- MODULE CheckerPublicationProofs ----------------------
(***************************************************************************)
(* What holds of checker publication for any files, projects, enrichers,   *)
(* edits and bounds: the graph and the index go together, and there is one *)
(* publication.                                                            *)
(***************************************************************************)
EXTENDS CheckerPublication, FiniteSetTheorems, TLAPS

(* A rebuilt graph is of the rows and the digest it was built from.        *)
LEMMA ProjectionIndexed ==
    ASSUME NEW table, NEW i, NEW snapshot
    PROVE  /\ Projection(table, i, snapshot).digest = Digest(i)
           /\ Projection(table, i, snapshot).rows = i.rows
           /\ \A x \in Projection(table, i, snapshot).facts : Projectable(x[2], i)
BY DEF Projection

(* An index that may skip the projection has published the rows, sources   *)
(* and digest that were published already.                                 *)
LEMMA SkipKeepsRows ==
    ASSUME NEW reset \in BOOLEAN, NEW next \in Nexts(reset), NEW changed,
           SkipsProjection(reset, next, changed)
    PROVE  /\ next.src = index.src /\ next.rows = index.rows
           /\ Digest(next) = Snapshot
<1>1. /\ reset = FALSE /\ Digest(next) = Snapshot
  BY DEF SkipsProjection
<1>2. next.src = index.src
  BY <1>1 DEF Digest, Snapshot
<1>3. disk.src = index.src
  BY <1>2 DEF Nexts
<1>4. next.rows = index.rows
  BY <1>1, <1>3 DEF Nexts, Extractions
<1> QED BY <1>1, <1>2, <1>4

(* Every index publication is an instance of PublishIndex.                 *)
LEMMA IndexPublishes ==
    ASSUME Index
    PROVE  \E kind \in {"preserve", "manual", "rebind"} : \E reset \in BOOLEAN :
           \E next \in Nexts(reset) : \E table, changed :
              PublishIndex(kind, reset, next, table, changed)
<1>1. CASE IndexPreserving
  BY <1>1 DEF IndexPreserving
<1>2. ASSUME NEW kind \in {"manual", "rebind"}, IndexValidating(kind)
      PROVE  \E reset \in BOOLEAN : \E next \in Nexts(reset) : \E table, changed :
                PublishIndex(kind, reset, next, table, changed)
  BY <1>2 DEF IndexValidating
<1> QED BY <1>1, <1>2 DEF Index, IndexManually, IndexRebinding

(* Whatever runs at the same time, every checker edge of the graph names a *)
(* call and a declaration as the published index has them: an index only   *)
(* skips the rebuild under unchanged rows, an enricher rebuilds from the   *)
(* rows of the moment.                                                     *)
THEOREM GraphAlwaysIndexed == Spec => []GraphIndexed
<1>1. Init => GraphIndexed
  BY ProjectionIndexed DEF Init, GraphIndexed, Snapshot
<1>2. GraphIndexed /\ [Next]_vars => GraphIndexed'
  <2> SUFFICES ASSUME GraphIndexed, [Next]_vars PROVE GraphIndexed'
    OBVIOUS
  <2>1. CASE UNCHANGED <<graph, index>>
    BY <2>1 DEF GraphIndexed, Snapshot, Digest, Projectable, TargetCurrent
  <2>2. ASSUME NEW e \in Enrichers, Rebuild(e), UNCHANGED index
        PROVE  GraphIndexed'
    BY <2>2, ProjectionIndexed DEF Rebuild, GraphIndexed, Snapshot, Digest,
       Projectable, TargetCurrent
  <2>3. CASE Index
    <3>0. PICK kind \in {"preserve", "manual", "rebind"}, reset \in BOOLEAN :
             \E next \in Nexts(reset) : \E table, changed :
                PublishIndex(kind, reset, next, table, changed)
      BY <2>3, IndexPublishes
    <3>1. PICK next \in Nexts(reset) :
             \E table, changed : PublishIndex(kind, reset, next, table, changed)
      BY <3>0
    <3>2. PICK table, changed :
             PublishIndex(kind, reset, next, table, changed)
      BY <3>1
    <3>3. CASE SkipsProjection(reset, next, changed)
      <4>1. graph' = graph /\ index' = next
        BY <3>2, <3>3 DEF PublishIndex
      <4> QED BY <4>1, <3>3, SkipKeepsRows
              DEF GraphIndexed, Snapshot, Digest, Projectable, TargetCurrent
    <3>4. CASE ~SkipsProjection(reset, next, changed)
      <4>1. graph' = Projection(table, next, Digest(next)) /\ index' = next
        BY <3>2, <3>4 DEF PublishIndex
      <4> QED BY <4>1, ProjectionIndexed
              DEF GraphIndexed, Snapshot, Digest, Projectable, TargetCurrent
    <3> QED BY <3>3, <3>4
  <2>4. ASSUME NEW e \in Enrichers, Enrich(e)
        PROVE  GraphIndexed'
    BY <2>1, <2>2, <2>4 DEF Enrich, Plan, Reuse, CheckReuse, ProjectRetirement,
       OpenStaging, CarryForward, PrepareProjects, StartProject, StageBatch,
       StageFileFailed, CompleteProject, FailProject, LoseBatch, Activate,
       StampEmpty, RefuseActivation, ProjectPublication
  <2>5. ASSUME NEW e \in Enrichers, Die(e)
        PROVE  GraphIndexed'
    BY <2>1, <2>5 DEF Die
  <2>6. CASE Edit
    BY <2>1, <2>6 DEF Edit
  <2>7. CASE UNCHANGED vars
    BY <2>1, <2>7 DEF vars
  <2> QED BY <2>3, <2>4, <2>5, <2>6, <2>7 DEF Next
<1> QED BY <1>1, <1>2, PTL DEF Spec

-----------------------------------------------------------------------------
(* One publication.  `OnePublication` speaks of `batches`; the operators   *)
(* that compute a table of batches are argued about for any table.         *)

Live(table) == {b \in DOMAIN table : table[b].active}

OneLive(table) ==
    /\ \A b \in DOMAIN table : "active" \in DOMAIN table[b]
    /\ \A b, c \in Live(table) : b = c

(* Dropping batches leaves one active batch at most.                         *)
LEMMA OnlyOneLive ==
    ASSUME NEW table, OneLive(table), NEW ids
    PROVE  OneLive(Only(table, ids))
BY DEF OneLive, Live, Only

(* So does what a refresh keeps of the table.                                *)
LEMMA PreserveOneLive ==
    ASSUME NEW table, OneLive(table)
    PROVE  OneLive(Preserve(table))
BY OnlyOneLive DEF Preserve

(* Deactivation takes batches out of the live ones.                        *)
LEMMA DeactivatedLive ==
    ASSUME NEW table, OneLive(table), NEW ids
    PROVE  /\ DOMAIN Deactivated(table, ids) = DOMAIN table
           /\ Live(Deactivated(table, ids)) = Live(table) \ ids
           /\ OneLive(Deactivated(table, ids))
<1>1. DOMAIN Deactivated(table, ids) = DOMAIN table
  BY DEF Deactivated
<1>2. ASSUME NEW b \in DOMAIN table
      PROVE  /\ DOMAIN Deactivated(table, ids)[b] = DOMAIN table[b]
             /\ Deactivated(table, ids)[b].active <=> table[b].active /\ b \notin ids
  BY <1>2 DEF Deactivated, OneLive
<1>3. Live(Deactivated(table, ids)) = Live(table) \ ids
  BY <1>1, <1>2 DEF Live
<1> QED BY <1>1, <1>2, <1>3 DEF OneLive

(* A batch that is opened for staging is not live.                         *)
LEMMA WithStaging ==
    ASSUME NEW table, OneLive(table), NEW id, NEW batch,
           "active" \in DOMAIN batch, batch.active = FALSE
    PROVE  OneLive(With(table, id, batch))
BY DEF OneLive, Live, With

(* A live batch that is rebound hands its place to the clone.              *)
LEMMA WithSuccessor ==
    ASSUME NEW table, OneLive(table), NEW id, NEW batch, NEW b \in Live(table),
           "active" \in DOMAIN batch
    PROVE  OneLive(With(Deactivated(table, {b}), id, batch))
<1>1. Live(Deactivated(table, {b})) = {}
  BY DeactivatedLive DEF OneLive
<1>2. OneLive(Deactivated(table, {b}))
  BY DeactivatedLive
<1> HIDE DEF Deactivated
<1> QED BY <1>1, <1>2 DEF OneLive, Live, With

(* Writing to the runs of a batch leaves the live ones.                    *)
LEMMA RunsOneLive ==
    ASSUME NEW table, OneLive(table), NEW b, NEW runs
    PROVE  OneLive([table EXCEPT ![b].runs = runs])
BY DEF OneLive, Live

(* So does a stamp.                                                          *)
LEMMA StampOneLive ==
    ASSUME NEW table, OneLive(table), NEW b
    PROVE  OneLive([table EXCEPT ![b].stamped = TRUE])
BY DEF OneLive, Live

(* A write to one run of the own batch activates nothing.                    *)
LEMMA StepSetsRun ==
    ASSUME OneLive(batches), NEW e, NEW p, NEW run, SetRun(e, p, run)
    PROVE  OneLive(batches)'
BY RunsOneLive DEF SetRun, OneLive, Live

(* Opening or resuming a staging batch activates nothing.                    *)
LEMMA OpenOneLive ==
    ASSUME OneLive(batches), NEW e \in Enrichers, OpenStaging(e)
    PROVE  OneLive(batches')
<1>1. CASE UNCHANGED batches
  BY <1>1
<1>2. ASSUME NEW b \in Staging(e),
             batches' = With(Only(batches, Active), b + 1, Clone(b))
      PROVE  OneLive(batches')
  <2>1. "active" \in DOMAIN Clone(b) /\ Clone(b).active = FALSE
    BY DEF Clone, Staging, OneLive
  <2> HIDE DEF Clone
  <2> QED BY <1>2, <2>1, OnlyOneLive, WithStaging
<1>3. CASE batches' = With(Preserve(batches), NextId(Preserve(batches)),
                           NewBatch(proc[e].plan))
  <2>1. /\ "active" \in DOMAIN NewBatch(proc[e].plan)
        /\ NewBatch(proc[e].plan).active = FALSE
    BY DEF NewBatch
  <2> QED BY <1>3, <2>1, PreserveOneLive, WithStaging
<1> QED BY <1>1, <1>2, <1>3 DEF OpenStaging

(* Carrying runs forward activates nothing.                                  *)
LEMMA CarryOneLive ==
    ASSUME OneLive(batches), NEW e \in Enrichers, CarryForward(e)
    PROVE  OneLive(batches')
<1>1. OneLive(Unretired(e))
  BY OnlyOneLive DEF Unretired
<1>2. CASE batches' \in {batches, Unretired(e)}
  BY <1>1, <1>2
<1>3. ASSUME NEW runs, batches' = [Unretired(e) EXCEPT ![proc[e].batch].runs = runs]
      PROVE  OneLive(batches')
  BY <1>1, <1>3, RunsOneLive
<1> QED BY <1>2, <1>3 DEF CarryForward

(* An activation deactivates what was active.                                *)
LEMMA PublishOneLive ==
    ASSUME OneLive(batches), NEW e \in Enrichers, Activate(e) \/ StampEmpty(e)
    PROVE  OneLive(batches')
<1>1. CASE Activate(e)
  <2>1. DOMAIN batches' \subseteq {proc[e].batch}
    BY <1>1 DEF Activate, Only
  <2>2. \A b \in DOMAIN batches' : DOMAIN batches'[b] = DOMAIN batches[b] /\ b \in DOMAIN batches
    BY <1>1 DEF Activate, Only
  <2> QED BY <2>1, <2>2 DEF OneLive, Live
<1>2. CASE StampEmpty(e)
  BY <1>2, OnlyOneLive, StampOneLive DEF StampEmpty
<1> QED BY <1>1, <1>2

(* No step of an enricher leaves two active batches.                         *)
LEMMA EnrichOneLive ==
    ASSUME OneLive(batches), NEW e \in Enrichers, Enrich(e)
    PROVE  OneLive(batches')
<1>1. CASE UNCHANGED batches
  BY <1>1
<1>2. ASSUME NEW ids, batches' = Deactivated(batches, ids)
      PROVE  OneLive(batches')
  BY <1>2, DeactivatedLive
<1>3. ASSUME NEW p, NEW run, SetRun(e, p, run)
      PROVE  OneLive(batches')
  BY <1>3, StepSetsRun
<1>4. ASSUME NEW runs, batches' = [batches EXCEPT ![proc[e].batch].runs = runs]
      PROVE  OneLive(batches')
  BY <1>4, RunsOneLive
<1>5. CASE CheckReuse(e)
  BY <1>2, <1>5 DEF CheckReuse
<1>6. CASE PrepareProjects(e)
  BY <1>1, <1>4, <1>6 DEF PrepareProjects
<1>7. CASE \E p \in Projects :
             \/ StartProject(e, p) \/ StageBatch(e, p) \/ StageFileFailed(e, p)
             \/ CompleteProject(e, p) \/ FailProject(e, p)
  BY <1>3, <1>7 DEF StartProject, StageBatch, StageFileFailed, CompleteProject,
     FailProject
<1>8. CASE \/ Plan(e) \/ Reuse(e) \/ ProjectRetirement(e) \/ LoseBatch(e)
           \/ RefuseActivation(e) \/ ProjectPublication(e)
  BY <1>1, <1>8 DEF Plan, Reuse, ProjectRetirement, LoseBatch, RefuseActivation,
     ProjectPublication
<1> QED BY <1>5, <1>6, <1>7, <1>8, OpenOneLive, CarryOneLive, PublishOneLive
        DEF Enrich

(* The successor of a rebound publication takes its place.                   *)
LEMMA ReboundOneLive ==
    ASSUME OneLive(batches), NEW b \in Bound, NEW next
    PROVE  OneLive(Rebound(b, next))
<1>1. b \in Live(batches) /\ b \in DOMAIN batches
  BY DEF Bound, Active, Live
<1>2. "active" \in DOMAIN batches[b]
  BY <1>1 DEF OneLive
<1>3. ASSUME NEW snapshot, NEW runs
      PROVE  "active" \in DOMAIN [batches[b] EXCEPT !.snapshot = snapshot, !.runs = runs]
  BY <1>2
<1> QED BY <1>1, <1>3, WithSuccessor DEF Rebound

(* No index leaves two active batches.                                       *)
LEMMA IndexOneLive ==
    ASSUME OneLive(batches), Index
    PROVE  OneLive(batches')
<1>1. \A ids : OneLive(Preserve(Deactivated(batches, ids)))
  BY DeactivatedLive, PreserveOneLive
<1>2. \A b \in Bound : \A next : OneLive(Preserve(Rebound(b, next)))
  BY ReboundOneLive, PreserveOneLive
<1>3. CASE IndexPreserving
  BY <1>1, <1>2, <1>3 DEF IndexPreserving, PublishIndex
<1>4. ASSUME NEW kind, IndexValidating(kind)
      PROVE  OneLive(batches')
  <2>1. ASSUME NEW table, OneLive(table), NEW ids, batches' \in {Only(table, ids), Preserve(table)}
        PROVE  OneLive(batches')
    BY <2>1, OnlyOneLive, PreserveOneLive
  <2>2. OneLive(<<>>)
    BY DEF OneLive, Live
  <2>3. \/ batches' = <<>>
        \/ \E ids : batches' = Preserve(Deactivated(batches, ids))
        \/ \E table : /\ table = batches \/ \E b \in Bound : \E next : table = Rebound(b, next)
                      /\ \E ids : batches' \in {Only(table, ids), Preserve(table)}
    <3>1. ASSUME NEW reset, NEW next, NEW table, NEW changed,
                 PublishIndex(kind, reset, next, table, changed)
          PROVE  batches' = table
      BY <3>1 DEF PublishIndex
    <3> QED BY <1>4, <3>1, ZenonT(60) DEF IndexValidating
  <2>4. \A b \in Bound : \A next : OneLive(Rebound(b, next))
    BY ReboundOneLive
  <2>5. ASSUME NEW table, NEW ids,
               table = batches \/ \E b \in Bound : \E next : table = Rebound(b, next),
               batches' \in {Only(table, ids), Preserve(table)}
        PROVE  OneLive(batches')
    <3>1. OneLive(table)
      BY <2>4, <2>5
    <3> QED BY <3>1, <2>1, <2>5
  <2> QED BY <1>1, <2>2, <2>3, <2>5
<1> QED BY <1>3, <1>4 DEF Index, IndexManually, IndexRebinding

(* At any time at most one batch is the active publication, whatever       *)
(* enrichers, refreshes and crashes interleave: every transaction that     *)
(* publishes a batch takes the place of the one before.                    *)
THEOREM AlwaysOnePublication == Spec => []OnePublication
<1>1. Init => OneLive(batches)
  BY DEF Init, OneLive, Live
<1>2. OneLive(batches) /\ [Next]_vars => OneLive(batches)'
  <2>1. CASE UNCHANGED batches
    BY <2>1 DEF OneLive, Live
  <2>2. CASE Index
    BY <2>2, IndexOneLive DEF OneLive, Live
  <2>3. ASSUME NEW e \in Enrichers, OneLive(batches), Enrich(e)
        PROVE  OneLive(batches')
    BY <2>3, EnrichOneLive
  <2>4. Edit \/ (\E e \in Enrichers : Die(e)) \/ UNCHANGED vars => UNCHANGED batches
    BY DEF Edit, Die, vars
  <2> QED BY <2>1, <2>2, <2>3, <2>4 DEF Next, OneLive, Live
<1>3. OneLive(batches) => OnePublication
  BY DEF OneLive, Live, OnePublication, Active
<1> QED BY <1>1, <1>2, <1>3, PTL DEF Spec

-----------------------------------------------------------------------------
(* Numbers and counts.                                                       *)

(* The least of a set of numbers.                                            *)
LEMMA LeastNumber ==
    ASSUME NEW T, T \subseteq Nat, T # {}
    PROVE  \E m \in T : \A n \in T : m <= n
<1> DEFINE R == {xy \in Nat \X Nat : xy[1] < xy[2]}
<1>1. IsWellFoundedOn(R, Nat)
  <2>1. R = OpToRel(<, Nat)
    BY DEF OpToRel
  <2> HIDE DEF R
  <2> QED BY <2>1, NatLessThanWellFounded
<1>2. \A x, y \in Nat : <<x, y>> \in R <=> x < y
  OBVIOUS
<1> HIDE DEF R
<1>3. PICK m \in T : \A y \in T : <<y, m>> \notin R
  BY <1>1, WFMin
<1>4. ASSUME NEW n \in T
      PROVE  m <= n
  <2>1. m \in Nat /\ n \in Nat
    OBVIOUS
  <2>2. ~(n < m)
    BY <1>2, <1>3, <2>1
  <2> QED BY <2>1, <2>2
<1> QED BY <1>4

(* A finite set of ids has a newest.                                         *)
LEMMA NewestIsOne ==
    ASSUME NEW S, IsFiniteSet(S), S \subseteq Nat, S # {}
    PROVE  Newest(S) \in S /\ \A j \in S : j <= Newest(S)
<1> DEFINE Above(m) == {j \in S : m < j}
           T == {Cardinality(Above(m)) : m \in S}
<1>1. \A m \in S : IsFiniteSet(Above(m)) /\ Cardinality(Above(m)) \in Nat
  BY FS_Subset, FS_CardinalityType
<1>2. PICK m \in S : \A n \in S : Cardinality(Above(m)) <= Cardinality(Above(n))
  <2>1. T \subseteq Nat /\ T # {}
    BY <1>1
  <2>2. PICK c \in T : \A n \in T : c <= n
    BY <2>1, LeastNumber
  <2> QED BY <2>2
<1>3. ASSUME NEW j \in S, ~(j <= m)
      PROVE  FALSE
  <2>0. j \in Nat /\ m \in Nat /\ \A k \in S : k \in Nat
    OBVIOUS
  <2>1. Above(j) \subseteq Above(m) /\ j \in Above(m) /\ j \notin Above(j)
    <3>1. m < j
      BY <1>3, <2>0
    <3>2. \A k \in S : j < k => m < k
      BY <2>0, <3>1
    <3>3. ~(j < j)
      BY <2>0
    <3> QED BY <3>1, <3>2, <3>3
  <2>2. /\ Cardinality(Above(j)) <= Cardinality(Above(m))
        /\ Cardinality(Above(m)) = Cardinality(Above(j)) => Above(m) = Above(j)
    BY <1>1, <2>1, FS_Subset
  <2>3. Cardinality(Above(m)) = Cardinality(Above(j))
    <3> HIDE DEF Above
    <3> QED BY <1>1, <1>2, <2>2
  <2> QED BY <2>1, <2>2, <2>3
<1> QED BY <1>3 DEF Newest

(* A run with one row per file covers a set of files as large as itself.     *)
LEMMA RowsCount ==
    ASSUME NEW M, IsFiniteSet(M), NEW C,
           \A r \in C : r.file \in M,
           \A r, s \in C : r.file = s.file => r = s
    PROVE  /\ IsFiniteSet(C) /\ Cardinality(C) \in Nat
           /\ Cardinality(C) <= Cardinality(M)
           /\ Cardinality(C) = Cardinality(M) <=> M \subseteq {r.file : r \in C}
           /\ C = {} <=> Cardinality(C) = 0
<1> DEFINE F == {r.file : r \in C}
           g == [x \in F |-> CHOOSE r \in C : r.file = x]
<1>1. F \subseteq M /\ IsFiniteSet(F)
  BY FS_Subset
<1>2. \A x \in F : g[x] \in C /\ g[x].file = x
  OBVIOUS
<1>3. g \in Bijection(F, C)
  <2>1. g \in [F -> C]
    BY <1>2
  <2>2. \A a, b \in F : g[a] = g[b] => a = b
    BY <1>2
  <2>3. \A r \in C : \E x \in F : g[x] = r
    <3> SUFFICES ASSUME NEW r \in C PROVE g[r.file] = r /\ r.file \in F
      OBVIOUS
    <3> QED BY <1>2
  <2> QED BY <2>1, <2>2, <2>3 DEF Bijection, Injection, Surjection, IsInjective
<1>4. IsFiniteSet(C) /\ Cardinality(C) = Cardinality(F)
  BY <1>1, <1>3, FS_Bijection DEF ExistsBijection
<1> HIDE DEF g
<1>5. /\ Cardinality(F) <= Cardinality(M)
      /\ Cardinality(M) = Cardinality(F) => M = F
  BY <1>1, FS_Subset
<1>6. M \subseteq F => M = F
  BY <1>1
<1> QED BY <1>4, <1>5, <1>6, FS_CardinalityType, FS_EmptySet

(* A project has finitely many files, and at least one.                      *)
LEMMA ProjectsFinite ==
    \A p \in Projects : IsFiniteSet(Members[p]) /\ Members[p] # {} /\ Members[p] \subseteq Files
<1>1. \A p \in Projects : Members[p] \subseteq Files /\ Members[p] # {}
  BY PublicationAssumption
<1> QED BY <1>1, PublicationAssumption, FS_Subset

-----------------------------------------------------------------------------
(* What every batch keeps.                                                   *)

Disks == [src : [Files -> Versions], rust : Versions,
          conf : [Projects -> Versions], ext : [Projects -> Versions]]
Indexes == [src : [Files -> Versions], rust : Versions, rows : Nat]
Batches == [snapshot : Digests, plan : Plans, active : BOOLEAN, stamped : BOOLEAN,
            runs : [Projects -> Runs]]

(* An answer follows from the config among the inputs it was computed from.  *)
Follows(p, inputs, r) ==
    \A i \in inputs : i[1] = "conf" => ((r.status = "resolved") <=> <<p, i[3]>> \notin Unanswered)

(* A file has one row, an answer has inputs, and a run is complete only with *)
(* an answer for every member.                                               *)
CoverOK(p, run) ==
    /\ \A r \in run.cover : r.file \in Members[p]
    /\ \A r \in run.cover : r.status # "failed" => r.fp # {}
    /\ \A r, s \in run.cover : r.file = s.file => r = s
    /\ run.status = "completed" => Members[p] \subseteq {r.file : r \in Healthy(run.cover)}

(* The inputs recorded with a run are those of its answers: all of them if   *)
(* it was checked, at least the external ones if some were carried.          *)
InputsOK(p, run) ==
    /\ run.kind = "carried" => run.status = "completed"
    /\ Publishable(run) => \A r \in run.cover : External(r.fp) \subseteq run.inputs
    /\ run.kind = "checked" =>
         \A r \in Healthy(run.cover) :
           /\ Follows(p, r.fp, r)
           /\ Publishable(run) => r.fp = run.inputs

(* The rows of a batch whose plan is as old as the index are of the index's  *)
(* extraction, and what an answer found is where its snapshot has it.        *)
RowOK(r, b, n) ==
    /\ r.src = b.snapshot[1][r.file]
    /\ b.plan.rows = n => r.rows = n
    /\ Fact(r) => r.target = b.snapshot[1][Target[r.file]]

(* An answer of a plan.                                                      *)
OfPlan(r, plan) ==
    /\ r.rows = plan.rows /\ r.src = plan.snapshot[1][r.file]
    /\ Fact(r) => r.target = plan.snapshot[1][Target[r.file]]

RunOK(p, run) == CoverOK(p, run) /\ InputsOK(p, run)

BatchOK(b, n) ==
    /\ b \in Batches
    /\ b.plan.rows <= n
    /\ \A p \in Projects : RunOK(p, b.runs[p])
    /\ \A p \in Projects : \A r \in b.runs[p].cover : RowOK(r, b, n)

TableOK(t, n) ==
    /\ IsFiniteSet(DOMAIN t) /\ DOMAIN t \subseteq Nat
    /\ \A b \in DOMAIN t : BatchOK(t[b], n)

(* Dropping batches keeps the rest as they were.                             *)
LEMMA OnlyOK ==
    ASSUME NEW t, NEW n, TableOK(t, n), NEW ids
    PROVE  TableOK(Only(t, ids), n)
<1>1. DOMAIN Only(t, ids) = DOMAIN t \cap ids /\ \A b \in DOMAIN t \cap ids : Only(t, ids)[b] = t[b]
  BY DEF Only
<1>2. IsFiniteSet(DOMAIN t \cap ids)
  BY FS_Subset DEF TableOK
<1> QED BY <1>1, <1>2 DEF TableOK

(* What a refresh keeps of the table it keeps as it was.                     *)
LEMMA PreserveOK ==
    ASSUME NEW t, NEW n, TableOK(t, n)
    PROVE  TableOK(Preserve(t), n)
BY OnlyOK DEF Preserve

(* A sound batch may be added,                                               *)
LEMMA WithOK ==
    ASSUME NEW t, NEW n, TableOK(t, n), NEW id \in Nat, NEW b, BatchOK(b, n)
    PROVE  TableOK(With(t, id, b), n)
<1>1. DOMAIN With(t, id, b) = DOMAIN t \cup {id}
  BY DEF With
<1>2. \A c \in DOMAIN t \cup {id} : With(t, id, b)[c] = IF c = id THEN b ELSE t[c]
  BY DEF With
<1>3. IsFiniteSet(DOMAIN t \cup {id})
  BY FS_AddElement DEF TableOK
<1> QED BY <1>1, <1>2, <1>3 DEF TableOK

(* or put in the place of another.                                           *)
LEMMA ReplaceOK ==
    ASSUME NEW t, NEW n, TableOK(t, n), NEW id, NEW b, BatchOK(b, n)
    PROVE  TableOK([t EXCEPT ![id] = b], n)
<1>1. DOMAIN [t EXCEPT ![id] = b] = DOMAIN t
  OBVIOUS
<1>2. \A c \in DOMAIN t : [t EXCEPT ![id] = b][c] = IF c = id THEN b ELSE t[c]
  OBVIOUS
<1> QED BY <1>1, <1>2 DEF TableOK

(* Deactivation changes nothing else of a batch.                             *)
LEMMA DeactivatedOK ==
    ASSUME NEW t, NEW n, TableOK(t, n), NEW ids
    PROVE  TableOK(Deactivated(t, ids), n)
<1>1. DOMAIN Deactivated(t, ids) = DOMAIN t
  BY DEF Deactivated
<1>2. ASSUME NEW c \in DOMAIN t
      PROVE  BatchOK(Deactivated(t, ids)[c], n)
  <2> DEFINE x == t[c]
             y == [x EXCEPT !.active = @ /\ c \notin ids]
  <2>1. BatchOK(x, n) /\ Deactivated(t, ids)[c] = y
    BY <1>2 DEF TableOK, Deactivated
  <2> HIDE DEF x
  <2>2. x \in Batches
    BY <2>1 DEF BatchOK
  <2>3. /\ y \in Batches /\ y.snapshot = x.snapshot /\ y.plan = x.plan /\ y.runs = x.runs
        /\ y.active => x.active
    BY <2>2 DEF Batches
  <2> HIDE DEF y
  <2> QED BY <2>1, <2>3 DEF BatchOK, RowOK
<1> QED BY <1>1, <1>2 DEF TableOK

(* A later extraction leaves what is known of older rows.                    *)
LEMMA LaterOK ==
    ASSUME NEW t, NEW n \in Nat, TableOK(t, n), NEW m \in Nat, n <= m
    PROVE  TableOK(t, m)
<1>1. ASSUME NEW b, BatchOK(b, n)
      PROVE  BatchOK(b, m)
  <2>1. b \in Batches /\ b.plan.rows \in Nat
    BY <1>1 DEF BatchOK, Batches, Plans
  <2>2. b.plan.rows <= m
    BY <1>1, <2>1 DEF BatchOK
  <2>3. b.plan.rows = m => m = n
    BY <1>1, <2>1 DEF BatchOK
  <2> QED BY <1>1, <2>1, <2>2, <2>3 DEF BatchOK, RowOK
<1> QED BY <1>1 DEF TableOK

(* The id of a new batch is that of no other.                                *)
LEMMA NextIdOK ==
    ASSUME NEW t, NEW n, TableOK(t, n)
    PROVE  NextId(t) \in Nat /\ NextId(t) \notin DOMAIN t
<1>1. CASE DOMAIN t = {}
  BY <1>1 DEF NextId
<1>2. CASE DOMAIN t # {}
  <2> DEFINE m == Newest(DOMAIN t)
  <2>1. m \in DOMAIN t /\ m \in Nat /\ \A j \in DOMAIN t : j \in Nat /\ j <= m
    BY <1>2, NewestIsOne DEF TableOK
  <2>2. NextId(t) = m + 1
    BY <1>2 DEF NextId
  <2> HIDE DEF m
  <2> QED BY <2>1, <2>2
<1> QED BY <1>1, <1>2

-----------------------------------------------------------------------------
(* What the operations on a run keep.                                        *)

(* The fields of a run.                                                      *)
LEMMA RunTypes ==
    ASSUME NEW run \in Runs
    PROVE  /\ run.status \in {"pending", "completed", "partial", "failed"}
           /\ run.kind \in {"checked", "carried", "mixed"}
           /\ run.conf \in Versions /\ run.inputs \in SUBSET Inputs
           /\ run.cover \in SUBSET Rows
BY DEF Runs

(* The files of a run that is as its members want it.                        *)
LEMMA CoverCount ==
    ASSUME NEW p \in Projects, NEW C,
           \A r \in C : r.file \in Members[p],
           \A r, s \in C : r.file = s.file => r = s
    PROVE  /\ Cardinality(C) = Cardinality(Members[p]) <=> Members[p] \subseteq {r.file : r \in C}
           /\ Cardinality(Healthy(C)) = Cardinality(Members[p])
                <=> Members[p] \subseteq {r.file : r \in Healthy(C)}
           /\ Cardinality(C) \in Nat /\ Cardinality(Healthy(C)) \in Nat
           /\ Cardinality(Healthy(C)) = 0 <=> Healthy(C) = {}
<1>1. Healthy(C) \subseteq C
  BY DEF Healthy
<1>2. IsFiniteSet(Members[p])
  BY ProjectsFinite
<1> QED BY <1>1, <1>2, RowsCount

(* A run set back to pending has no rows.                                    *)
LEMMA ResetOK ==
    ASSUME NEW p \in Projects, NEW run \in Runs
    PROVE  /\ ResetRun(run) \in Runs /\ RunOK(p, ResetRun(run))
           /\ ResetRun(run).status = "pending" /\ ResetRun(run).cover = {}
<1>0. PICK y : y = ResetRun(run)
  OBVIOUS
<1>1. /\ y \in Runs /\ y.status = "pending" /\ y.kind = "checked"
      /\ y.inputs = {} /\ y.cover = {}
  BY <1>0 DEF ResetRun, Runs
<1>2. RunOK(p, y)
  BY <1>1 DEF RunOK, CoverOK, InputsOK, Publishable, Healthy
<1> QED BY <1>0, <1>1, <1>2

(* A run that has just been opened has none either.                          *)
LEMMA PendingOK ==
    ASSUME NEW p \in Projects, NEW conf \in Versions
    PROVE  /\ PendingRun(conf) \in Runs /\ RunOK(p, PendingRun(conf))
           /\ PendingRun(conf).cover = {}
<1>0. PICK y : y = PendingRun(conf)
  OBVIOUS
<1>1. /\ y \in Runs /\ y.status = "pending" /\ y.kind = "checked"
      /\ y.inputs = {} /\ y.cover = {}
  BY <1>0 DEF PendingRun, Runs
<1>2. RunOK(p, y)
  BY <1>1 DEF RunOK, CoverOK, InputsOK, Publishable, Healthy
<1> QED BY <1>0, <1>1, <1>2

(* A run that waits again: its answers stand, unless they cover everything.  *)
LEMMA PreparedOK ==
    ASSUME NEW p \in Projects, NEW e, Mine(e, p) \in Runs, RunOK(p, Mine(e, p))
    PROVE  /\ PreparedRun(e, p) \in Runs /\ RunOK(p, PreparedRun(e, p))
           /\ PreparedRun(e, p).status = "pending"
           /\ PreparedRun(e, p).cover \subseteq Mine(e, p).cover
<1>0. PICK run : run = Mine(e, p)
  OBVIOUS
<1>1. run \in Runs /\ RunOK(p, run)
  BY <1>0
<1>2. CASE Cardinality(Healthy(run.cover)) = Cardinality(Members[p])
  <2>1. PreparedRun(e, p) = ResetRun(run)
    BY <1>0, <1>2 DEF PreparedRun
  <2> QED BY <1>1, <2>1, ResetOK
<1>3. CASE Cardinality(Healthy(run.cover)) # Cardinality(Members[p])
  <2>1. PICK y : y = [run EXCEPT !.status = "pending"]
    OBVIOUS
  <2>2. PreparedRun(e, p) = y
    BY <1>0, <1>3, <2>1 DEF PreparedRun
  <2>3. run.kind # "carried"
    BY <1>1, <1>3, CoverCount DEF RunOK, CoverOK, InputsOK
  <2>4. /\ y \in Runs /\ y.status = "pending" /\ y.kind = run.kind
        /\ y.inputs = run.inputs /\ y.cover = run.cover
    BY <1>1, <2>1 DEF Runs
  <2>5. CoverOK(p, y)
    BY <1>1, <2>4 DEF RunOK, CoverOK
  <2>6. InputsOK(p, y)
    BY <1>1, <2>3, <2>4 DEF RunOK, InputsOK, Publishable
  <2> QED BY <1>0, <2>2, <2>4, <2>5, <2>6 DEF RunOK
<1> QED BY <1>2, <1>3

(* A clone keeps the answers that no project failed to give.                 *)
LEMMA ClonedOK ==
    ASSUME NEW p \in Projects, NEW b, batches[b].runs \in [Projects -> Runs],
           RunOK(p, batches[b].runs[p])
    PROVE  /\ ClonedRun(b, p) \in Runs /\ RunOK(p, ClonedRun(b, p))
           /\ ClonedRun(b, p).cover \subseteq batches[b].runs[p].cover
<1>0. PICK run : run = batches[b].runs[p]
  OBVIOUS
<1>1. run \in Runs /\ RunOK(p, run)
  BY <1>0
<1> DEFINE kept == IF Publishable(run)
                   THEN {r \in run.cover : r.file \notin FailedFiles(b)} ELSE {}
<1>2. PICK rows : rows = kept
  OBVIOUS
<1>3. rows \subseteq run.cover /\ \A r \in rows : r.status # "failed"
  BY <1>0, <1>2 DEF FailedFiles
<1>4. PICK full \in BOOLEAN : full <=> Cardinality(rows) = Cardinality(Members[p])
  OBVIOUS
<1> DEFINE status == IF run.status = "completed" /\ full THEN "completed" ELSE "pending"
           kind == IF full THEN (IF run.status = "completed" THEN run.kind ELSE "mixed")
                   ELSE IF rows # {} THEN "mixed" ELSE "checked"
           inputs == IF Publishable(run) THEN run.inputs ELSE {}
<1>5. PICK y : y = [run EXCEPT !.status = status, !.kind = kind,
                               !.inputs = inputs, !.cover = rows]
  OBVIOUS
<1>6. ClonedRun(b, p) = y
  BY <1>0, <1>2, <1>4, <1>5 DEF ClonedRun
<1>7. run.cover \in SUBSET Rows /\ run.inputs \in SUBSET Inputs /\ run.kind \in {"checked", "carried", "mixed"}
  BY <1>1, RunTypes
<1>8. Healthy(rows) = rows
  BY <1>3 DEF Healthy
<1> HIDE DEF kept
<1>9. /\ \A r \in rows : r.file \in Members[p] /\ r.status # "failed" /\ r.fp # {}
      /\ \A r, s \in rows : r.file = s.file => r = s
  BY <1>1, <1>3 DEF RunOK, CoverOK
<1>10. full => Members[p] \subseteq {r.file : r \in rows}
  BY <1>4, <1>9, CoverCount
<1>11. /\ y \in Runs /\ y.status = status /\ y.kind = kind
       /\ y.inputs = inputs /\ y.cover = rows
  <2>1. /\ rows \in SUBSET Rows /\ inputs \in SUBSET Inputs
        /\ kind \in {"checked", "carried", "mixed"}
        /\ status \in {"pending", "completed", "partial", "failed"}
    BY <1>3, <1>7
  <2> HIDE DEF status, kind, inputs
  <2> QED BY <1>1, <1>5, <2>1 DEF Runs
<1>12. CoverOK(p, y)
  BY <1>8, <1>9, <1>10, <1>11 DEF CoverOK
<1>13. InputsOK(p, y)
  <2>1. y.kind = "carried" => y.status = "completed"
    BY <1>1, <1>11 DEF RunOK, InputsOK
  <2>2. Publishable(y) => Publishable(run) /\ y.inputs = run.inputs
    BY <1>11 DEF Publishable
  <2>3. y.kind = "checked" => rows = {} \/ run.kind = "checked"
    BY <1>11
  <2>4. Healthy(rows) \subseteq Healthy(run.cover)
    BY <1>3 DEF Healthy
  <2>5. y.cover = rows
    BY <1>11
  <2> HIDE DEF status, kind, inputs
  <2>6. Publishable(y) => \A r \in y.cover : External(r.fp) \subseteq y.inputs
    BY <1>1, <1>3, <2>2, <2>5 DEF RunOK, InputsOK
  <2>7. ASSUME y.kind = "checked", NEW r \in Healthy(y.cover)
        PROVE  Follows(p, r.fp, r) /\ (Publishable(y) => r.fp = y.inputs)
    <3>1. run.kind = "checked" /\ r \in Healthy(run.cover)
      BY <1>8, <2>3, <2>4, <2>5, <2>7
    <3> QED BY <1>1, <2>2, <3>1 DEF RunOK, InputsOK
  <2> QED BY <2>1, <2>6, <2>7 DEF InputsOK
<1> QED BY <1>0, <1>3, <1>6, <1>11, <1>12, <1>13 DEF RunOK

(* A project has one source at most, and all of its answers were given.      *)
LEMMA SourceIsWhole ==
    ASSUME TableOK(batches, index.rows), OnePublication,
           NEW e, NEW p \in Projects, NEW d, NEW b \in Source(e, p, d)
    PROVE  /\ \A c \in Source(e, p, d) : b = c
           /\ batches[b].runs[p] \in Runs /\ RunOK(p, batches[b].runs[p])
           /\ batches[b].runs[p].status = "completed"
           /\ \A r \in batches[b].runs[p].cover : r.status # "failed"
<1>1. b \in DOMAIN batches /\ CanSupply(e, b, p, d) /\ \A c \in Source(e, p, d) : b = c
  <2> DEFINE inactive == DOMAIN batches \ (Active \cup {proc[e].batch})
             newest   == IF inactive = {} THEN {} ELSE {Newest(inactive)}
             others   == Active \ {proc[e].batch}
             Able(bs) == {x \in bs : CanSupply(e, x, p, d)}
  <2>1. newest \subseteq DOMAIN batches /\ \A x, y \in newest : x = y
    <3>1. IsFiniteSet(inactive) /\ inactive \subseteq Nat
      BY FS_Subset DEF TableOK
    <3> QED BY <3>1, NewestIsOne
  <2>2. others \subseteq DOMAIN batches /\ \A x, y \in others : x = y
    BY DEF Active, OnePublication
  <2>3. Source(e, p, d) = IF Able(newest) # {} THEN Able(newest) ELSE Able(others)
    BY DEF Source
  <2> HIDE DEF newest, others
  <2> QED BY <2>1, <2>2, <2>3
<1>2. batches[b] \in Batches /\ RunOK(p, batches[b].runs[p])
  BY <1>1 DEF TableOK, BatchOK
<1>3. batches[b].runs[p] \in Runs
  BY <1>2 DEF Batches
<1>4. /\ batches[b].runs[p].status = "completed"
      /\ Healthy(batches[b].runs[p].cover) = batches[b].runs[p].cover
  BY <1>1 DEF CanSupply, Covers
<1> QED BY <1>1, <1>2, <1>3, <1>4 DEF Healthy

(* What is carried is of the destination's rows and sources, and rests on    *)
(* the external inputs that come with it.                                    *)
LEMMA CarriedOK ==
    ASSUME TableOK(batches, index.rows), OnePublication,
           NEW e, NEW p \in Projects, NEW d, proc[e].plan \in Plans,
           proc[e].plan.snapshot[1] = index.src,
           Mine(e, p) \in Runs, RunOK(p, Mine(e, p)), Mine(e, p).cover = {}
    PROVE  /\ CarriedRun(e, p, d) \in Runs /\ RunOK(p, CarriedRun(e, p, d))
           /\ \A r \in CarriedRun(e, p, d).cover : OfPlan(r, proc[e].plan)
<1>0. PICK run : run = Mine(e, p)
  OBVIOUS
<1> DEFINE S == Source(e, p, d)
           C == {r \in UNION {batches[b].runs[p].cover : b \in S} :
                    /\ r.src = proc[e].plan.snapshot[1][r.file]
                    /\ Fact(r) => r.target = index.src[Target[r.file]]}
           ext == UNION {External(batches[b].runs[p].inputs) : b \in S}
           n == proc[e].plan.rows
<1>1. PICK files : files = Members[p] \cap CarriedFiles(e, d)
  OBVIOUS
<1>2. PICK old : old = UNION {Carried(e, f, p, d) : f \in files}
  OBVIOUS
<1>3. PICK rows : rows = {[r EXCEPT !.rows = n] : r \in old}
  OBVIOUS
<1>4. PICK full \in BOOLEAN : full <=> files = Members[p]
  OBVIOUS
<1> DEFINE status == IF full THEN "completed" ELSE run.status
           kind == IF full THEN "carried" ELSE IF rows # {} THEN "mixed" ELSE "checked"
           inputs == run.inputs \cup (IF rows = {} THEN {} ELSE ext)
<1>5. PICK y : y = [run EXCEPT !.status = status, !.kind = kind,
                               !.inputs = inputs, !.cover = rows]
  OBVIOUS
<1>6. CarriedRun(e, p, d) = y
  BY <1>0, <1>1, <1>2, <1>3, <1>4, <1>5 DEF CarriedRun
<1>7. \A r \in old : r \in C /\ r.file \in files
  BY <1>1, <1>2 DEF Carried, TargetCurrent
<1>8. ASSUME NEW r \in C
      PROVE  /\ r \in Rows /\ r.status # "failed" /\ r.fp # {}
             /\ External(r.fp) \subseteq ext
  <2>1. PICK b \in S : r \in batches[b].runs[p].cover
    BY <1>8
  <2>2. /\ batches[b].runs[p] \in Runs /\ RunOK(p, batches[b].runs[p])
        /\ batches[b].runs[p].status = "completed" /\ r.status # "failed"
    BY <2>1, SourceIsWhole
  <2>3. r \in Rows /\ r.fp # {}
    BY <2>1, <2>2, RunTypes DEF RunOK, CoverOK
  <2>4. External(r.fp) \subseteq batches[b].runs[p].inputs
    BY <2>1, <2>2 DEF RunOK, InputsOK, Publishable
  <2>5. External(r.fp) \subseteq External(batches[b].runs[p].inputs)
    BY <2>4 DEF External
  <2> QED BY <2>2, <2>3, <2>5
<1>9. ASSUME NEW r \in C, NEW s \in C, r.file = s.file
      PROVE  r = s
  <2>1. PICK b \in S : r \in batches[b].runs[p].cover
    OBVIOUS
  <2>2. PICK c \in S : s \in batches[c].runs[p].cover
    OBVIOUS
  <2>3. b = c /\ RunOK(p, batches[b].runs[p])
    BY SourceIsWhole
  <2> QED BY <1>9, <2>1, <2>2, <2>3 DEF RunOK, CoverOK
<1>10. ext \in SUBSET Inputs
  <2>1. \A b \in S : batches[b].runs[p].inputs \in SUBSET Inputs
    BY SourceIsWhole, RunTypes
  <2> QED BY <2>1 DEF External
<1> HIDE DEF C, S, ext
<1>11. ASSUME NEW r \in old, NEW x, x = [r EXCEPT !.rows = n]
       PROVE  /\ x \in Rows /\ x.file = r.file /\ x.src = r.src /\ x.rows = n
              /\ x.status = r.status /\ x.fp = r.fp /\ x.target = r.target
  <2>1. r \in Rows /\ n \in Nat
    BY <1>7, <1>8 DEF Plans
  <2> QED BY <1>11, <2>1 DEF Rows
<1>12. ASSUME NEW x \in rows
       PROVE  /\ x \in Rows /\ x.file \in files /\ x.rows = n
              /\ OfPlan(x, proc[e].plan)
              /\ x.status # "failed" /\ x.fp # {} /\ External(x.fp) \subseteq ext
  <2>1. PICK r \in old : x = [r EXCEPT !.rows = n]
    BY <1>3
  <2>2. r \in C /\ r.file \in files
    BY <1>7
  <2>3. /\ r.src = proc[e].plan.snapshot[1][r.file]
        /\ Fact(r) => r.target = index.src[Target[r.file]]
    BY <2>2 DEF C
  <2>4. /\ x \in Rows /\ x.file = r.file /\ x.src = r.src /\ x.rows = n
        /\ x.status = r.status /\ x.fp = r.fp /\ x.target = r.target
    BY <1>11, <2>1
  <2>5. OfPlan(x, proc[e].plan)
    BY <2>3, <2>4 DEF OfPlan, Fact
  <2> QED BY <1>8, <2>2, <2>4, <2>5
<1>13. ASSUME NEW x \in rows, NEW z \in rows, x.file = z.file
       PROVE  x = z
  <2>1. PICK r \in old : x = [r EXCEPT !.rows = n]
    BY <1>3
  <2>2. PICK s \in old : z = [s EXCEPT !.rows = n]
    BY <1>3
  <2>3. r.file = s.file
    BY <1>11, <1>13, <2>1, <2>2
  <2>4. r = s
    BY <1>7, <1>9, <2>3
  <2> QED BY <2>1, <2>2, <2>4
<1>14. \A f \in files : \E x \in rows : x.file = f
  <2> SUFFICES ASSUME NEW f \in files PROVE \E x \in rows : x.file = f
    OBVIOUS
  <2>1. Carried(e, f, p, d) # {}
    BY <1>1, ProjectsFinite DEF CarriedFiles, Owners
  <2>2. PICK r \in Carried(e, f, p, d) : TRUE
    BY <2>1
  <2>3. r \in old /\ r.file = f
    BY <1>2, <2>2 DEF Carried
  <2>4. [r EXCEPT !.rows = n] \in rows
    BY <1>3, <2>3
  <2>5. [r EXCEPT !.rows = n].file = r.file
    BY <1>11, <2>3
  <2> QED BY <2>3, <2>4, <2>5
<1>15. run \in Runs /\ RunOK(p, run) /\ run.cover = {}
  BY <1>0
<1>16. run.status # "completed"
  BY <1>15, ProjectsFinite DEF RunOK, CoverOK, Healthy
<1>17. Healthy(rows) = rows
  BY <1>12 DEF Healthy
<1>18. /\ y \in Runs /\ y.status = status /\ y.kind = kind
       /\ y.inputs = inputs /\ y.cover = rows
  <2>1. /\ rows \in SUBSET Rows /\ inputs \in SUBSET Inputs
        /\ kind \in {"checked", "carried", "mixed"}
        /\ status \in {"pending", "completed", "partial", "failed"}
    BY <1>10, <1>12, <1>15, RunTypes
  <2> HIDE DEF status, kind, inputs
  <2> QED BY <1>5, <1>15, <2>1 DEF Runs
<1>19. CoverOK(p, y)
  <2>1. y.status = "completed" => files = Members[p]
    BY <1>4, <1>16, <1>18
  <2>2. files \subseteq Members[p] /\ y.cover = rows
    BY <1>1, <1>18
  <2> QED BY <1>12, <1>13, <1>14, <1>17, <2>1, <2>2 DEF CoverOK
<1>20. InputsOK(p, y)
  <2>1. y.kind = "carried" => y.status = "completed"
    BY <1>18
  <2>2. \A r \in rows : External(r.fp) \subseteq y.inputs
    BY <1>12, <1>18
  <2>3. y.kind = "checked" => rows = {}
    BY <1>18
  <2> QED BY <1>17, <1>18, <2>1, <2>2, <2>3 DEF InputsOK
<1> QED BY <1>6, <1>12, <1>18, <1>19, <1>20 DEF RunOK

(* The inputs of a project are inputs, and its config is one of them.        *)
LEMMA InputsOfProject ==
    ASSUME NEW p \in Projects, NEW d \in Disks
    PROVE  /\ InputsOf(p, d) \in SUBSET Inputs /\ InputsOf(p, d) # {}
           /\ <<"conf", p, d.conf[p]>> \in InputsOf(p, d)
           /\ \A i \in InputsOf(p, d) : i[1] = "conf" => i = <<"conf", p, d.conf[p]>>
<1>1. Program(p) \subseteq Files
  BY ProjectsFinite, PublicationAssumption DEF Program
<1>2. /\ \A f \in Files : d.src[f] \in Versions
      /\ d.conf[p] \in Versions /\ d.ext[p] \in Versions
  BY DEF Disks
<1>3. \A i \in InputsOf(p, d) :
         \/ \E f \in Program(p) : i = <<"src", f, d.src[f]>>
         \/ i = <<"conf", p, d.conf[p]>> \/ i = <<"ext", p, d.ext[p]>>
  BY DEF InputsOf
<1>4. InputsOf(p, d) \in SUBSET Inputs
  BY <1>1, <1>2, <1>3 DEF Inputs
<1>5. <<"conf", p, d.conf[p]>> \in InputsOf(p, d)
  BY DEF InputsOf
<1>6. ASSUME NEW i \in InputsOf(p, d), i[1] = "conf"
      PROVE  i = <<"conf", p, d.conf[p]>>
  BY <1>3, <1>6
<1> QED BY <1>4, <1>5, <1>6

(* An answer is a row of the plan, and follows from the config.              *)
LEMMA AnswerOK ==
    ASSUME NEW e, NEW p \in Projects, NEW f \in Members[p], proc[e].plan \in Plans,
           index \in Indexes, proc[e].plan.snapshot[1] = index.src,
           NEW d \in Disks, proc[e].work[p] = InputsOf(p, d),
           NEW a, a = Answer(e, p, f)
    PROVE  /\ a \in Rows /\ a.file = f /\ OfPlan(a, proc[e].plan)
           /\ a.status # "failed" /\ a.fp = proc[e].work[p] /\ Follows(p, a.fp, a)
<1>1. PICK inputs : inputs = proc[e].work[p]
  OBVIOUS
<1>2. /\ inputs \in SUBSET Inputs /\ <<"conf", p, d.conf[p]>> \in inputs
      /\ \A i \in inputs : i[1] = "conf" => i = <<"conf", p, d.conf[p]>>
  BY <1>1, InputsOfProject
<1>3. PICK resolved \in BOOLEAN :
         resolved <=> \A v \in Versions : <<"conf", p, v>> \in inputs => <<p, v>> \notin Unanswered
  OBVIOUS
<1>4. resolved <=> <<p, d.conf[p]>> \notin Unanswered
  <2>1. d.conf[p] \in Versions
    BY DEF Disks
  <2>2. \A v \in Versions : <<"conf", p, v>> \in inputs => v = d.conf[p]
    BY <1>2
  <2> QED BY <1>2, <1>3, <2>1, <2>2
<1>5. PICK target : target = Loaded(inputs, Target[f])
  OBVIOUS
<1>6. f \in Files /\ Target[f] \in Files
  BY ProjectsFinite, PublicationAssumption
<1>7. a = [file |-> f, rows |-> proc[e].plan.rows, src |-> proc[e].plan.snapshot[1][f],
           status |-> IF resolved THEN "resolved" ELSE "unknown",
           target |-> IF resolved /\ target = index.src[Target[f]] THEN target ELSE None,
           fp |-> inputs]
  BY <1>1, <1>3, <1>5 DEF Answer
<1>8. /\ proc[e].plan.rows \in Nat /\ proc[e].plan.snapshot[1][f] \in Versions
      /\ index.src[Target[f]] \in Versions
  BY <1>6 DEF Plans, Digests, Indexes
<1>9. a \in Rows
  BY <1>2, <1>6, <1>7, <1>8 DEF Rows
<1>10. a.status = "resolved" <=> resolved
  BY <1>7
<1>11. Follows(p, a.fp, a)
  <2>1. a.fp = inputs
    BY <1>7
  <2>2. \A i \in inputs : i[1] = "conf" => i[3] = d.conf[p]
    BY <1>2
  <2> QED BY <1>4, <1>10, <2>1, <2>2 DEF Follows
<1>12. OfPlan(a, proc[e].plan)
  <2>1. /\ a.file = f /\ a.rows = proc[e].plan.rows /\ a.src = proc[e].plan.snapshot[1][f]
        /\ a.target \in {None, index.src[Target[f]]}
    BY <1>7
  <2> QED BY <2>1 DEF OfPlan, Fact
<1>13. a.status # "failed" /\ a.fp = inputs
  BY <1>7
<1> QED BY <1>1, <1>7, <1>9, <1>11, <1>12, <1>13

(* The row of a file that failed is of the plan and holds no target.         *)
LEMMA FailedRowOK ==
    ASSUME NEW e, NEW f \in Files, proc[e].plan \in Plans, NEW inputs \in SUBSET Inputs,
           NEW a, a = FailedRow(e, f, inputs)
    PROVE  /\ a \in Rows /\ a.file = f /\ OfPlan(a, proc[e].plan)
           /\ a.status = "failed" /\ a.fp = inputs
<1>1. proc[e].plan.rows \in Nat /\ proc[e].plan.snapshot[1][f] \in Versions
  BY DEF Plans, Digests
<1> QED BY <1>1 DEF FailedRow, Rows, OfPlan, Fact

(* A run under way, whose answers are of the plan.                           *)
Underway(p, run, plan) ==
    /\ run \in Runs /\ RunOK(p, run)
    /\ run.status = "pending"
    /\ \A r \in run.cover : OfPlan(r, plan)

(* Its answers may be replaced by others of the same kind.                   *)
LEMMA NewCoverOK ==
    ASSUME NEW p \in Projects, NEW plan, NEW run, Underway(p, run, plan),
           NEW y, y.status \in {"pending", "failed"}, y.kind = run.kind,
           \A r \in y.cover : r.file \in Members[p],
           \A r, s \in y.cover : r.file = s.file => r = s,
           \A r \in y.cover : r.status # "failed" =>
               r.fp # {} /\ (run.kind = "checked" => Follows(p, r.fp, r))
    PROVE  RunOK(p, y)
<1>1. run.kind # "carried"
  BY DEF Underway, RunOK, InputsOK
<1>2. CoverOK(p, y)
  BY DEF CoverOK
<1>3. InputsOK(p, y)
  <2>1. ~Publishable(y)
    BY DEF Publishable
  <2> QED BY <1>1, <2>1 DEF InputsOK, Healthy
<1> QED BY <1>2, <1>3 DEF RunOK

(* What an earlier load of the project has answered is kept only if it was   *)
(* computed from the same inputs.                                            *)
LEMMA StagedOK ==
    ASSUME NEW e, NEW p \in Projects, NEW inputs, NEW plan,
           Underway(p, Mine(e, p), plan), NEW y, y = StagedRun(e, p, inputs)
    PROVE  Underway(p, y, plan) /\ \A r \in y.cover : r.fp \in {{}, inputs}
<1>1. PICK run : run = Mine(e, p)
  OBVIOUS
<1>2. Underway(p, run, plan)
  BY <1>1
<1>3. CASE \A r \in run.cover : r.fp \in {{}, inputs}
  BY <1>1, <1>2, <1>3 DEF StagedRun
<1>4. CASE ~\A r \in run.cover : r.fp \in {{}, inputs}
  <2>1. y = ResetRun(run)
    BY <1>1, <1>4 DEF StagedRun
  <2>2. y \in Runs /\ RunOK(p, y) /\ y.status = "pending" /\ y.cover = {}
    BY <1>2, <2>1, ResetOK DEF Underway
  <2> QED BY <2>2 DEF Underway
<1> QED BY <1>3, <1>4

(* The answers to one request.                                               *)
LEMMA StageBatchOK ==
    ASSUME NEW e, NEW p \in Projects, index \in Indexes, proc[e].plan \in Plans,
           proc[e].plan.snapshot[1] = index.src, NEW d \in Disks, proc[e].work[p] = InputsOf(p, d),
           Underway(p, Mine(e, p), proc[e].plan),
           \A r \in Mine(e, p).cover : r.fp \in {{}, proc[e].work[p]},
           NEW files, files \subseteq Members[p],
           NEW y, y = [Mine(e, p) EXCEPT !.cover =
                          OtherRows(e, p, files) \cup {Answer(e, p, f) : f \in files}]
    PROVE  Underway(p, y, proc[e].plan) /\ \A r \in y.cover : r.fp \in {{}, proc[e].work[p]}
<1>1. PICK run : run = Mine(e, p)
  OBVIOUS
<1>2. PICK plan : plan = proc[e].plan
  OBVIOUS
<1>3. PICK work : work = proc[e].work[p]
  OBVIOUS
<1>4. PICK new : new = {Answer(e, p, f) : f \in files}
  OBVIOUS
<1>5. PICK others : others = OtherRows(e, p, files)
  OBVIOUS
<1>6. Underway(p, run, plan) /\ \A r \in run.cover : r.fp \in {{}, work}
  BY <1>1, <1>2, <1>3
<1>7. \A r \in others : r \in run.cover /\ r.file \notin files
  BY <1>1, <1>2, <1>5, <1>6 DEF OtherRows, Underway, OfPlan
<1>8. ASSUME NEW a \in new
      PROVE  /\ a \in Rows /\ a.file \in files /\ OfPlan(a, plan) /\ a.status # "failed"
             /\ a.fp = work /\ Follows(p, a.fp, a)
             /\ \A c \in new : a.file = c.file => a = c
  <2>1. PICK f \in files : a = Answer(e, p, f)
    BY <1>4
  <2>2. \A c \in new : \E g \in files : c = Answer(e, p, g) /\ c.file = g
    <3> SUFFICES ASSUME NEW c \in new PROVE \E g \in files : c = Answer(e, p, g) /\ c.file = g
      OBVIOUS
    <3>1. PICK g \in files : c = Answer(e, p, g)
      BY <1>4
    <3>2. c.file = g
      BY <3>1, AnswerOK
    <3> QED BY <3>1, <3>2
  <2>3. /\ a \in Rows /\ a.file = f /\ OfPlan(a, plan)
        /\ a.status # "failed" /\ a.fp = work /\ Follows(p, a.fp, a)
    BY <1>2, <1>3, <2>1, AnswerOK
  <2> QED BY <2>1, <2>2, <2>3
<1>9. work # {}
  BY <1>3, InputsOfProject
<1>10. run \in Runs /\ RunOK(p, run) /\ run.status = "pending" /\ \A r \in run.cover : OfPlan(r, plan)
  BY <1>6 DEF Underway
<1>11. PICK cover : cover = others \cup new
  OBVIOUS
<1>12. \A r \in run.cover : r \in Rows /\ r.file \in Members[p]
  BY <1>10, RunTypes DEF RunOK, CoverOK
<1>13. /\ cover \in SUBSET Rows
       /\ \A r \in cover : r.file \in Members[p] /\ OfPlan(r, plan) /\ r.fp \in {{}, work}
  BY <1>6, <1>7, <1>8, <1>10, <1>11, <1>12
<1>14. \A r, s \in cover : r.file = s.file => r = s
  BY <1>7, <1>8, <1>10, <1>11 DEF RunOK, CoverOK
<1>15. \A r \in cover : r.status # "failed" =>
          r.fp # {} /\ (run.kind = "checked" => Follows(p, r.fp, r))
  BY <1>7, <1>8, <1>9, <1>10, <1>11 DEF RunOK, CoverOK, InputsOK, Healthy
<1>16. /\ y \in Runs /\ y.status = "pending" /\ y.cover = cover /\ y.kind = run.kind
  <2>1. y = [run EXCEPT !.cover = cover]
    BY <1>1, <1>4, <1>5, <1>11
  <2> QED BY <1>10, <1>13, <2>1 DEF Runs
<1>17. RunOK(p, y)
  <2>1. /\ y.status \in {"pending", "failed"} /\ y.kind = run.kind
        /\ \A r \in y.cover : r.file \in Members[p]
        /\ \A r, s \in y.cover : r.file = s.file => r = s
    BY <1>13, <1>14, <1>16
  <2>2. \A r \in y.cover : r.status # "failed" =>
           r.fp # {} /\ (run.kind = "checked" => Follows(p, r.fp, r))
    BY <1>15, <1>16
  <2> QED BY ONLY <1>6, <2>1, <2>2, NewCoverOK, p \in Projects
<1> QED BY <1>2, <1>3, <1>13, <1>16, <1>17 DEF Underway

(* A file the checker could not answer for.                                  *)
LEMMA StageFailedOK ==
    ASSUME NEW e, NEW p \in Projects, proc[e].plan \in Plans,
           NEW work, work = proc[e].work[p], work \in SUBSET Inputs,
           Underway(p, Mine(e, p), proc[e].plan),
           \A r \in Mine(e, p).cover : r.fp \in {{}, work},
           NEW f \in Members[p],
           NEW y, y = [Mine(e, p) EXCEPT !.cover =
                          {r \in @ : r.file # f} \cup {FailedRow(e, f, proc[e].work[p])}]
    PROVE  Underway(p, y, proc[e].plan) /\ \A r \in y.cover : r.fp \in {{}, work}
<1>1. PICK run : run = Mine(e, p)
  OBVIOUS
<1>2. PICK plan : plan = proc[e].plan
  OBVIOUS
<1>3. PICK a : a = FailedRow(e, f, work)
  OBVIOUS
<1>4. /\ a \in Rows /\ a.file = f /\ OfPlan(a, plan) /\ a.status = "failed" /\ a.fp = work
  <2>1. f \in Files
    BY ProjectsFinite
  <2> QED BY <1>2, <1>3, <2>1, FailedRowOK
<1>5. Underway(p, run, plan) /\ \A r \in run.cover : r.fp \in {{}, work}
  BY <1>1, <1>2
<1>6. run \in Runs /\ RunOK(p, run) /\ run.status = "pending" /\ \A r \in run.cover : OfPlan(r, plan)
  BY <1>5 DEF Underway
<1>7. PICK cover : cover = {r \in run.cover : r.file # f} \cup {a}
  OBVIOUS
<1>8. \A r \in run.cover : r \in Rows /\ r.file \in Members[p]
  BY <1>6, RunTypes DEF RunOK, CoverOK
<1>9. cover \in SUBSET Rows
  BY <1>4, <1>7, <1>8
<1>10. /\ y \in Runs /\ y.status = "pending" /\ y.cover = cover /\ y.kind = run.kind
  <2>1. y = [run EXCEPT !.cover = cover]
    BY <1>1, <1>3, <1>7
  <2> QED BY <1>6, <1>9, <2>1 DEF Runs
<1>11. /\ \A r \in y.cover : r.file \in Members[p] /\ OfPlan(r, plan) /\ r.fp \in {{}, work}
       /\ \A r, s \in y.cover : r.file = s.file => r = s
  BY <1>4, <1>5, <1>6, <1>7, <1>8, <1>10 DEF RunOK, CoverOK
<1>12. \A r \in y.cover : r.status # "failed" =>
          r.fp # {} /\ (run.kind = "checked" => Follows(p, r.fp, r))
  BY <1>4, <1>6, <1>7, <1>10 DEF RunOK, CoverOK, InputsOK, Healthy
<1>13. RunOK(p, y)
  <2>1. y.status \in {"pending", "failed"} /\ y.kind = run.kind
    BY <1>10
  <2>2. \A r \in y.cover : r.file \in Members[p]
    BY <1>11
  <2>3. \A r, s \in y.cover : r.file = s.file => r = s
    BY <1>11
  <2> QED BY ONLY <1>5, <1>12, <2>1, <2>2, <2>3, NewCoverOK, p \in Projects
<1> QED BY <1>2, <1>10, <1>11, <1>13 DEF Underway

(* The checker failed: its files without an answer have failed.              *)
LEMMA FailRunOK ==
    ASSUME NEW e, NEW p \in Projects, proc[e].plan \in Plans,
           Underway(p, Mine(e, p), proc[e].plan),
           NEW known, known = {r.file : r \in {x \in Mine(e, p).cover :
                                                 x.rows = proc[e].plan.rows}},
           NEW y, y = [Mine(e, p) EXCEPT !.status = "failed",
                          !.cover = @ \cup {FailedRow(e, f, {}) : f \in Members[p] \ known}]
    PROVE  y \in Runs /\ RunOK(p, y) /\ \A r \in y.cover : OfPlan(r, proc[e].plan)
<1>1. PICK run : run = Mine(e, p)
  OBVIOUS
<1>2. PICK plan : plan = proc[e].plan
  OBVIOUS
<1>3. PICK new : new = {FailedRow(e, f, {}) : f \in Members[p] \ known}
  OBVIOUS
<1>4. ASSUME NEW a \in new
      PROVE  /\ a \in Rows /\ a.file \in Members[p] \ known /\ OfPlan(a, plan)
             /\ a.status = "failed"
             /\ \A c \in new : a.file = c.file => a = c
  <2>0. \A c \in new : \E g \in Members[p] \ known : c = FailedRow(e, g, {}) /\ c.file = g
    <3> SUFFICES ASSUME NEW c \in new
                 PROVE  \E g \in Members[p] \ known : c = FailedRow(e, g, {}) /\ c.file = g
      OBVIOUS
    <3>1. PICK g \in Members[p] \ known : c = FailedRow(e, g, {})
      BY <1>3
    <3>2. g \in Files
      BY ProjectsFinite
    <3>3. c.file = g
      BY <3>1, <3>2, FailedRowOK
    <3> QED BY <3>1, <3>3
  <2>1. PICK f \in Members[p] \ known : a = FailedRow(e, f, {})
    BY <1>3
  <2>2. f \in Files
    BY ProjectsFinite
  <2>3. a \in Rows /\ a.file = f /\ OfPlan(a, plan) /\ a.status = "failed"
    BY <1>2, <2>1, <2>2, FailedRowOK
  <2> QED BY <2>0, <2>1, <2>3
<1>5. Underway(p, run, plan)
  BY <1>1, <1>2
<1>6. run \in Runs /\ RunOK(p, run) /\ run.status = "pending" /\ \A r \in run.cover : OfPlan(r, plan)
  BY <1>5 DEF Underway
<1>7. PICK cover : cover = run.cover \cup new
  OBVIOUS
<1>8. \A r \in run.cover : r \in Rows /\ r.file \in Members[p] /\ r.file \in known
  BY <1>1, <1>2, <1>6, RunTypes DEF RunOK, CoverOK, OfPlan
<1>9. cover \in SUBSET Rows
  BY <1>4, <1>7, <1>8
<1>10. /\ y \in Runs /\ y.status = "failed" /\ y.cover = cover /\ y.kind = run.kind
  <2>1. y = [run EXCEPT !.status = "failed", !.cover = cover]
    BY <1>1, <1>3, <1>7
  <2> QED BY <1>6, <1>9, <2>1 DEF Runs
<1>11. /\ \A r \in y.cover : r.file \in Members[p] /\ OfPlan(r, plan)
       /\ \A r, s \in y.cover : r.file = s.file => r = s
  BY <1>4, <1>6, <1>7, <1>8, <1>10 DEF RunOK, CoverOK
<1>12. \A r \in y.cover : r.status # "failed" =>
          r.fp # {} /\ (run.kind = "checked" => Follows(p, r.fp, r))
  BY <1>4, <1>6, <1>7, <1>10 DEF RunOK, CoverOK, InputsOK, Healthy
<1>13. RunOK(p, y)
  <2>1. y.status \in {"pending", "failed"} /\ y.kind = run.kind
    BY <1>10
  <2>2. \A r \in y.cover : r.file \in Members[p]
    BY <1>11
  <2>3. \A r, s \in y.cover : r.file = s.file => r = s
    BY <1>11
  <2> QED BY ONLY <1>5, <1>12, <2>1, <2>2, <2>3, NewCoverOK, p \in Projects
<1> QED BY <1>2, <1>10, <1>11, <1>13

(* The checker is done, and its inputs are recorded with every answer.       *)
LEMMA CompletedOK ==
    ASSUME NEW e, NEW p \in Projects, proc[e].plan \in Plans,
           NEW d \in Disks, NEW work, work = proc[e].work[p], work = InputsOf(p, d),
           Underway(p, Mine(e, p), proc[e].plan),
           \A r \in Mine(e, p).cover : r.fp \in {{}, work},
           NEW y, y = CompletedRun(e, p)
    PROVE  y \in Runs /\ RunOK(p, y) /\ \A r \in y.cover : OfPlan(r, proc[e].plan)
<1>1. PICK run : run = Mine(e, p)
  OBVIOUS
<1>2. PICK plan : plan = proc[e].plan
  OBVIOUS
<1>3. Underway(p, run, plan) /\ \A r \in run.cover : r.fp \in {{}, work}
  BY <1>1, <1>2
<1>4. run \in Runs /\ RunOK(p, run) /\ run.status = "pending" /\ \A r \in run.cover : OfPlan(r, plan)
  BY <1>3 DEF Underway
<1>5. work \in SUBSET Inputs /\ work # {}
  BY InputsOfProject
<1>6. PICK cover : cover = {[r EXCEPT !.fp = work] : r \in run.cover}
  OBVIOUS
<1>7. \A r \in run.cover : r \in Rows /\ r.file \in Members[p]
  BY <1>4, RunTypes DEF RunOK, CoverOK
<1>8. ASSUME NEW x \in cover
      PROVE  \E r \in run.cover :
                /\ x = [r EXCEPT !.fp = work] /\ x \in Rows /\ x.fp = work
                /\ x.file = r.file /\ x.status = r.status /\ x.rows = r.rows /\ x.src = r.src
                /\ x.target = r.target
  <2>1. PICK r \in run.cover : x = [r EXCEPT !.fp = work]
    BY <1>6
  <2>2. r \in Rows
    BY <1>7
  <2>3. /\ x \in Rows /\ x.fp = work
        /\ x.file = r.file /\ x.status = r.status /\ x.rows = r.rows /\ x.src = r.src
        /\ x.target = r.target
    BY <1>5, <2>1, <2>2 DEF Rows
  <2> QED BY <2>1, <2>3
<1>9. PICK healthy : healthy = Cardinality(Healthy(run.cover))
  OBVIOUS
<1> DEFINE status == IF healthy = Cardinality(Members[p]) THEN "completed"
                     ELSE IF healthy = 0 THEN "failed" ELSE "partial"
           kind == IF run.kind = "mixed" THEN "mixed" ELSE "checked"
<1>10. /\ y \in Runs /\ y.status = status /\ y.kind = kind
       /\ y.inputs = work /\ y.cover = cover
  <2>1. y = [run EXCEPT !.status = status, !.kind = kind, !.inputs = work, !.cover = cover]
    BY <1>1, <1>6, <1>9 DEF CompletedRun
  <2>2. /\ status \in {"pending", "completed", "partial", "failed"}
        /\ kind \in {"checked", "carried", "mixed"} /\ cover \in SUBSET Rows
    BY <1>8
  <2> HIDE DEF status, kind
  <2> QED BY <1>4, <1>5, <2>1, <2>2 DEF Runs
<1>11. \A r \in cover : r.file \in Members[p] /\ r.fp = work /\ OfPlan(r, plan)
  BY <1>4, <1>7, <1>8 DEF OfPlan, Fact
<1>12. \A r, s \in cover : r.file = s.file => r = s
  <2> SUFFICES ASSUME NEW x \in cover, NEW z \in cover, x.file = z.file PROVE x = z
    OBVIOUS
  <2>1. PICK r \in run.cover : x = [r EXCEPT !.fp = work] /\ x.file = r.file
    BY <1>8
  <2>2. PICK s \in run.cover : z = [s EXCEPT !.fp = work] /\ z.file = s.file
    BY <1>8
  <2>3. r = s
    BY <1>4, <2>1, <2>2 DEF RunOK, CoverOK
  <2> QED BY <2>1, <2>2, <2>3
<1>13. CoverOK(p, y)
  <2>1. ASSUME y.status = "completed", NEW f \in Members[p]
        PROVE  \E x \in Healthy(cover) : x.file = f
    <3>1. healthy = Cardinality(Members[p])
      BY <1>10, <2>1
    <3>0. /\ \A r \in run.cover : r.file \in Members[p]
          /\ \A r, s \in run.cover : r.file = s.file => r = s
      BY <1>4 DEF RunOK, CoverOK
    <3>8. Cardinality(Healthy(run.cover)) = Cardinality(Members[p])
      BY <1>9, <3>1
    <3>9. Members[p] \subseteq {r.file : r \in Healthy(run.cover)}
      BY ONLY <3>0, <3>8, CoverCount, p \in Projects
    <3>2. PICK r \in Healthy(run.cover) : r.file = f
      BY <3>9
    <3>3. r \in run.cover /\ r.status # "failed"
      BY <3>2 DEF Healthy
    <3>4. [r EXCEPT !.fp = work] \in cover
      BY <1>6, <3>3
    <3>5. [r EXCEPT !.fp = work].file = f /\ [r EXCEPT !.fp = work].status = r.status
      BY <1>7, <3>2, <3>3 DEF Rows
    <3> QED BY <3>3, <3>4, <3>5 DEF Healthy
  <2>2. y.status = "completed" => Members[p] \subseteq {r.file : r \in Healthy(y.cover)}
    BY <1>10, <2>1
  <2> HIDE DEF status, kind
  <2> QED BY <1>5, <1>10, <1>11, <1>12, <2>2 DEF CoverOK
<1>14. InputsOK(p, y)
  <2>1. y.kind # "carried"
    BY <1>10
  <2>2. \A r \in y.cover : r.fp = y.inputs /\ External(r.fp) \subseteq y.inputs
    BY <1>10, <1>11 DEF External
  <2>3. ASSUME y.kind = "checked", NEW x \in Healthy(y.cover)
        PROVE  Follows(p, x.fp, x)
    <3>1. run.kind = "checked"
      BY <1>4, <1>10, <2>3, RunTypes DEF RunOK, InputsOK
    <3>2. x \in cover /\ x.status # "failed"
      BY <1>10 DEF Healthy
    <3>3. PICK r \in run.cover : x.status = r.status /\ x.fp = work
      BY <1>8, <3>2
    <3>4. r \in Healthy(run.cover) /\ r.fp # {}
      BY <1>4, <3>2, <3>3 DEF Healthy, RunOK, CoverOK
    <3>5. r.fp = work /\ Follows(p, r.fp, r)
      BY <1>3, <1>4, <3>1, <3>4 DEF RunOK, InputsOK
    <3> QED BY <3>3, <3>5 DEF Follows
  <2>4. Healthy(y.cover) \subseteq y.cover
    BY DEF Healthy
  <2> QED BY <2>1, <2>2, <2>3, <2>4 DEF InputsOK
<1> QED BY <1>2, <1>10, <1>11, <1>13, <1>14 DEF RunOK

-----------------------------------------------------------------------------
(* Batches that are written to, opened, cloned and rebound.                  *)

(* The fields of a batch.                                                    *)
LEMMA BatchTypes ==
    ASSUME NEW b \in Batches
    PROVE  /\ b.snapshot \in Digests /\ b.plan \in Plans
           /\ b.active \in BOOLEAN /\ b.stamped \in BOOLEAN
           /\ b.runs \in [Projects -> Runs] /\ b.plan.rows \in Nat
           /\ "active" \in DOMAIN b
BY DEF Batches, Plans

(* A batch stands if its runs and their rows do.                             *)
LEMMA RunsOfBatchOK ==
    ASSUME NEW n, NEW y \in Batches, y.plan.rows <= n,
           \A p \in Projects : RunOK(p, y.runs[p]) /\ \A r \in y.runs[p].cover : RowOK(r, y, n)
    PROVE  BatchOK(y, n)
BY DEF BatchOK

(* In the batch of a plan of the index's rows, the rows are of the plan.     *)
LEMMA RowsOfPlan ==
    ASSUME NEW b, NEW n, b.plan.rows = n, b.snapshot = b.plan.snapshot, NEW r
    PROVE  RowOK(r, b, n) <=> OfPlan(r, b.plan)
BY DEF RowOK, OfPlan

(* A batch that has just been opened is sound.                               *)
LEMMA NewBatchOK ==
    ASSUME NEW plan \in Plans, NEW n, plan.rows <= n, NEW y, y = NewBatch(plan)
    PROVE  /\ BatchOK(y, n) /\ y.snapshot = plan.snapshot /\ y.plan = plan
           /\ y.active = FALSE
<1>1. plan.snapshot \in Digests /\ plan.conf \in [Projects -> Versions]
  BY DEF Plans
<1>2. PICK runs : runs = [p \in Projects |-> PendingRun(plan.conf[p])]
  OBVIOUS
<1>3. \A p \in Projects : runs[p] \in Runs /\ RunOK(p, runs[p]) /\ runs[p].cover = {}
  BY <1>1, <1>2, PendingOK
<1>4. y = [snapshot |-> plan.snapshot, plan |-> plan, active |-> FALSE,
           stamped |-> FALSE, runs |-> runs]
  BY <1>2 DEF NewBatch
<1>5. runs \in [Projects -> Runs]
  BY <1>2, <1>3
<1>6. y \in Batches
  BY <1>1, <1>4, <1>5 DEF Batches
<1>7. y.snapshot = plan.snapshot /\ y.plan = plan /\ y.active = FALSE /\ y.runs = runs
  BY <1>4
<1> QED BY <1>3, <1>6, <1>7, RunsOfBatchOK

(* The clone of a sound batch is sound, and is not active.                   *)
LEMMA CloneOK ==
    ASSUME NEW b, NEW n, BatchOK(batches[b], n), NEW y, y = Clone(b)
    PROVE  /\ BatchOK(y, n) /\ y.snapshot = batches[b].snapshot
           /\ y.plan = batches[b].plan /\ y.active = FALSE
<1>0. PICK x : x = batches[b]
  OBVIOUS
<1>1. x \in Batches /\ x.plan.rows <= n /\ x.runs \in [Projects -> Runs]
  BY <1>0, BatchTypes DEF BatchOK
<1>2. PICK runs : runs = [p \in Projects |-> ClonedRun(b, p)]
  OBVIOUS
<1>3. \A p \in Projects : /\ runs[p] \in Runs /\ RunOK(p, runs[p])
                          /\ runs[p].cover \subseteq x.runs[p].cover
  <2> SUFFICES ASSUME NEW p \in Projects
               PROVE  /\ ClonedRun(b, p) \in Runs /\ RunOK(p, ClonedRun(b, p))
                      /\ ClonedRun(b, p).cover \subseteq x.runs[p].cover
    BY <1>2
  <2>1. RunOK(p, batches[b].runs[p]) /\ batches[b].runs \in [Projects -> Runs]
    BY <1>0, <1>1 DEF BatchOK
  <2> QED BY <1>0, <2>1, ClonedOK
<1>4. y = [x EXCEPT !.active = FALSE, !.stamped = FALSE, !.runs = runs]
  BY <1>0, <1>2 DEF Clone
<1>5. runs \in [Projects -> Runs]
  BY <1>2, <1>3
<1>6. /\ y \in Batches /\ y.snapshot = x.snapshot /\ y.plan = x.plan
      /\ y.active = FALSE /\ y.runs = runs
  BY <1>1, <1>4, <1>5 DEF Batches
<1>7. \A p \in Projects : \A r \in runs[p].cover : RowOK(r, x, n)
  BY <1>0, <1>3 DEF BatchOK
<1>8. \A p \in Projects : \A r \in y.runs[p].cover : RowOK(r, y, n)
  BY <1>6, <1>7 DEF RowOK
<1> QED BY <1>0, <1>1, <1>3, <1>6, <1>8, RunsOfBatchOK

(* A rebound run keeps its answers and inputs under the new rowids.          *)
LEMMA ReboundRunOK ==
    ASSUME NEW p \in Projects, NEW run \in Runs, RunOK(p, run),
           NEW next, next.rows \in Nat, NEW y, y = ReboundRun(run, next)
    PROVE  /\ y \in Runs /\ RunOK(p, y)
           /\ y.status = run.status /\ y.inputs = run.inputs
           /\ run.status = "completed" => y.kind = "carried"
           /\ y.cover = {[r EXCEPT !.rows = next.rows] : r \in run.cover}
           /\ \A x \in y.cover : \E r \in run.cover :
                 /\ x = [r EXCEPT !.rows = next.rows]
                 /\ x.file = r.file /\ x.src = r.src /\ x.target = r.target
                 /\ x.rows = next.rows
           /\ \A r \in run.cover : \E x \in y.cover :
                 x.file = r.file /\ x.target = r.target
<1>1. PICK cover : cover = {[r EXCEPT !.rows = next.rows] : r \in run.cover}
  OBVIOUS
<1>2. PICK kind : kind = IF run.status = "completed" THEN "carried"
                         ELSE IF Healthy(run.cover) # {} THEN "mixed" ELSE "checked"
  OBVIOUS
<1>3. y = [run EXCEPT !.kind = kind, !.cover = cover]
  BY <1>1, <1>2 DEF ReboundRun
<1>4. run.cover \in SUBSET Rows
  BY RunTypes
<1>5. ASSUME NEW r \in run.cover, NEW x, x = [r EXCEPT !.rows = next.rows]
      PROVE  /\ x \in Rows /\ x.file = r.file /\ x.src = r.src /\ x.target = r.target
             /\ x.rows = next.rows /\ x.status = r.status /\ x.fp = r.fp
  BY <1>4, <1>5 DEF Rows
<1>6. \A x \in cover : \E r \in run.cover :
         /\ x = [r EXCEPT !.rows = next.rows]
         /\ x \in Rows /\ x.file = r.file /\ x.src = r.src /\ x.target = r.target
         /\ x.rows = next.rows /\ x.status = r.status /\ x.fp = r.fp
  BY <1>1, <1>5
<1>7. ASSUME NEW r \in run.cover
      PROVE  \E x \in cover : x.file = r.file /\ x.target = r.target /\ x.status = r.status
  <2>1. PICK x : x = [r EXCEPT !.rows = next.rows]
    OBVIOUS
  <2>2. x \in cover
    BY <1>1, <2>1
  <2> QED BY <1>5, <2>1, <2>2
<1>8. cover \in SUBSET Rows /\ kind \in {"checked", "carried", "mixed"}
  BY <1>2, <1>6
<1>9. /\ y \in Runs /\ y.status = run.status /\ y.inputs = run.inputs
      /\ y.kind = kind /\ y.cover = cover
  BY <1>3, <1>8 DEF Runs
<1>10. CoverOK(p, y)
  <2>1. \A x \in cover : x.file \in Members[p] /\ (x.status # "failed" => x.fp # {})
    BY <1>6 DEF RunOK, CoverOK
  <2>2. ASSUME NEW x \in cover, NEW z \in cover, x.file = z.file
        PROVE  x = z
    <3>1. PICK r \in run.cover : x = [r EXCEPT !.rows = next.rows] /\ x.file = r.file
      BY <1>6
    <3>2. PICK s \in run.cover : z = [s EXCEPT !.rows = next.rows] /\ z.file = s.file
      BY <1>6
    <3>3. r = s
      BY <2>2, <3>1, <3>2 DEF RunOK, CoverOK
    <3> QED BY <3>1, <3>2, <3>3
  <2>3. ASSUME run.status = "completed", NEW f \in Members[p]
        PROVE  \E x \in Healthy(cover) : x.file = f
    <3>1. PICK r \in Healthy(run.cover) : r.file = f
      BY <2>3 DEF RunOK, CoverOK
    <3> QED BY <1>7, <3>1 DEF Healthy
  <2> QED BY <1>9, <2>1, <2>2, <2>3 DEF CoverOK
<1>11. InputsOK(p, y)
  <2>1. y.kind = "carried" => y.status = "completed"
    BY <1>2, <1>9
  <2>2. Publishable(y) => Publishable(run)
    BY <1>9 DEF Publishable
  <2>3. Publishable(y) => \A x \in cover : External(x.fp) \subseteq y.inputs
    BY <1>6, <1>9, <2>2 DEF RunOK, InputsOK
  <2>4. y.kind = "checked" => Healthy(cover) = {}
    <3>1. y.kind = "checked" => Healthy(run.cover) = {}
      BY <1>2, <1>9
    <3> QED BY <1>6, <3>1 DEF Healthy
  <2> QED BY <1>9, <2>1, <2>3, <2>4 DEF InputsOK
<1> QED BY <1>1, <1>2, <1>6, <1>7, <1>9, <1>10, <1>11 DEF RunOK

(* What a rebound publication becomes.                                       *)
Successor(b, next) ==
    [batches[b] EXCEPT !.snapshot = Digest(next),
                       !.runs = [p \in Projects |-> ReboundRun(batches[b].runs[p], next)]]

(* The successor of a publication is sound at the digest it moves to.        *)
LEMMA SuccessorOK ==
    ASSUME NEW b, NEW n \in Nat, BatchOK(batches[b], n), NEW next \in Indexes, n <= next.rows,
           batches[b].snapshot[1] = next.src, NEW y, y = Successor(b, next)
    PROVE  /\ BatchOK(y, next.rows) /\ y.active = batches[b].active
           /\ y.snapshot = Digest(next) /\ y.plan = batches[b].plan
           /\ \A p \in Projects : y.runs[p] = ReboundRun(batches[b].runs[p], next)
<1>0. PICK x : x = batches[b]
  OBVIOUS
<1>1. /\ x \in Batches /\ x.plan.rows <= n /\ x.runs \in [Projects -> Runs]
      /\ x.plan.rows \in Nat
  BY <1>0, BatchTypes DEF BatchOK
<1>2. PICK runs : runs = [p \in Projects |-> ReboundRun(x.runs[p], next)]
  OBVIOUS
<1>3. next.rows \in Nat /\ Digest(next) \in Digests /\ Digest(next)[1] = next.src
  BY DEF Indexes, Digest, Digests
<1>4. ASSUME NEW p \in Projects
      PROVE  /\ runs[p] \in Runs /\ RunOK(p, runs[p])
             /\ \A z \in runs[p].cover : \E r \in x.runs[p].cover :
                  /\ z.file = r.file /\ z.src = r.src /\ z.target = r.target
                  /\ z.rows = next.rows
  <2>1. x.runs[p] \in Runs /\ RunOK(p, x.runs[p]) /\ runs[p] = ReboundRun(x.runs[p], next)
    BY <1>0, <1>1, <1>2 DEF BatchOK
  <2>2. PICK run : run = x.runs[p]
    OBVIOUS
  <2>3. PICK w : w = ReboundRun(run, next)
    OBVIOUS
  <2>4. run \in Runs /\ RunOK(p, run)
    BY <2>1, <2>2
  <2>5. /\ w \in Runs /\ RunOK(p, w)
        /\ \A z \in w.cover : \E r \in run.cover :
             z.file = r.file /\ z.src = r.src /\ z.target = r.target /\ z.rows = next.rows
    BY ONLY <1>3, <2>3, <2>4, ReboundRunOK, p \in Projects
  <2> QED BY ONLY <2>1, <2>2, <2>3, <2>5
<1>5. y = [x EXCEPT !.snapshot = Digest(next), !.runs = runs]
  BY <1>0, <1>2 DEF Successor
<1>6. runs \in [Projects -> Runs]
  BY <1>2, <1>4
<1>7. /\ y \in Batches /\ y.snapshot = Digest(next) /\ y.plan = x.plan
      /\ y.active = x.active /\ y.runs = runs
  BY <1>1, <1>3, <1>5, <1>6 DEF Batches
<1>8. ASSUME NEW p \in Projects, NEW z \in y.runs[p].cover
      PROVE  RowOK(z, y, next.rows)
  <2>1. PICK r \in x.runs[p].cover :
           /\ z.file = r.file /\ z.src = r.src /\ z.target = r.target /\ z.rows = next.rows
    BY <1>4, <1>7
  <2>2. RowOK(r, x, n)
    BY <1>0 DEF BatchOK
  <2>3. y.snapshot[1] = x.snapshot[1]
    BY <1>0, <1>3, <1>7
  <2> QED BY <2>1, <2>2, <2>3 DEF RowOK, Fact
<1>9. x.plan.rows <= next.rows
  BY <1>1, <1>3
<1>10. \A p \in Projects : RunOK(p, y.runs[p]) /\ \A r \in y.runs[p].cover : RowOK(r, y, next.rows)
  BY <1>4, <1>7, <1>8
<1>11. BatchOK(y, next.rows)
  BY ONLY <1>7, <1>9, <1>10, RunsOfBatchOK
<1> QED BY <1>0, <1>2, <1>7, <1>11

-----------------------------------------------------------------------------
(* A watcher that works alone: one enricher, and no index while it runs.     *)
(* With two at a time a batch may be written to while it is published.       *)
Alone ==
    /\ Concurrent = FALSE
    /\ \A e, d \in Enrichers : e = d

EnricherFields ==
    {"pc", "plan", "batch", "seen", "since", "jobs", "work", "lost", "failed"}

(* What an enricher has planned is what the index still has, and its loaded  *)
(* inputs are those of a project at some time.  (n counts the edits.)        *)
PlannedOK(x, i, d, n) ==
    /\ x = [k \in EnricherFields |-> x[k]]
    /\ x.pc \in {"reuse", "retire", "open", "carry", "prepare", "check", "project"}
    /\ x.plan \in Plans /\ x.plan.snapshot = Digest(i) /\ x.plan.rows = i.rows
    /\ x.batch \in Nat /\ x.jobs \subseteq Projects /\ x.failed \in BOOLEAN
    /\ x.work = [p \in Projects |-> x.work[p]]
    /\ \A p \in Projects : x.work[p] = {} \/ \E dd \in Disks : x.work[p] = InputsOf(p, dd)
    /\ x.pc \notin {"check", "project"} =>
         ~x.failed /\ \A p \in Projects : x.work[p] = {}
    /\ x.since \in Nat /\ x.since <= n
    /\ x.since = n => x.seen = d /\ d.src = i.src

Works(x) == x.pc \in {"carry", "prepare", "check"}

(* It works in a batch of its plan which is not the publication.  A project  *)
(* that is left to check is pending, with answers from the inputs loaded;    *)
(* without a failure the others are complete, and fresh if nothing changed.  *)
StagingOK(x, t, d, n) ==
    /\ x.batch \in DOMAIN t
    /\ t[x.batch].active = FALSE
    /\ t[x.batch].plan = x.plan /\ t[x.batch].snapshot = x.plan.snapshot
    /\ x.pc = "check" => \A p \in Projects :
         IF p \in x.jobs
         THEN /\ t[x.batch].runs[p].status = "pending"
              /\ x.work[p] # {} =>
                   \A r \in t[x.batch].runs[p].cover : r.fp \in {{}, x.work[p]}
         ELSE ~x.failed => /\ t[x.batch].runs[p].status = "completed"
                           /\ x.since = n => AllHold(d, t[x.batch].runs[p].inputs)

EnricherOK(x, t, i, d, n) ==
    x.pc # "idle" => /\ PlannedOK(x, i, d, n)
                     /\ Works(x) => StagingOK(x, t, d, n)

SpentFields == {"edits", "indexes", "runs", "faults"}
SpentOK == spent = [k \in SpentFields |-> spent[k]] /\ spent.edits \in Nat

PubInv ==
    /\ disk \in Disks /\ index \in Indexes /\ SpentOK
    /\ TableOK(batches, index.rows)
    /\ OneLive(batches)
    /\ proc = [e \in Enrichers |-> proc[e]]
    /\ \A e \in Enrichers : EnricherOK(proc[e], batches, index, disk, spent.edits)

-----------------------------------------------------------------------------
(* Only an edit is counted as one.                                           *)
LEMMA SpendOther ==
    ASSUME SpentOK, NEW what \in {"indexes", "runs", "faults"}, NEW bound, Spend(what, bound)
    PROVE  SpentOK' /\ spent'.edits = spent.edits
BY DEF Spend, SpentOK, SpentFields

(* An edit is counted.                                                       *)
LEMMA SpendEdit ==
    ASSUME SpentOK, Spend("edits", MaxEdits)
    PROVE  SpentOK' /\ spent'.edits = spent.edits + 1
<1>1. spent'.edits = spent.edits + 1 /\ spent' = [k \in SpentFields |-> spent'[k]]
  BY DEF Spend, SpentOK, SpentFields
<1> QED BY <1>1 DEF SpentOK

(* What an enricher at work knows.                                           *)
LEMMA AtWork ==
    ASSUME PubInv, NEW e \in Enrichers, proc[e].pc # "idle"
    PROVE  /\ PlannedOK(proc[e], index, disk, spent.edits)
           /\ proc[e].plan \in Plans /\ proc[e].plan.rows = index.rows
           /\ proc[e].plan.snapshot = Snapshot
           /\ proc[e].plan.snapshot[1] = index.src
           /\ Works(proc[e]) => StagingOK(proc[e], batches, disk, spent.edits)
<1>1. EnricherOK(proc[e], batches, index, disk, spent.edits)
  BY DEF PubInv
<1>2. /\ PlannedOK(proc[e], index, disk, spent.edits)
      /\ Works(proc[e]) => StagingOK(proc[e], batches, disk, spent.edits)
  BY <1>1 DEF EnricherOK
<1>3. /\ proc[e].plan \in Plans /\ proc[e].plan.rows = index.rows
      /\ proc[e].plan.snapshot = Digest(index)
  BY <1>2 DEF PlannedOK
<1> QED BY <1>2, <1>3 DEF Snapshot, Digest

(* A step of an enricher leaves the others where they were.                  *)
LEMMA StepTo ==
    ASSUME PubInv, NEW e \in Enrichers, NEW next, Step(e, next)
    PROVE  /\ proc'[e] = next
           /\ proc' = [d \in Enrichers |-> proc'[d]]
           /\ \A d \in Enrichers : d # e => proc'[d] = proc[d]
BY DEF PubInv, Step

(* The batch an enricher writes to is its own, sound, and not the            *)
(* publication.                                                              *)
LEMMA OwnBatch ==
    ASSUME PubInv, NEW e \in Enrichers, Works(proc[e])
    PROVE  /\ Own(e) /\ BatchOK(batches[proc[e].batch], index.rows)
           /\ batches[proc[e].batch] \in Batches
           /\ batches[proc[e].batch].active = FALSE
           /\ batches[proc[e].batch].plan = proc[e].plan
           /\ batches[proc[e].batch].snapshot = proc[e].plan.snapshot
           /\ proc[e].batch \notin Active
           /\ batches[proc[e].batch].runs \in [Projects -> Runs]
           /\ \A p \in Projects :
                /\ Mine(e, p) \in Runs /\ RunOK(p, Mine(e, p))
                /\ \A r \in Mine(e, p).cover : OfPlan(r, proc[e].plan)
           /\ \A r : RowOK(r, batches[proc[e].batch], index.rows) <=> OfPlan(r, proc[e].plan)
<1>1. /\ StagingOK(proc[e], batches, disk, spent.edits)
      /\ proc[e].plan.rows = index.rows
  <2>1. proc[e].pc # "idle"
    BY DEF Works
  <2> QED BY ONLY <2>1, AtWork, PubInv, Works(proc[e]), e \in Enrichers
<1>2. PICK b : b = batches[proc[e].batch]
  OBVIOUS
<1>3. /\ Own(e) /\ b.active = FALSE /\ b.plan = proc[e].plan
      /\ b.snapshot = proc[e].plan.snapshot
  BY <1>1, <1>2 DEF StagingOK, Own
<1>4. BatchOK(b, index.rows)
  BY <1>2, <1>3 DEF PubInv, TableOK, Own
<1>5. b \in Batches /\ b.runs \in [Projects -> Runs]
  BY <1>4, BatchTypes DEF BatchOK
<1>6. \A r : RowOK(r, b, index.rows) <=> OfPlan(r, proc[e].plan)
  BY <1>1, <1>3, RowsOfPlan
<1>7. \A p \in Projects : /\ RunOK(p, b.runs[p])
                          /\ \A r \in b.runs[p].cover : RowOK(r, b, index.rows)
  BY <1>4 DEF BatchOK
<1>8. proc[e].batch \notin Active
  BY <1>2, <1>3 DEF Active
<1> QED BY <1>2, <1>3, <1>4, <1>5, <1>6, <1>7, <1>8 DEF Mine

(* An enricher moves on without changing what it has planned.                *)
LEMMA MovedOK ==
    ASSUME NEW x, NEW i, NEW d, NEW n, PlannedOK(x, i, d, n),
           NEW pc \in {"reuse", "retire", "open", "carry", "prepare", "check", "project"},
           pc \notin {"check", "project"} => ~x.failed /\ \A p \in Projects : x.work[p] = {},
           NEW y, y = [x EXCEPT !.pc = pc]
    PROVE  /\ PlannedOK(y, i, d, n) /\ y.pc = pc /\ y.batch = x.batch /\ y.plan = x.plan
           /\ y.jobs = x.jobs /\ y.work = x.work /\ y.failed = x.failed
           /\ y.seen = x.seen /\ y.since = x.since
<1>1. /\ y = [k \in EnricherFields |-> y[k]]
      /\ y.pc = pc /\ y.batch = x.batch /\ y.plan = x.plan
      /\ y.jobs = x.jobs /\ y.work = x.work /\ y.failed = x.failed
      /\ y.seen = x.seen /\ y.since = x.since
  BY DEF PlannedOK, EnricherFields
<1> QED BY <1>1 DEF PlannedOK

(* An enricher that has planned goes by the index and the disk as they are.  *)
LEMMA PlanOK ==
    ASSUME PubInv, NEW e \in Enrichers, Plan(e)
    PROVE  EnricherOK(proc'[e], batches', index, disk, spent.edits)
<1>1. PICK y : y = [pc |-> "reuse", plan |-> PlanOf, batch |-> 0, seen |-> disk,
                    since |-> spent.edits, jobs |-> {},
                    work |-> [p \in Projects |-> {}], lost |-> [p \in Projects |-> {}],
                    failed |-> FALSE]
  OBVIOUS
<1>2. proc'[e] = y
  BY <1>1, StepTo DEF Plan
<1>3. /\ y = [k \in EnricherFields |-> y[k]] /\ y.pc = "reuse" /\ y.batch = 0
      /\ y.plan = PlanOf /\ y.jobs = {} /\ y.failed = FALSE
      /\ y.work = [p \in Projects |-> y.work[p]] /\ \A p \in Projects : y.work[p] = {}
      /\ y.seen = disk /\ y.since = spent.edits
  BY <1>1 DEF EnricherFields
<1>4. /\ PlanOf \in Plans /\ PlanOf.snapshot = Digest(index) /\ PlanOf.rows = index.rows
  <2>1. index.rows \in Nat /\ disk.conf \in [Projects -> Versions] /\ Digest(index) \in Digests
    BY DEF PubInv, Indexes, Disks, Digest, Digests
  <2> QED BY <2>1 DEF PlanOf, Plans, Snapshot
<1>5. disk.src = index.src /\ spent.edits \in Nat
  BY DEF Plan, PubInv, SpentOK
<1>6. PlannedOK(y, index, disk, spent.edits) /\ ~Works(y)
  <2>1. /\ y.plan \in Plans /\ y.plan.snapshot = Digest(index) /\ y.plan.rows = index.rows
    BY <1>3, <1>4
  <2>2. y.since \in Nat /\ y.since <= spent.edits /\ y.seen = disk /\ disk.src = index.src
    BY <1>3, <1>5
  <2>3. /\ y.pc \in {"reuse", "retire", "open", "carry", "prepare", "check", "project"}
        /\ y.batch \in Nat /\ y.jobs \subseteq Projects /\ ~Works(y)
    BY <1>3 DEF Works
  <2>4. y.failed \in BOOLEAN /\ ~y.failed
    BY <1>3, Zenon
  <2>5. PlannedOK(y, index, disk, spent.edits)
    BY ONLY <1>3, <2>1, <2>2, <2>3, <2>4 DEF PlannedOK
  <2> QED BY <2>3, <2>5
<1> QED BY <1>2, <1>6 DEF EnricherOK

(* An enricher that has left goes by nothing.                                *)
LEMMA IdleOK ==
    ASSUME PubInv, NEW e \in Enrichers, Leave(e), NEW t, NEW i, NEW d, NEW n
    PROVE  EnricherOK(proc'[e], t, i, d, n)
BY StepTo DEF Leave, Idle, EnricherOK

(* An enricher that goes on with its plan keeps what it knows.               *)
LEMMA GotoOK ==
    ASSUME PubInv, NEW e \in Enrichers, proc[e].pc # "idle",
           NEW pc \in {"reuse", "retire", "open", "project"}, Goto(e, pc),
           pc = "project" \/ proc[e].pc \notin {"check", "project"}, NEW t
    PROVE  EnricherOK(proc'[e], t, index, disk, spent.edits)
<1>1. PICK y : y = [proc[e] EXCEPT !.pc = pc]
  OBVIOUS
<1>2. proc'[e] = y
  BY <1>1, StepTo DEF Goto
<1>3. PlannedOK(proc[e], index, disk, spent.edits)
  BY ONLY PubInv, e \in Enrichers, proc[e].pc # "idle", AtWork
<1>4. PlannedOK(y, index, disk, spent.edits) /\ y.pc = pc
  <2>1. pc \notin {"check", "project"} =>
          ~proc[e].failed /\ \A p \in Projects : proc[e].work[p] = {}
    BY <1>3 DEF PlannedOK
  <2> QED BY ONLY <1>1, <1>3, <2>1, MovedOK, pc \in {"reuse", "retire", "open", "project"}
<1> QED BY <1>2, <1>4 DEF EnricherOK, Works

(* A write to the runs of the own batch.                                     *)
LEMMA OwnWritten ==
    ASSUME PubInv, NEW e \in Enrichers, Works(proc[e]), NEW runs \in [Projects -> Runs],
           \A p \in Projects : RunOK(p, runs[p]) /\ \A r \in runs[p].cover : OfPlan(r, proc[e].plan),
           NEW y \in Batches, y.plan = proc[e].plan, y.snapshot = proc[e].plan.snapshot,
           y.runs = runs
    PROVE  BatchOK(y, index.rows)
<1>1. BatchOK(batches[proc[e].batch], index.rows) /\ batches[proc[e].batch].plan = proc[e].plan
  BY OwnBatch
<1>2. /\ proc[e].plan.rows = index.rows
  <2>1. proc[e].pc # "idle"
    BY DEF Works
  <2> QED BY ONLY <2>1, AtWork, PubInv, e \in Enrichers
<1>3. y.plan.rows <= index.rows
  BY <1>1 DEF BatchOK
<1>4. \A r : RowOK(r, y, index.rows) <=> OfPlan(r, proc[e].plan)
  BY <1>2, RowsOfPlan
<1> QED BY <1>3, <1>4, RunsOfBatchOK

(* A sound run written to the own batch leaves the table sound.              *)
LEMMA OwnRunSet ==
    ASSUME PubInv, NEW e \in Enrichers, Works(proc[e]), NEW p \in Projects,
           NEW run \in Runs, RunOK(p, run), \A r \in run.cover : OfPlan(r, proc[e].plan),
           SetRun(e, p, run)
    PROVE  /\ TableOK(batches', index.rows)
           /\ proc[e].batch \in DOMAIN batches'
           /\ batches'[proc[e].batch].active = FALSE
           /\ batches'[proc[e].batch].plan = proc[e].plan
           /\ batches'[proc[e].batch].snapshot = proc[e].plan.snapshot
           /\ batches'[proc[e].batch].runs[p] = run
           /\ \A q \in Projects : q # p => batches'[proc[e].batch].runs[q] = Mine(e, q)
<1>1. PICK own : own = proc[e].batch
  OBVIOUS
<1>2. PICK old : old = batches[own].runs
  OBVIOUS
<1>3. /\ own \in DOMAIN batches /\ old \in [Projects -> Runs]
      /\ batches[own] \in Batches /\ batches[own].active = FALSE
      /\ batches[own].plan = proc[e].plan /\ batches[own].snapshot = proc[e].plan.snapshot
      /\ \A q \in Projects : /\ Mine(e, q) = old[q] /\ RunOK(q, old[q])
                             /\ \A r \in old[q].cover : OfPlan(r, proc[e].plan)
  BY <1>1, <1>2, OwnBatch DEF Own, Mine
<1>4. PICK runs : runs = [old EXCEPT ![p] = run]
  OBVIOUS
<1>5. /\ runs \in [Projects -> Runs] /\ runs[p] = run
      /\ \A q \in Projects : q # p => runs[q] = old[q]
  BY <1>3, <1>4
<1>12. PICK b : b = batches[proc[e].batch]
  OBVIOUS
<1>6. PICK y : y = [b EXCEPT !.runs = runs]
  OBVIOUS
<1>7. batches' = [batches EXCEPT ![own] = y]
  BY <1>1, <1>2, <1>4, <1>6, <1>12 DEF SetRun
<1>8. \A q \in Projects : RunOK(q, runs[q]) /\ \A r \in runs[q].cover : OfPlan(r, proc[e].plan)
  BY <1>3, <1>5
<1>13. /\ y \in Batches /\ y.active = FALSE /\ y.plan = proc[e].plan
       /\ y.snapshot = proc[e].plan.snapshot /\ y.runs = runs
  <2>1. b \in Batches /\ runs \in [Projects -> Runs]
    BY <1>1, <1>3, <1>5, <1>12
  <2> QED BY <1>1, <1>3, <1>6, <1>12, <2>1 DEF Batches
<1>9. BatchOK(y, index.rows)
  BY ONLY <1>5, <1>8, <1>13, OwnWritten, PubInv, e \in Enrichers, Works(proc[e])
<1>10. TableOK(batches', index.rows)
  <2>1. TableOK(batches, index.rows)
    BY DEF PubInv
  <2> QED BY <1>7, <1>9, <2>1, ReplaceOK
<1>11. own \in DOMAIN batches' /\ batches'[own] = y
  BY <1>3, <1>7
<1> QED BY <1>1, <1>3, <1>5, <1>10, <1>11, <1>13

-----------------------------------------------------------------------------
(* Looking for a batch to reuse leaves the table and the enricher sound,     *)
LEMMA CheckReuseOK ==
    ASSUME PubInv, NEW e \in Enrichers, CheckReuse(e)
    PROVE  /\ TableOK(batches', index.rows)
           /\ EnricherOK(proc'[e], batches', index, disk, spent.edits)
<1>1. PICK stale : batches' = Deactivated(batches, stale)
  BY DEF CheckReuse
<1>2. TableOK(batches', index.rows)
  BY <1>1, DeactivatedOK DEF PubInv
<1>3. proc[e].pc = "reuse"
  BY DEF CheckReuse, At
<1>4. PICK pc \in {"open", "retire"} : Goto(e, pc)
  BY DEF CheckReuse
<1>5. EnricherOK(proc'[e], batches', index, disk, spent.edits)
  <2>1. proc[e].pc # "idle" /\ proc[e].pc \notin {"check", "project"}
    BY <1>3
  <2> QED BY ONLY <1>4, <2>1, GotoOK, PubInv, e \in Enrichers
<1> QED BY <1>2, <1>5

(* The batch that is opened is of the plan, and not the publication.         *)
LEMMA OpenedOK ==
    ASSUME PubInv, NEW e \in Enrichers, At(e, "open"), NEW b \in Nat, NEW t,
           b \in DOMAIN t, t[b].active = FALSE, t[b].plan = proc[e].plan,
           t[b].snapshot = proc[e].plan.snapshot,
           Step(e, [proc[e] EXCEPT !.pc = "carry", !.batch = b])
    PROVE  /\ EnricherOK(proc'[e], t, index, disk, spent.edits)
           /\ proc'[e].pc = "carry"
<1>1. PICK y : y = [proc[e] EXCEPT !.pc = "carry", !.batch = b]
  OBVIOUS
<1>2. proc'[e] = y
  BY <1>1, StepTo
<1>3. PICK x : x = proc[e]
  OBVIOUS
<1>4. PlannedOK(x, index, disk, spent.edits) /\ x.pc = "open"
  <2>1. proc[e].pc # "idle" /\ proc[e].pc = "open"
    BY DEF At
  <2> QED BY ONLY <1>3, <2>1, AtWork, PubInv, e \in Enrichers
<1>5. /\ y = [k \in EnricherFields |-> y[k]]
      /\ y.pc = "carry" /\ y.batch = b /\ y.plan = x.plan
      /\ y.jobs = x.jobs /\ y.work = x.work /\ y.failed = x.failed
      /\ y.seen = x.seen /\ y.since = x.since
  BY <1>1, <1>3, <1>4 DEF PlannedOK, EnricherFields
<1>6. PlannedOK(y, index, disk, spent.edits)
  BY <1>4, <1>5 DEF PlannedOK
<1>7. StagingOK(y, t, disk, spent.edits)
  BY <1>3, <1>5 DEF StagingOK
<1> QED BY <1>2, <1>5, <1>6, <1>7 DEF EnricherOK

(* opening, cloning or resuming a staging batch does,                        *)
LEMMA OpenOK ==
    ASSUME PubInv, NEW e \in Enrichers, OpenStaging(e)
    PROVE  /\ TableOK(batches', index.rows)
           /\ EnricherOK(proc'[e], batches', index, disk, spent.edits)
<1>1. TableOK(batches, index.rows) /\ At(e, "open")
  BY DEF PubInv, OpenStaging
<1>2. \A b \in Staging(e) : /\ b \in DOMAIN batches /\ b \in Nat
                            /\ batches[b].plan = proc[e].plan
                            /\ batches[b].snapshot = proc[e].plan.snapshot
                            /\ BatchOK(batches[b], index.rows)
                            /\ batches[b].active \in BOOLEAN
  BY <1>1, BatchTypes DEF Staging, SamePlan, SameDigest, TableOK, BatchOK
<1>3. CASE Resumable(e) # {}
  <2>1. PICK b : b = Newest(Resumable(e))
    OBVIOUS
  <2>2. b \in Resumable(e)
    <3>1. Resumable(e) \subseteq DOMAIN batches
      BY <1>2 DEF Resumable
    <3>2. IsFiniteSet(Resumable(e)) /\ Resumable(e) \subseteq Nat
      BY <1>1, <3>1, FS_Subset DEF TableOK
    <3> QED BY <1>3, <2>1, <3>2, NewestIsOne
  <2>3. /\ batches' = batches
        /\ Step(e, [proc[e] EXCEPT !.pc = "carry", !.batch = b])
    BY <1>3, <2>1 DEF OpenStaging
  <2>4. b \in Nat /\ b \in DOMAIN batches /\ batches[b].active = FALSE
    BY <1>2, <2>2 DEF Resumable, Active
  <2>5. batches[b].plan = proc[e].plan /\ batches[b].snapshot = proc[e].plan.snapshot
    BY <1>2, <2>2 DEF Resumable
  <2> QED BY <1>1, <2>3, <2>4, <2>5, OpenedOK
<1>4. CASE Resumable(e) = {} /\ Staging(e) # {}
  <2>1. PICK b \in Staging(e) :
           /\ Step(e, [proc[e] EXCEPT !.pc = "carry", !.batch = b + 1])
           /\ batches' = With(Only(batches, Active), b + 1, Clone(b))
    BY <1>4 DEF OpenStaging
  <2>2. PICK y : y = Clone(b)
    OBVIOUS
  <2>3. /\ BatchOK(y, index.rows) /\ y.snapshot = proc[e].plan.snapshot
        /\ y.plan = proc[e].plan /\ y.active = FALSE
    BY <1>2, <2>2, CloneOK
  <2>4. PICK id : id = b + 1
    OBVIOUS
  <2>5. id \in Nat
    BY <1>2, <2>4
  <2>6. PICK t : t = With(Only(batches, Active), id, y)
    OBVIOUS
  <2>7. TableOK(t, index.rows) /\ id \in DOMAIN t /\ t[id] = y
    <3>1. TableOK(Only(batches, Active), index.rows)
      BY <1>1, OnlyOK
    <3>2. TableOK(t, index.rows)
      BY <2>3, <2>5, <2>6, <3>1, WithOK
    <3> QED BY <2>6, <3>2 DEF With
  <2>8. batches' = t
    BY <2>1, <2>2, <2>4, <2>6
  <2>9. Step(e, [proc[e] EXCEPT !.pc = "carry", !.batch = id])
    BY <2>1, <2>4
  <2>10. /\ t[id].active = FALSE /\ t[id].plan = proc[e].plan
         /\ t[id].snapshot = proc[e].plan.snapshot /\ id \in DOMAIN t
    BY <2>3, <2>7
  <2>11. EnricherOK(proc'[e], t, index, disk, spent.edits)
    BY ONLY <1>1, <2>5, <2>9, <2>10, OpenedOK, PubInv, e \in Enrichers
  <2> QED BY <2>7, <2>8, <2>11
<1>5. CASE Staging(e) = {}
  <2>1. PICK kept : kept = Preserve(batches)
    OBVIOUS
  <2>2. PICK y : y = NewBatch(proc[e].plan)
    OBVIOUS
  <2>3. PICK id : id = NextId(kept)
    OBVIOUS
  <2>4. TableOK(kept, index.rows) /\ id \in Nat
    BY <1>1, <2>1, <2>3, PreserveOK, NextIdOK
  <2>5. /\ BatchOK(y, index.rows) /\ y.snapshot = proc[e].plan.snapshot
        /\ y.plan = proc[e].plan /\ y.active = FALSE
    <3>1. proc[e].pc # "idle"
      BY <1>1 DEF At
    <3>2. proc[e].plan \in Plans /\ proc[e].plan.rows = index.rows
      BY ONLY <3>1, AtWork, PubInv, e \in Enrichers
    <3>3. proc[e].plan.rows \in Nat
      BY <3>2 DEF Plans
    <3>4. proc[e].plan.rows <= index.rows
      BY <3>2, <3>3
    <3> QED BY <2>2, <3>2, <3>4, NewBatchOK
  <2>6. PICK t : t = With(kept, id, y)
    OBVIOUS
  <2>7. TableOK(t, index.rows) /\ id \in DOMAIN t /\ t[id] = y
    <3>1. TableOK(t, index.rows)
      BY <2>4, <2>5, <2>6, WithOK
    <3> QED BY <2>6, <3>1 DEF With
  <2>8. /\ batches' = t
        /\ Step(e, [proc[e] EXCEPT !.pc = "carry", !.batch = id])
    BY <1>5, <2>1, <2>2, <2>3, <2>6 DEF OpenStaging, Resumable
  <2>9. /\ t[id].active = FALSE /\ t[id].plan = proc[e].plan
        /\ t[id].snapshot = proc[e].plan.snapshot /\ id \in DOMAIN t
    BY <2>5, <2>7
  <2>10. EnricherOK(proc'[e], t, index, disk, spent.edits)
    BY ONLY <1>1, <2>4, <2>8, <2>9, OpenedOK, PubInv, e \in Enrichers
  <2> QED BY <2>7, <2>8, <2>10
<1> QED BY <1>3, <1>4, <1>5 DEF Resumable

(* A step that only moves on, to preparation.                                *)
LEMMA PrepareNext ==
    ASSUME PubInv, NEW e \in Enrichers, At(e, "carry"), Goto(e, "prepare"), NEW t,
           proc[e].batch \in DOMAIN t, t[proc[e].batch].active = FALSE,
           t[proc[e].batch].plan = proc[e].plan,
           t[proc[e].batch].snapshot = proc[e].plan.snapshot
    PROVE  EnricherOK(proc'[e], t, index, disk, spent.edits)
<1>1. PICK y : y = [proc[e] EXCEPT !.pc = "prepare"]
  OBVIOUS
<1>2. proc'[e] = y
  BY <1>1, StepTo DEF Goto
<1>3. PlannedOK(proc[e], index, disk, spent.edits)
  <2>1. proc[e].pc # "idle"
    BY DEF At
  <2> QED BY ONLY <2>1, AtWork, PubInv, e \in Enrichers
<1>4. /\ PlannedOK(y, index, disk, spent.edits) /\ y.pc = "prepare"
      /\ y.batch = proc[e].batch /\ y.plan = proc[e].plan
  <2>1. ~proc[e].failed /\ \A p \in Projects : proc[e].work[p] = {}
    BY <1>3 DEF PlannedOK, At
  <2> QED BY ONLY <1>1, <1>3, <2>1, MovedOK
<1>5. StagingOK(y, t, disk, spent.edits)
  BY <1>4 DEF StagingOK
<1> QED BY <1>2, <1>4, <1>5 DEF EnricherOK

(* carrying runs forward does,                                               *)
LEMMA CarryOK ==
    ASSUME PubInv, NEW e \in Enrichers, CarryForward(e)
    PROVE  /\ TableOK(batches', index.rows)
           /\ EnricherOK(proc'[e], batches', index, disk, spent.edits)
<1>1. At(e, "carry") /\ Works(proc[e]) /\ proc[e].pc # "idle"
  BY DEF CarryForward, At, Works
<1>2. /\ proc[e].plan \in Plans /\ proc[e].plan.snapshot[1] = index.src
      /\ StagingOK(proc[e], batches, disk, spent.edits)
  BY ONLY <1>1, AtWork, PubInv, e \in Enrichers
<1>3. /\ Own(e)
      /\ \A p \in Projects : Mine(e, p) \in Runs /\ RunOK(p, Mine(e, p))
  BY <1>1, OwnBatch
<1>4. TableOK(batches, index.rows) /\ OnePublication
  BY DEF PubInv, OneLive, Live, OnePublication, Active
<1>5. CASE UNCHANGED batches /\ Goto(e, "prepare")
  <2>1. /\ proc[e].batch \in DOMAIN batches /\ batches[proc[e].batch].active = FALSE
        /\ batches[proc[e].batch].plan = proc[e].plan
        /\ batches[proc[e].batch].snapshot = proc[e].plan.snapshot
    BY <1>2 DEF StagingOK
  <2>2. EnricherOK(proc'[e], batches, index, disk, spent.edits)
    BY ONLY <1>1, <1>5, <2>1, PrepareNext, PubInv, e \in Enrichers
  <2> QED BY <1>4, <1>5, <2>2
<1>6. ASSUME ~AlreadyStaged(e), Goto(e, "prepare"), NEW d,
             batches' = [Unretired(e) EXCEPT ![proc[e].batch].runs =
                            [p \in Projects |-> CarriedRun(e, p, d)]]
      PROVE  /\ TableOK(batches', index.rows)
             /\ EnricherOK(proc'[e], batches', index, disk, spent.edits)
  <2>1. PICK runs : runs = [p \in Projects |-> CarriedRun(e, p, d)]
    OBVIOUS
  <2>2. ASSUME NEW p \in Projects
        PROVE  /\ runs[p] \in Runs /\ RunOK(p, runs[p])
               /\ \A r \in runs[p].cover : OfPlan(r, proc[e].plan)
    <3>1. Mine(e, p).cover = {}
      BY <1>3, <1>6 DEF AlreadyStaged
    <3>2. /\ CarriedRun(e, p, d) \in Runs /\ RunOK(p, CarriedRun(e, p, d))
          /\ \A r \in CarriedRun(e, p, d).cover : OfPlan(r, proc[e].plan)
      BY <1>2, <1>3, <1>4, <3>1, CarriedOK
    <3>3. runs[p] = CarriedRun(e, p, d)
      BY <2>1
    <3> QED BY ONLY <3>2, <3>3
  <2>3. PICK t : t = Unretired(e)
    OBVIOUS
  <2>4. /\ TableOK(t, index.rows) /\ proc[e].batch \in DOMAIN t
        /\ t[proc[e].batch] = batches[proc[e].batch]
    BY <1>3, <1>4, <2>3, OnlyOK DEF Unretired, Only, Own
  <2>13. PICK b : b = batches[proc[e].batch]
    OBVIOUS
  <2>5. PICK y : y = [b EXCEPT !.runs = runs]
    OBVIOUS
  <2>6. runs \in [Projects -> Runs]
    BY <2>1, <2>2
  <2>7. \A p \in Projects : RunOK(p, runs[p]) /\ \A r \in runs[p].cover : OfPlan(r, proc[e].plan)
    BY <2>2
  <2>14. /\ y \in Batches /\ y.active = FALSE /\ y.plan = proc[e].plan
         /\ y.snapshot = proc[e].plan.snapshot /\ y.runs = runs
    <3>1. /\ b \in Batches /\ b.active = FALSE /\ b.plan = proc[e].plan
          /\ b.snapshot = proc[e].plan.snapshot
      BY <1>1, <2>13, OwnBatch
    <3> QED BY <2>5, <2>6, <3>1 DEF Batches
  <2>8. BatchOK(y, index.rows)
    BY ONLY <1>1, <2>6, <2>7, <2>14, OwnWritten, PubInv, e \in Enrichers
  <2>9. batches' = [t EXCEPT ![proc[e].batch] = y]
    BY <1>6, <2>1, <2>3, <2>4, <2>5, <2>13
  <2>10. TableOK(batches', index.rows)
    BY ONLY <2>4, <2>8, <2>9, ReplaceOK
  <2>11. proc[e].batch \in DOMAIN batches' /\ batches'[proc[e].batch] = y
    BY <2>4, <2>9
  <2>12. EnricherOK(proc'[e], batches', index, disk, spent.edits)
    <3>1. PICK u : u = batches'
      OBVIOUS
    <3>2. /\ proc[e].batch \in DOMAIN u /\ u[proc[e].batch].active = FALSE
          /\ u[proc[e].batch].plan = proc[e].plan
          /\ u[proc[e].batch].snapshot = proc[e].plan.snapshot
      BY <2>11, <2>14, <3>1
    <3>3. EnricherOK(proc'[e], u, index, disk, spent.edits)
      BY ONLY <1>1, <1>6, <3>2, PrepareNext, PubInv, e \in Enrichers
    <3> QED BY <3>1, <3>3
  <2> QED BY <2>10, <2>12
<1> QED BY <1>3, <1>5, <1>6 DEF CarryForward

(* Sound runs written to the own batch leave the table sound.                *)
LEMMA OwnRunsSet ==
    ASSUME PubInv, NEW e \in Enrichers, Works(proc[e]), NEW runs \in [Projects -> Runs],
           \A p \in Projects : RunOK(p, runs[p]) /\ \A r \in runs[p].cover : OfPlan(r, proc[e].plan),
           batches' = [batches EXCEPT ![proc[e].batch].runs = runs]
    PROVE  /\ TableOK(batches', index.rows)
           /\ proc[e].batch \in DOMAIN batches'
           /\ batches'[proc[e].batch].active = FALSE
           /\ batches'[proc[e].batch].plan = proc[e].plan
           /\ batches'[proc[e].batch].snapshot = proc[e].plan.snapshot
           /\ batches'[proc[e].batch].runs = runs
<1>1. PICK own : own = proc[e].batch
  OBVIOUS
<1>2. PICK b : b = batches[own]
  OBVIOUS
<1>3. /\ own \in DOMAIN batches /\ b \in Batches /\ b.active = FALSE
      /\ b.plan = proc[e].plan /\ b.snapshot = proc[e].plan.snapshot
  BY <1>1, <1>2, OwnBatch DEF Own
<1>4. PICK y : y = [b EXCEPT !.runs = runs]
  OBVIOUS
<1>5. /\ y \in Batches /\ y.active = FALSE /\ y.plan = proc[e].plan
      /\ y.snapshot = proc[e].plan.snapshot /\ y.runs = runs
  BY <1>3, <1>4 DEF Batches
<1>6. BatchOK(y, index.rows)
  BY ONLY <1>5, OwnWritten, PubInv, e \in Enrichers, Works(proc[e]),
     runs \in [Projects -> Runs],
     \A p \in Projects : RunOK(p, runs[p]) /\ \A r \in runs[p].cover : OfPlan(r, proc[e].plan)
<1>7. batches' = [batches EXCEPT ![own] = y]
  BY <1>1, <1>2, <1>4
<1>8. TableOK(batches', index.rows)
  <2>1. TableOK(batches, index.rows)
    BY DEF PubInv
  <2> QED BY ONLY <1>6, <1>7, <2>1, ReplaceOK
<1>9. own \in DOMAIN batches' /\ batches'[own] = y
  BY <1>3, <1>7
<1> QED BY <1>1, <1>5, <1>8, <1>9

(* What a preparation writes: a project that is not complete and fresh       *)
(* becomes a job, and the others keep their runs.                            *)
LEMMA PrepareCase ==
    ASSUME NEW e \in Enrichers, PrepareProjects(e), Own(e)
    PROVE  \E d \in Observed(e) : \E jobs : \E runs :
            /\ jobs = {p \in Projects : ~CompleteAndFresh(Mine(e, p), d)}
            /\ Step(e, [proc[e] EXCEPT !.pc = "check", !.jobs = jobs])
            /\ runs = [p \in Projects |-> IF p \in jobs THEN PreparedRun(e, p) ELSE Mine(e, p)]
            /\ batches' = [batches EXCEPT ![proc[e].batch].runs = runs]
<1>1. PICK d \in Observed(e) :
        LET jobs == {p \in Projects : ~(Own(e) /\ CompleteAndFresh(Mine(e, p), d))}
        IN  /\ Step(e, [proc[e] EXCEPT !.pc = "check", !.jobs = jobs])
            /\ batches' = IF ~Own(e) THEN batches
                          ELSE [batches EXCEPT ![proc[e].batch].runs =
                                  [p \in Projects |-> IF p \in jobs THEN PreparedRun(e, p)
                                                      ELSE Mine(e, p)]]
  BY DEF PrepareProjects
<1>2. PICK jobs : jobs = {p \in Projects : ~(Own(e) /\ CompleteAndFresh(Mine(e, p), d))}
  OBVIOUS
<1>3. jobs = {p \in Projects : ~CompleteAndFresh(Mine(e, p), d)}
  BY <1>2
<1>4. PICK f : f = [p \in Projects |-> IF p \in jobs THEN PreparedRun(e, p) ELSE Mine(e, p)]
  OBVIOUS
<1>5. PICK g : g = [p \in Projects |->
                      IF p \in {q \in Projects : ~(Own(e) /\ CompleteAndFresh(Mine(e, q), d))}
                      THEN PreparedRun(e, p) ELSE Mine(e, p)]
  OBVIOUS
<1>6. f = g
  BY ONLY <1>2, <1>4, <1>5
<1>7. Step(e, [proc[e] EXCEPT !.pc = "check", !.jobs = jobs])
  BY ONLY <1>1, <1>2
<1>8. Own(e)
  OBVIOUS
<1>9. batches' = [batches EXCEPT ![proc[e].batch].runs = g]
  BY ONLY <1>1, <1>5, <1>8, Zenon
<1>10. batches' = [batches EXCEPT ![proc[e].batch].runs = f]
  BY ONLY <1>6, <1>9
<1> WITNESS d \in Observed(e)
<1> WITNESS jobs
<1> WITNESS f
<1> QED BY ONLY <1>3, <1>4, <1>7, <1>10, Zenon

(* preparing the projects does,                                              *)
LEMMA PrepareOK ==
    ASSUME PubInv, NEW e \in Enrichers, PrepareProjects(e)
    PROVE  /\ TableOK(batches', index.rows)
           /\ EnricherOK(proc'[e], batches', index, disk, spent.edits)
<1>1. Works(proc[e]) /\ proc[e].pc # "idle" /\ proc[e].pc = "prepare"
  BY DEF PrepareProjects, At, Works
<1>2. PlannedOK(proc[e], index, disk, spent.edits)
  BY ONLY <1>1, AtWork, PubInv, e \in Enrichers
<1>3. /\ Own(e)
      /\ \A p \in Projects : /\ Mine(e, p) \in Runs /\ RunOK(p, Mine(e, p))
                             /\ \A r \in Mine(e, p).cover : OfPlan(r, proc[e].plan)
  BY <1>1, OwnBatch
<1>5. PICK d \in Observed(e) : \E jobs, runs :
         /\ jobs = {p \in Projects : ~CompleteAndFresh(Mine(e, p), d)}
         /\ Step(e, [proc[e] EXCEPT !.pc = "check", !.jobs = jobs])
         /\ runs = [p \in Projects |-> IF p \in jobs THEN PreparedRun(e, p) ELSE Mine(e, p)]
         /\ batches' = [batches EXCEPT ![proc[e].batch].runs = runs]
  BY <1>3, PrepareCase
<1>6. PICK jobs, runs :
         /\ jobs = {p \in Projects : ~CompleteAndFresh(Mine(e, p), d)}
         /\ Step(e, [proc[e] EXCEPT !.pc = "check", !.jobs = jobs])
         /\ runs = [p \in Projects |-> IF p \in jobs THEN PreparedRun(e, p) ELSE Mine(e, p)]
         /\ batches' = [batches EXCEPT ![proc[e].batch].runs = runs]
  BY <1>5
<1>7. ASSUME NEW p \in Projects
      PROVE  /\ runs[p] \in Runs /\ RunOK(p, runs[p])
             /\ \A r \in runs[p].cover : OfPlan(r, proc[e].plan)
             /\ p \in jobs => runs[p].status = "pending"
             /\ p \notin jobs => runs[p] = Mine(e, p)
  <2>1. CASE p \in jobs
    <3>1. runs[p] = PreparedRun(e, p)
      BY <1>6, <2>1
    <3>2. /\ PreparedRun(e, p) \in Runs /\ RunOK(p, PreparedRun(e, p))
          /\ PreparedRun(e, p).status = "pending"
          /\ PreparedRun(e, p).cover \subseteq Mine(e, p).cover
      BY <1>3, PreparedOK
    <3> QED BY <1>3, <2>1, <3>1, <3>2
  <2>2. CASE p \notin jobs
    <3>1. runs[p] = Mine(e, p)
      BY <1>6, <2>2
    <3> QED BY <1>3, <2>2, <3>1
  <2> QED BY <2>1, <2>2
<1>8. runs \in [Projects -> Runs]
  BY <1>6, <1>7
<1>9. batches' = [batches EXCEPT ![proc[e].batch].runs = runs]
  BY <1>6
<1>10. \A p \in Projects : RunOK(p, runs[p]) /\ \A r \in runs[p].cover : OfPlan(r, proc[e].plan)
  BY <1>7
<1>11. /\ TableOK(batches', index.rows)
       /\ proc[e].batch \in DOMAIN batches'
       /\ batches'[proc[e].batch].active = FALSE
       /\ batches'[proc[e].batch].plan = proc[e].plan
       /\ batches'[proc[e].batch].snapshot = proc[e].plan.snapshot
       /\ batches'[proc[e].batch].runs = runs
  BY ONLY <1>1, <1>8, <1>9, <1>10, OwnRunsSet, PubInv, e \in Enrichers
<1>12. PICK y : y = [proc[e] EXCEPT !.pc = "check", !.jobs = jobs]
  OBVIOUS
<1>13. proc'[e] = y
  BY <1>6, <1>12, StepTo
<1>14. /\ y = [k \in EnricherFields |-> y[k]]
       /\ y.pc = "check" /\ y.batch = proc[e].batch /\ y.plan = proc[e].plan
       /\ y.jobs = jobs /\ y.work = proc[e].work /\ y.failed = proc[e].failed
       /\ y.seen = proc[e].seen /\ y.since = proc[e].since
  BY <1>2, <1>12 DEF PlannedOK, EnricherFields
<1>15. jobs \subseteq Projects
  BY <1>6
<1>16. PlannedOK(y, index, disk, spent.edits)
  BY <1>2, <1>14, <1>15 DEF PlannedOK
<1>17. StagingOK(y, batches', disk, spent.edits)
  <2>1. ASSUME NEW p \in Projects, p \in jobs
        PROVE  runs[p].status = "pending" /\ y.work[p] = {}
    <3>1. proc[e].work[p] = {}
      BY <1>1, <1>2 DEF PlannedOK
    <3> QED BY <1>7, <1>14, <2>1, <3>1
  <2>2. ASSUME NEW p \in Projects, p \notin jobs
        PROVE  /\ runs[p].status = "completed"
               /\ y.since = spent.edits => AllHold(disk, runs[p].inputs)
    <3>1. CompleteAndFresh(Mine(e, p), d) /\ runs[p] = Mine(e, p)
      BY <1>6, <1>7, <2>2
    <3>2. y.since = spent.edits => d = disk
      BY <1>2, <1>14 DEF Observed, PlannedOK
    <3> QED BY <3>1, <3>2 DEF CompleteAndFresh, InputsFresh, AllHold
  <2> QED BY <1>11, <1>14, <2>1, <2>2 DEF StagingOK
<1> QED BY <1>11, <1>13, <1>16, <1>17 DEF EnricherOK

-----------------------------------------------------------------------------
(* Checking.                                                                 *)

(* What an enricher that checks a project has to go by.                      *)
LEMMA AtCheck ==
    ASSUME PubInv, NEW e \in Enrichers, NEW p \in Projects, Checking(e, p)
    PROVE  /\ Works(proc[e]) /\ proc[e].pc = "check" /\ proc[e].pc # "idle"
           /\ p \in proc[e].jobs
           /\ PlannedOK(proc[e], index, disk, spent.edits)
           /\ StagingOK(proc[e], batches, disk, spent.edits)
           /\ proc[e].plan \in Plans /\ proc[e].plan.snapshot[1] = index.src
           /\ index \in Indexes
           /\ Underway(p, Mine(e, p), proc[e].plan)
           /\ proc[e].work[p] # {} =>
                /\ \A r \in Mine(e, p).cover : r.fp \in {{}, proc[e].work[p]}
                /\ \E d \in Disks : proc[e].work[p] = InputsOf(p, d)
<1>1. Works(proc[e]) /\ proc[e].pc = "check" /\ proc[e].pc # "idle" /\ p \in proc[e].jobs
  BY DEF Checking, At, Works
<1>2. /\ PlannedOK(proc[e], index, disk, spent.edits)
      /\ StagingOK(proc[e], batches, disk, spent.edits)
      /\ proc[e].plan \in Plans /\ proc[e].plan.snapshot[1] = index.src
  BY ONLY <1>1, AtWork, PubInv, e \in Enrichers
<1>3. /\ Mine(e, p) \in Runs /\ RunOK(p, Mine(e, p))
      /\ \A r \in Mine(e, p).cover : OfPlan(r, proc[e].plan)
  BY <1>1, OwnBatch
<1>4. /\ Mine(e, p).status = "pending"
      /\ proc[e].work[p] # {} => \A r \in Mine(e, p).cover : r.fp \in {{}, proc[e].work[p]}
  BY <1>1, <1>2 DEF StagingOK, Mine
<1>5. proc[e].work[p] # {} => \E d \in Disks : proc[e].work[p] = InputsOf(p, d)
  BY <1>2 DEF PlannedOK
<1>6. index \in Indexes
  BY DEF PubInv
<1> QED BY <1>1, <1>2, <1>3, <1>4, <1>5, <1>6 DEF Underway

(* The run of one project that is still to be checked is written.            *)
LEMMA StillPending ==
    ASSUME PubInv, NEW e \in Enrichers, NEW p \in Projects, Checking(e, p),
           NEW x, PlannedOK(x, index, disk, spent.edits), x.pc = "check",
           x.batch = proc[e].batch, x.plan = proc[e].plan, x.jobs = proc[e].jobs,
           x.failed = proc[e].failed, x.since = proc[e].since,
           \A q \in Projects : q # p => x.work[q] = proc[e].work[q],
           NEW run, Underway(p, run, proc[e].plan),
           x.work[p] # {} => \A r \in run.cover : r.fp \in {{}, x.work[p]},
           SetRun(e, p, run)
    PROVE  /\ TableOK(batches', index.rows)
           /\ EnricherOK(x, batches', index, disk, spent.edits)
<1>1. Works(proc[e]) /\ StagingOK(proc[e], batches, disk, spent.edits) /\ proc[e].pc = "check"
  BY AtCheck
<1>2. /\ run \in Runs /\ RunOK(p, run) /\ run.status = "pending"
      /\ \A r \in run.cover : OfPlan(r, proc[e].plan)
  BY DEF Underway
<1>3. /\ TableOK(batches', index.rows)
      /\ proc[e].batch \in DOMAIN batches'
      /\ batches'[proc[e].batch].active = FALSE
      /\ batches'[proc[e].batch].plan = proc[e].plan
      /\ batches'[proc[e].batch].snapshot = proc[e].plan.snapshot
      /\ batches'[proc[e].batch].runs[p] = run
      /\ \A q \in Projects : q # p => batches'[proc[e].batch].runs[q] = Mine(e, q)
  BY ONLY <1>1, <1>2, OwnRunSet, PubInv, e \in Enrichers, p \in Projects, SetRun(e, p, run)
<1>4. p \in proc[e].jobs
  BY DEF Checking
<1>5. PICK t : t = batches'
  OBVIOUS
<1>6. ASSUME NEW q \in Projects
      PROVE  IF q \in x.jobs
             THEN /\ t[x.batch].runs[q].status = "pending"
                  /\ x.work[q] # {} => \A r \in t[x.batch].runs[q].cover : r.fp \in {{}, x.work[q]}
             ELSE ~x.failed => /\ t[x.batch].runs[q].status = "completed"
                               /\ x.since = spent.edits => AllHold(disk, t[x.batch].runs[q].inputs)
  <2>1. CASE q = p
    BY <1>2, <1>3, <1>4, <1>5, <2>1
  <2>2. CASE q # p
    <3>1. t[x.batch].runs[q] = batches[proc[e].batch].runs[q] /\ x.work[q] = proc[e].work[q]
      BY <1>3, <1>5, <2>2 DEF Mine
    <3> QED BY <1>1, <3>1 DEF StagingOK
  <2> QED BY <2>1, <2>2
<1>7. StagingOK(x, t, disk, spent.edits)
  BY <1>3, <1>5, <1>6 DEF StagingOK
<1> QED BY <1>3, <1>5, <1>7 DEF EnricherOK

(* starting a project with the inputs it has now does,                       *)
LEMMA StartOK ==
    ASSUME PubInv, NEW e \in Enrichers, NEW p \in Projects, StartProject(e, p)
    PROVE  /\ TableOK(batches', index.rows)
           /\ EnricherOK(proc'[e], batches', index, disk, spent.edits)
<1>1. Checking(e, p) /\ disk \in Disks
  BY DEF StartProject, PubInv
<1>2. PICK inputs : inputs = InputsOf(p, disk)
  OBVIOUS
<1>3. PICK run : run = StagedRun(e, p, inputs)
  OBVIOUS
<1>4. SetRun(e, p, run) /\ Working(e, p, inputs)
  BY <1>2, <1>3 DEF StartProject
<1>5. PlannedOK(proc[e], index, disk, spent.edits) /\ Underway(p, Mine(e, p), proc[e].plan)
  BY <1>1, AtCheck
<1>6. Underway(p, run, proc[e].plan) /\ \A r \in run.cover : r.fp \in {{}, inputs}
  BY ONLY <1>3, <1>5, StagedOK, p \in Projects
<1>7. PICK y : y = [proc[e] EXCEPT !.work[p] = inputs]
  OBVIOUS
<1>8. proc'[e] = y
  BY <1>4, <1>7, StepTo DEF Working
<1>9. /\ y = [k \in EnricherFields |-> y[k]]
      /\ y.pc = proc[e].pc /\ y.batch = proc[e].batch /\ y.plan = proc[e].plan
      /\ y.jobs = proc[e].jobs /\ y.failed = proc[e].failed
      /\ y.seen = proc[e].seen /\ y.since = proc[e].since
      /\ y.work = [proc[e].work EXCEPT ![p] = inputs]
  BY <1>5, <1>7 DEF PlannedOK, EnricherFields
<1>10. /\ y.work = [q \in Projects |-> y.work[q]] /\ y.work[p] = inputs
       /\ \A q \in Projects : q # p => y.work[q] = proc[e].work[q]
  <2>1. proc[e].work = [q \in Projects |-> proc[e].work[q]]
    BY <1>5 DEF PlannedOK
  <2> QED BY <1>9, <2>1
<1>11. proc[e].pc = "check"
  BY <1>1, AtCheck
<1>12. PlannedOK(y, index, disk, spent.edits)
  <2>1. \A q \in Projects : y.work[q] = {} \/ \E dd \in Disks : y.work[q] = InputsOf(q, dd)
    BY <1>1, <1>2, <1>5, <1>10 DEF PlannedOK
  <2> QED BY <1>5, <1>9, <1>10, <1>11, <2>1 DEF PlannedOK
<1>13. y.pc = "check" /\ (y.work[p] # {} => \A r \in run.cover : r.fp \in {{}, y.work[p]})
  BY <1>6, <1>9, <1>10, <1>11
<1>14. /\ TableOK(batches', index.rows)
       /\ EnricherOK(y, batches', index, disk, spent.edits)
  BY ONLY <1>1, <1>4, <1>6, <1>9, <1>10, <1>12, <1>13, StillPending, PubInv, e \in Enrichers,
     p \in Projects
<1> QED BY <1>8, <1>14

(* staging the answers of a batch of files does,                             *)
LEMMA StageOK ==
    ASSUME PubInv, NEW e \in Enrichers, NEW p \in Projects, StageBatch(e, p)
    PROVE  /\ TableOK(batches', index.rows)
           /\ EnricherOK(proc'[e], batches', index, disk, spent.edits)
<1>1. Checking(e, p) /\ proc[e].work[p] # {} /\ proc' = proc
  BY DEF StageBatch
<1>2. /\ PlannedOK(proc[e], index, disk, spent.edits)
      /\ Underway(p, Mine(e, p), proc[e].plan) /\ proc[e].pc = "check"
      /\ index \in Indexes /\ proc[e].plan \in Plans
      /\ proc[e].plan.snapshot[1] = index.src
      /\ \A r \in Mine(e, p).cover : r.fp \in {{}, proc[e].work[p]}
  BY <1>1, AtCheck
<1>3. PICK d \in Disks : proc[e].work[p] = InputsOf(p, d)
  BY <1>1, AtCheck
<1>4. PICK files \in SUBSET (Uncovered(e, p) \ proc[e].lost[p]) :
         SetRun(e, p, [Mine(e, p) EXCEPT !.cover =
            OtherRows(e, p, files) \cup {Answer(e, p, f) : f \in files}])
  BY DEF StageBatch
<1>5. files \subseteq Members[p]
  BY DEF Uncovered
<1>6. PICK y : y = [Mine(e, p) EXCEPT !.cover =
                       OtherRows(e, p, files) \cup {Answer(e, p, f) : f \in files}]
  OBVIOUS
<1>7. /\ Underway(p, y, proc[e].plan)
      /\ proc[e].work[p] # {} => \A r \in y.cover : r.fp \in {{}, proc[e].work[p]}
  BY <1>2, <1>3, <1>5, <1>6, StageBatchOK
<1>8. SetRun(e, p, y)
  BY <1>4, <1>6
<1>9. /\ TableOK(batches', index.rows)
      /\ EnricherOK(proc[e], batches', index, disk, spent.edits)
  BY ONLY <1>1, <1>2, <1>7, <1>8, StillPending, PubInv, e \in Enrichers, p \in Projects
<1> QED BY <1>1, <1>9

(* staging the failure of a file does,                                       *)
LEMMA StageFailOK ==
    ASSUME PubInv, NEW e \in Enrichers, NEW p \in Projects, StageFileFailed(e, p)
    PROVE  /\ TableOK(batches', index.rows)
           /\ EnricherOK(proc'[e], batches', index, disk, spent.edits)
<1>1. Checking(e, p) /\ proc[e].work[p] # {}
  BY DEF StageFileFailed
<1>2. /\ PlannedOK(proc[e], index, disk, spent.edits)
      /\ Underway(p, Mine(e, p), proc[e].plan) /\ proc[e].pc = "check"
      /\ proc[e].plan \in Plans
      /\ \A r \in Mine(e, p).cover : r.fp \in {{}, proc[e].work[p]}
      /\ \E d \in Disks : proc[e].work[p] = InputsOf(p, d)
  BY <1>1, AtCheck
<1>3. PICK work : work = proc[e].work[p]
  OBVIOUS
<1>4. work \in SUBSET Inputs /\ work # {}
  BY <1>1, <1>2, <1>3, InputsOfProject
<1>5. PICK f \in Members[p] \ proc[e].lost[p] :
         /\ Step(e, [proc[e] EXCEPT !.lost[p] = @ \cup {f}])
         /\ SetRun(e, p, [Mine(e, p) EXCEPT !.cover =
               {r \in @ : r.file # f} \cup {FailedRow(e, f, proc[e].work[p])}])
  BY DEF StageFileFailed
<1>6. f \in Members[p]
  OBVIOUS
<1>7. PICK y : y = [Mine(e, p) EXCEPT !.cover =
                       {r \in @ : r.file # f} \cup {FailedRow(e, f, proc[e].work[p])}]
  OBVIOUS
<1>8. Underway(p, y, proc[e].plan) /\ \A r \in y.cover : r.fp \in {{}, work}
  BY <1>2, <1>3, <1>4, <1>6, <1>7, StageFailedOK
<1>9. SetRun(e, p, y)
  BY <1>5, <1>7
<1>10. PICK x : x = [proc[e] EXCEPT !.lost[p] = @ \cup {f}]
  OBVIOUS
<1>11. proc'[e] = x
  BY <1>5, <1>10, StepTo
<1>12. /\ x = [k \in EnricherFields |-> x[k]]
       /\ x.pc = proc[e].pc /\ x.batch = proc[e].batch /\ x.plan = proc[e].plan
       /\ x.jobs = proc[e].jobs /\ x.failed = proc[e].failed
       /\ x.seen = proc[e].seen /\ x.since = proc[e].since /\ x.work = proc[e].work
  BY <1>2, <1>10 DEF PlannedOK, EnricherFields
<1>13. PlannedOK(x, index, disk, spent.edits)
  BY <1>2, <1>12 DEF PlannedOK
<1>14. /\ x.pc = "check" /\ (x.work[p] # {} => \A r \in y.cover : r.fp \in {{}, x.work[p]})
       /\ \A q \in Projects : q # p => x.work[q] = proc[e].work[q]
  BY <1>2, <1>3, <1>8, <1>12
<1>15. /\ TableOK(batches', index.rows)
       /\ EnricherOK(x, batches', index, disk, spent.edits)
  BY ONLY <1>1, <1>8, <1>9, <1>12, <1>13, <1>14, StillPending, PubInv, e \in Enrichers,
     p \in Projects
<1> QED BY <1>11, <1>15

(* A project that is done: without a failure its run is complete and, as     *)
(* long as nothing changes, fresh.                                           *)
LEMMA FinishedOK ==
    ASSUME PubInv, NEW e \in Enrichers, NEW p \in Projects, Checking(e, p),
           NEW failed \in BOOLEAN, Finished(e, p, failed),
           NEW run \in Runs, RunOK(p, run), \A r \in run.cover : OfPlan(r, proc[e].plan),
           ~failed => run.status = "completed" /\ AllHold(disk, run.inputs),
           SetRun(e, p, run)
    PROVE  /\ TableOK(batches', index.rows)
           /\ EnricherOK(proc'[e], batches', index, disk, spent.edits)
<1>1. /\ Works(proc[e]) /\ StagingOK(proc[e], batches, disk, spent.edits) /\ proc[e].pc = "check"
      /\ PlannedOK(proc[e], index, disk, spent.edits)
  BY AtCheck
<1>2. /\ TableOK(batches', index.rows)
      /\ proc[e].batch \in DOMAIN batches'
      /\ batches'[proc[e].batch].active = FALSE
      /\ batches'[proc[e].batch].plan = proc[e].plan
      /\ batches'[proc[e].batch].snapshot = proc[e].plan.snapshot
      /\ batches'[proc[e].batch].runs[p] = run
      /\ \A q \in Projects : q # p => batches'[proc[e].batch].runs[q] = Mine(e, q)
  BY ONLY <1>1, OwnRunSet, PubInv, e \in Enrichers, p \in Projects, SetRun(e, p, run),
     run \in Runs, RunOK(p, run), \A r \in run.cover : OfPlan(r, proc[e].plan)
<1>3. PICK x : x = [proc[e] EXCEPT !.jobs = @ \ {p}, !.work[p] = {}, !.failed = @ \/ failed]
  OBVIOUS
<1>4. proc'[e] = x
  BY <1>3, StepTo DEF Finished
<1>5. /\ x = [k \in EnricherFields |-> x[k]]
      /\ x.pc = proc[e].pc /\ x.batch = proc[e].batch /\ x.plan = proc[e].plan
      /\ x.jobs = proc[e].jobs \ {p}
      /\ x.seen = proc[e].seen /\ x.since = proc[e].since
      /\ x.work = [proc[e].work EXCEPT ![p] = {}]
  BY <1>1, <1>3 DEF PlannedOK, EnricherFields
<1>6. x.failed = (proc[e].failed \/ failed)
  BY <1>1, <1>3 DEF PlannedOK, EnricherFields
<1>7. x.failed \in BOOLEAN /\ (~x.failed => ~proc[e].failed /\ ~failed)
  BY ONLY <1>6, Zenon
<1>8. /\ x.work = [q \in Projects |-> x.work[q]] /\ x.work[p] = {}
      /\ \A q \in Projects : q # p => x.work[q] = proc[e].work[q]
  <2>1. proc[e].work = [q \in Projects |-> proc[e].work[q]]
    BY <1>1 DEF PlannedOK
  <2> QED BY <1>5, <2>1
<1>9. PlannedOK(x, index, disk, spent.edits)
  <2>1. \A q \in Projects : x.work[q] = {} \/ \E d \in Disks : x.work[q] = InputsOf(q, d)
    BY <1>1, <1>8 DEF PlannedOK
  <2>2. /\ x.plan \in Plans /\ x.plan.snapshot = Digest(index) /\ x.plan.rows = index.rows
        /\ x.batch \in Nat /\ x.jobs \subseteq Projects /\ x.since \in Nat
        /\ x.since <= spent.edits
        /\ x.since = spent.edits => x.seen = disk /\ disk.src = index.src
    BY <1>1, <1>5 DEF PlannedOK
  <2>3. x.pc = "check"
    BY <1>1, <1>5
  <2>4. x.work = [q \in Projects |-> x.work[q]]
    BY <1>8
  <2> QED BY ONLY <1>5, <1>7, <2>1, <2>2, <2>3, <2>4 DEF PlannedOK
<1>10. PICK t : t = batches'
  OBVIOUS
<1>11. ASSUME NEW q \in Projects
       PROVE  IF q \in x.jobs
              THEN /\ t[x.batch].runs[q].status = "pending"
                   /\ x.work[q] # {} => \A r \in t[x.batch].runs[q].cover : r.fp \in {{}, x.work[q]}
              ELSE ~x.failed => /\ t[x.batch].runs[q].status = "completed"
                                /\ x.since = spent.edits => AllHold(disk, t[x.batch].runs[q].inputs)
  <2>1. CASE q = p
    BY <1>2, <1>5, <1>7, <1>10, <2>1
  <2>2. CASE q # p
    <3>1. /\ t[x.batch].runs[q] = batches[proc[e].batch].runs[q] /\ x.work[q] = proc[e].work[q]
          /\ q \in x.jobs <=> q \in proc[e].jobs
      BY <1>2, <1>5, <1>8, <1>10, <2>2 DEF Mine
    <3> QED BY <1>1, <1>5, <1>7, <3>1 DEF StagingOK
  <2> QED BY <2>1, <2>2
<1>12. StagingOK(x, t, disk, spent.edits)
  BY <1>2, <1>5, <1>10, <1>11 DEF StagingOK
<1> QED BY <1>2, <1>4, <1>9, <1>10, <1>12 DEF EnricherOK

(* completing a project does,                                                *)
LEMMA CompleteOK ==
    ASSUME PubInv, NEW e \in Enrichers, NEW p \in Projects, CompleteProject(e, p)
    PROVE  /\ TableOK(batches', index.rows)
           /\ EnricherOK(proc'[e], batches', index, disk, spent.edits)
<1>1. Checking(e, p) /\ proc[e].work[p] # {} /\ AllHold(disk, proc[e].work[p])
  BY DEF CompleteProject
<1>2. /\ Underway(p, Mine(e, p), proc[e].plan) /\ proc[e].plan \in Plans
      /\ \A r \in Mine(e, p).cover : r.fp \in {{}, proc[e].work[p]}
      /\ \E d \in Disks : proc[e].work[p] = InputsOf(p, d)
  BY <1>1, AtCheck
<1>3. PICK y : y = CompletedRun(e, p)
  OBVIOUS
<1>4. y \in Runs /\ RunOK(p, y) /\ \A r \in y.cover : OfPlan(r, proc[e].plan)
  BY <1>2, <1>3, CompletedOK
<1>5. PICK failed \in BOOLEAN : failed <=> proc[e].lost[p] # {}
  OBVIOUS
<1>6. Finished(e, p, failed)
  <2>1. failed = (proc[e].lost[p] # {})
    BY ONLY <1>5, Zenon
  <2> QED BY ONLY <2>1, CompleteProject(e, p) DEF CompleteProject
<1>7. SetRun(e, p, y)
  BY <1>3 DEF CompleteProject
<1>8. ASSUME ~failed
      PROVE  y.status = "completed" /\ AllHold(disk, y.inputs)
  <2>1. PICK run : run = Mine(e, p)
    OBVIOUS
  <2>2. run \in Runs /\ RunOK(p, run)
    BY <1>2, <2>1 DEF Underway
  <2>3. Uncovered(e, p) = {}
    BY <1>5, <1>8 DEF CompleteProject
  <2>4. Members[p] \subseteq {r.file : r \in Healthy(run.cover)}
    BY <2>1, <2>3 DEF Uncovered
  <2>5. Cardinality(Healthy(run.cover)) = Cardinality(Members[p])
    BY <2>2, <2>4, CoverCount DEF RunOK, CoverOK
  <2>6. y.status = "completed" /\ y.inputs = proc[e].work[p]
    BY <1>3, <2>1, <2>2, <2>5 DEF CompletedRun, Runs
  <2> QED BY <1>1, <2>6
<1> QED BY ONLY <1>1, <1>4, <1>5, <1>6, <1>7, <1>8, FinishedOK, PubInv, e \in Enrichers,
           p \in Projects

(* failing one does,                                                         *)
LEMMA FailOK ==
    ASSUME PubInv, NEW e \in Enrichers, NEW p \in Projects, FailProject(e, p)
    PROVE  /\ TableOK(batches', index.rows)
           /\ EnricherOK(proc'[e], batches', index, disk, spent.edits)
<1>1. Checking(e, p) /\ Finished(e, p, TRUE)
  BY DEF FailProject
<1>2. Underway(p, Mine(e, p), proc[e].plan) /\ proc[e].plan \in Plans
  BY <1>1, AtCheck
<1>3. PICK known : known = {r.file : r \in {x \in Mine(e, p).cover :
                                               x.rows = proc[e].plan.rows}}
  OBVIOUS
<1>4. PICK y : y = [Mine(e, p) EXCEPT !.status = "failed",
                      !.cover = @ \cup {FailedRow(e, f, {}) : f \in Members[p] \ known}]
  OBVIOUS
<1>5. y \in Runs /\ RunOK(p, y) /\ \A r \in y.cover : OfPlan(r, proc[e].plan)
  BY ONLY <1>2, <1>3, <1>4, FailRunOK, p \in Projects
<1>6. SetRun(e, p, y)
  BY <1>3, <1>4 DEF FailProject
<1>7. PICK failed \in BOOLEAN : failed
  OBVIOUS
<1>8. Finished(e, p, failed)
  <2>1. failed = TRUE
    BY ONLY <1>7, Zenon
  <2> QED BY <1>1, <2>1
<1> QED BY ONLY <1>1, <1>5, <1>6, <1>7, <1>8, FinishedOK, PubInv, e \in Enrichers,
           p \in Projects

(* A sound batch stays sound whatever becomes of its stamp and its state.    *)
LEMMA StampedOK ==
    ASSUME NEW t, NEW n, TableOK(t, n), NEW id \in DOMAIN t, NEW y \in Batches,
           y.snapshot = t[id].snapshot, y.plan = t[id].plan, y.runs = t[id].runs
    PROVE  TableOK([t EXCEPT ![id] = y], n)
<1>1. BatchOK(t[id], n)
  BY DEF TableOK
<1>2. BatchOK(y, n)
  BY <1>1 DEF BatchOK, RowOK
<1> QED BY <1>2, ReplaceOK

(* activating the batch does,                                                *)
LEMMA ActivateOK ==
    ASSUME PubInv, NEW e \in Enrichers, Activate(e)
    PROVE  /\ TableOK(batches', index.rows)
           /\ EnricherOK(proc'[e], batches', index, disk, spent.edits)
<1>1. Own(e) /\ proc[e].pc # "idle"
  BY DEF Activate, Activatable, At
<1>2. PICK t : t = Only(batches, {proc[e].batch})
  OBVIOUS
<1>3. TableOK(t, index.rows) /\ proc[e].batch \in DOMAIN t
  BY <1>1, <1>2, OnlyOK DEF PubInv, Only, Own
<1>4. PICK y : y = [t[proc[e].batch] EXCEPT !.active = TRUE, !.stamped = TRUE]
  OBVIOUS
<1>5. batches' = [t EXCEPT ![proc[e].batch] = y]
  BY <1>2, <1>4 DEF Activate
<1>6. TableOK([t EXCEPT ![proc[e].batch] = y], index.rows)
  <2>1. PICK b : b = t[proc[e].batch]
    OBVIOUS
  <2>2. b \in Batches
    BY <1>3, <2>1 DEF TableOK, BatchOK
  <2>3. y = [b EXCEPT !.active = TRUE, !.stamped = TRUE]
    BY ONLY <1>4, <2>1
  <2>4. y \in Batches /\ y.snapshot = b.snapshot /\ y.plan = b.plan /\ y.runs = b.runs
    BY ONLY <2>2, <2>3 DEF Batches
  <2> QED BY ONLY <1>3, <2>1, <2>4, StampedOK
<1>7. EnricherOK(proc'[e], batches', index, disk, spent.edits)
  <2>1. Goto(e, "project")
    BY DEF Activate
  <2> QED BY ONLY <1>1, <2>1, GotoOK, PubInv, e \in Enrichers
<1> QED BY <1>5, <1>6, <1>7

(* and so does stamping an empty one.                                        *)
LEMMA StampOK ==
    ASSUME PubInv, NEW e \in Enrichers, StampEmpty(e)
    PROVE  /\ TableOK(batches', index.rows)
           /\ EnricherOK(proc'[e], batches', index, disk, spent.edits)
<1>1. Own(e) /\ Works(proc[e])
  BY DEF StampEmpty, Activatable, At, Works
<1>2. PICK t : t = Only(batches, Active \cup {proc[e].batch})
  OBVIOUS
<1>3. /\ TableOK(t, index.rows) /\ proc[e].batch \in DOMAIN t
      /\ t[proc[e].batch] = batches[proc[e].batch]
  BY <1>1, <1>2, OnlyOK DEF PubInv, Only, Own
<1>4. PICK b : b = t[proc[e].batch]
  OBVIOUS
<1>5. b \in Batches /\ b.active = FALSE
  BY <1>1, <1>3, <1>4, OwnBatch
<1>6. PICK y : y = [b EXCEPT !.active = FALSE, !.stamped = TRUE]
  OBVIOUS
<1>7. [b EXCEPT !.stamped = TRUE] = y
  BY <1>5, <1>6 DEF Batches
<1>8. batches' = [t EXCEPT ![proc[e].batch] = y]
  BY <1>2, <1>4, <1>7 DEF StampEmpty
<1>9. TableOK([t EXCEPT ![proc[e].batch] = y], index.rows)
  <2>1. y \in Batches /\ y.snapshot = b.snapshot /\ y.plan = b.plan /\ y.runs = b.runs
    BY ONLY <1>5, <1>6 DEF Batches
  <2> QED BY ONLY <1>3, <1>4, <2>1, StampedOK
<1>10. EnricherOK(proc'[e], batches', index, disk, spent.edits)
  <2>1. Leave(e)
    BY DEF StampEmpty
  <2> QED BY ONLY <2>1, IdleOK, PubInv, e \in Enrichers
<1> QED BY <1>8, <1>9, <1>10

(* An enricher's step keeps the table, and its own plan.                     *)
LEMMA EnrichOK ==
    ASSUME PubInv, NEW e \in Enrichers, Enrich(e)
    PROVE  /\ TableOK(batches', index.rows)
           /\ EnricherOK(proc'[e], batches', index, disk, spent.edits)
<1>1. TableOK(batches, index.rows)
  BY DEF PubInv
<1>2. ASSUME UNCHANGED batches, Leave(e)
      PROVE  /\ TableOK(batches', index.rows)
             /\ EnricherOK(proc'[e], batches', index, disk, spent.edits)
  <2>1. EnricherOK(proc'[e], batches', index, disk, spent.edits)
    BY ONLY <1>2, IdleOK, PubInv, e \in Enrichers
  <2> QED BY <1>1, <1>2, <2>1
<1>3. CASE Plan(e)
  <2>1. UNCHANGED batches
    BY <1>3 DEF Plan
  <2> QED BY <1>1, <1>3, <2>1, PlanOK
<1>4. CASE Reuse(e) \/ LoseBatch(e) \/ RefuseActivation(e) \/ ProjectPublication(e)
  <2>1. UNCHANGED batches /\ Leave(e)
    BY <1>4 DEF Reuse, LoseBatch, RefuseActivation, ProjectPublication
  <2> QED BY <1>2, <2>1
<1>5. CASE ProjectRetirement(e)
  <2>1. UNCHANGED batches /\ Goto(e, "open") /\ proc[e].pc = "retire"
    BY <1>5 DEF ProjectRetirement, At
  <2>2. proc[e].pc # "idle" /\ proc[e].pc \notin {"check", "project"}
    BY <2>1
  <2>3. EnricherOK(proc'[e], batches', index, disk, spent.edits)
    BY ONLY <2>1, <2>2, GotoOK, PubInv, e \in Enrichers
  <2> QED BY <1>1, <2>1, <2>3
<1>6. CASE CheckReuse(e)
  BY <1>6, CheckReuseOK
<1>7. CASE OpenStaging(e)
  BY <1>7, OpenOK
<1>8. CASE CarryForward(e)
  BY <1>8, CarryOK
<1>9. CASE PrepareProjects(e)
  BY <1>9, PrepareOK
<1>10. ASSUME NEW p \in Projects, StartProject(e, p)
       PROVE  /\ TableOK(batches', index.rows)
              /\ EnricherOK(proc'[e], batches', index, disk, spent.edits)
  BY <1>10, StartOK
<1>11. ASSUME NEW p \in Projects, StageBatch(e, p)
       PROVE  /\ TableOK(batches', index.rows)
              /\ EnricherOK(proc'[e], batches', index, disk, spent.edits)
  BY <1>11, StageOK
<1>12. ASSUME NEW p \in Projects, StageFileFailed(e, p)
       PROVE  /\ TableOK(batches', index.rows)
              /\ EnricherOK(proc'[e], batches', index, disk, spent.edits)
  BY <1>12, StageFailOK
<1>13. ASSUME NEW p \in Projects, CompleteProject(e, p)
       PROVE  /\ TableOK(batches', index.rows)
              /\ EnricherOK(proc'[e], batches', index, disk, spent.edits)
  BY <1>13, CompleteOK
<1>14. ASSUME NEW p \in Projects, FailProject(e, p)
       PROVE  /\ TableOK(batches', index.rows)
              /\ EnricherOK(proc'[e], batches', index, disk, spent.edits)
  BY <1>14, FailOK
<1>15. CASE Activate(e)
  BY <1>15, ActivateOK
<1>16. CASE StampEmpty(e)
  BY <1>16, StampOK
<1> QED BY <1>3, <1>4, <1>5, <1>6, <1>7, <1>8, <1>9, <1>10, <1>11, <1>12, <1>13, <1>14,
           <1>15, <1>16 DEF Enrich

(* Only the number of its runs and faults changes beside.                    *)
LEMMA EnrichFrame ==
    ASSUME SpentOK, proc = [d \in Enrichers |-> proc[d]], NEW e \in Enrichers,
           Enrich(e) \/ Die(e)
    PROVE  /\ UNCHANGED <<disk, index>>
           /\ SpentOK' /\ spent'.edits = spent.edits
           /\ proc' = [d \in Enrichers |-> proc'[d]]
<1>1. UNCHANGED <<disk, index>>
  BY DEF Enrich, Die, Plan, Reuse, CheckReuse, ProjectRetirement, OpenStaging, CarryForward,
     PrepareProjects, StartProject, StageBatch, StageFileFailed, CompleteProject, FailProject,
     LoseBatch, Activate, StampEmpty, RefuseActivation, ProjectPublication
<1>2. UNCHANGED spent \/ Spend("runs", MaxRuns) \/ Spend("faults", MaxFaults)
  BY DEF Enrich, Die, Plan, Reuse, CheckReuse, ProjectRetirement, OpenStaging, CarryForward,
     PrepareProjects, StartProject, StageBatch, StageFileFailed, CompleteProject, FailProject,
     LoseBatch, Activate, StampEmpty, RefuseActivation, ProjectPublication
<1>3. SpentOK' /\ spent'.edits = spent.edits
  <2>1. CASE UNCHANGED spent
    BY <2>1 DEF SpentOK
  <2>2. CASE Spend("runs", MaxRuns)
    BY <2>2, SpendOther
  <2>3. CASE Spend("faults", MaxFaults)
    BY <2>3, SpendOther
  <2> QED BY <1>2, <2>1, <2>2, <2>3
<1>4. ASSUME NEW next, Step(e, next)
      PROVE  proc' = [d \in Enrichers |-> proc'[d]]
  BY <1>4 DEF Step
<1>5. proc' = [d \in Enrichers |-> proc'[d]]
  <2>1. CASE Reuse(e) \/ LoseBatch(e) \/ StampEmpty(e) \/ RefuseActivation(e)
               \/ ProjectPublication(e) \/ Die(e)
    BY <1>4, <2>1 DEF Reuse, LoseBatch, StampEmpty, RefuseActivation, ProjectPublication,
       Die, Leave
  <2>2. CASE CheckReuse(e)
    BY <1>4, <2>2 DEF CheckReuse, Goto
  <2>3. CASE ProjectRetirement(e) \/ Activate(e)
    BY <1>4, <2>3 DEF ProjectRetirement, Activate, Goto
  <2>4. CASE OpenStaging(e)
    BY <1>4, <2>4 DEF OpenStaging
  <2>5. CASE CarryForward(e)
    BY <1>4, <2>5 DEF CarryForward, Goto, Leave
  <2>6. CASE PrepareProjects(e)
    BY <1>4, <2>6 DEF PrepareProjects
  <2>7. CASE \E p \in Projects : StageBatch(e, p)
    BY <2>7 DEF StageBatch
  <2>8. CASE \E p \in Projects : StartProject(e, p)
    BY <1>4, <2>8 DEF StartProject, Working
  <2>9. CASE \E p \in Projects : CompleteProject(e, p) \/ FailProject(e, p)
    BY <1>4, <2>9 DEF CompleteProject, FailProject, Finished
  <2>10. CASE \E p \in Projects : StageFileFailed(e, p)
    BY <1>4, <2>10 DEF StageFileFailed
  <2>11. CASE Plan(e)
    BY <1>4, <2>11 DEF Plan
  <2> QED BY <2>1, <2>2, <2>3, <2>4, <2>5, <2>6, <2>7, <2>8, <2>9, <2>10, <2>11 DEF Enrich
<1> QED BY <1>1, <1>3, <1>5

-----------------------------------------------------------------------------
(* What an index publishes.                                                  *)

Kept(kind, t) == IF kind = "manual" THEN Only(t, Live(t)) ELSE Preserve(t)

(* The publication is rebound: the source text is what it was.               *)
IndexMoves(kind, next, table, changed) ==
    /\ changed
    /\ kind # "preserve" => CanRebind
    /\ next.src = index.src
    /\ \E b \in Bound : Remappable(b, next) /\ table = Kept(kind, Rebound(b, next))

(* A publication of this digest is dropped.                                  *)
IndexDrops(kind, next, table, changed) ==
    /\ kind # "manual"
    /\ \E lost \in {{}, Bound} :
         /\ table = Preserve(Deactivated(batches, lost)) /\ (changed <=> lost # {})
         /\ kind = "rebind" /\ Digest(next) = Snapshot => lost = Bound

(* The publication stands as it is.                                          *)
IndexLeaves(kind, reset, next, table, changed) ==
    /\ kind = "rebind" /\ table = Preserve(batches) /\ ~changed
    /\ CanRebind /\ ~reset /\ Digest(next) = Snapshot

IndexClears(kind, reset, table) == kind = "manual" /\ table = <<>> /\ reset

IndexAs(kind) ==
    \E reset \in BOOLEAN : \E next \in Nexts(reset) : \E table, changed :
        /\ PublishIndex(kind, reset, next, table, changed)
        /\ \/ IndexMoves(kind, next, table, changed)
           \/ IndexDrops(kind, next, table, changed)
           \/ IndexLeaves(kind, reset, next, table, changed)
           \/ IndexClears(kind, reset, table)

(* The refresh before an enrichment is one of the ways to index,             *)
LEMMA PreservingAs ==
    ASSUME IndexPreserving
    PROVE  IndexAs("preserve")
<1>1. PICK reset \in BOOLEAN : \E next \in Nexts(reset) :
           LET remap == reset /\ Digest(next) = Snapshot
               able  == {b \in Bound : Remappable(b, next)}
           IN  IF remap /\ able # {}
               THEN \E b \in able :
                      PublishIndex("preserve", reset, next, Preserve(Rebound(b, next)), TRUE)
               ELSE LET lost == IF remap THEN Bound ELSE {}
                    IN  PublishIndex("preserve", reset, next,
                                     Preserve(Deactivated(batches, lost)), lost # {})
  BY DEF IndexPreserving
<1>2. PICK next \in Nexts(reset) :
           LET remap == reset /\ Digest(next) = Snapshot
               able  == {b \in Bound : Remappable(b, next)}
           IN  IF remap /\ able # {}
               THEN \E b \in able :
                      PublishIndex("preserve", reset, next, Preserve(Rebound(b, next)), TRUE)
               ELSE LET lost == IF remap THEN Bound ELSE {}
                    IN  PublishIndex("preserve", reset, next,
                                     Preserve(Deactivated(batches, lost)), lost # {})
  BY <1>1
<1>3. PICK remap : remap = (reset /\ Digest(next) = Snapshot)
  OBVIOUS
<1>4. PICK able : able = {b \in Bound : Remappable(b, next)}
  OBVIOUS
<1>5. CASE remap /\ able # {}
  <2>1. PICK b \in able :
           PublishIndex("preserve", reset, next, Preserve(Rebound(b, next)), TRUE)
    BY <1>2, <1>3, <1>4, <1>5
  <2>2. b \in Bound /\ Remappable(b, next) /\ next.src = index.src
    BY <1>3, <1>4, <1>5 DEF Snapshot, Digest
  <2>3. IndexMoves("preserve", next, Preserve(Rebound(b, next)), TRUE)
    BY <2>2 DEF IndexMoves, Kept
  <2> QED BY <2>1, <2>3 DEF IndexAs
<1>6. CASE ~(remap /\ able # {})
  <2>1. PICK lost : lost = IF remap THEN Bound ELSE {}
    OBVIOUS
  <2>2. PublishIndex("preserve", reset, next, Preserve(Deactivated(batches, lost)), lost # {})
    BY <1>2, <1>3, <1>4, <1>6, <2>1
  <2>3. IndexDrops("preserve", next, Preserve(Deactivated(batches, lost)), lost # {})
    BY <2>1 DEF IndexDrops
  <2> QED BY <2>2, <2>3 DEF IndexAs
<1> QED BY <1>5, <1>6

(* a manual index and a rebinding refresh are the others,                    *)
LEMMA ValidatingAs ==
    ASSUME NEW kind \in {"manual", "rebind"}, IndexValidating(kind)
    PROVE  IndexAs(kind)
<1>1. PICK reset \in BOOLEAN : /\ kind = "manual" => reset
         /\ \E next \in Nexts(reset) :
            LET already  == Digest(next) = Snapshot
                able     == {b \in Bound : CanRebind /\ Remappable(b, next)}
                rebinds  == able # {} /\ (reset \/ ~already)
                retained == rebinds \/ (CanRebind /\ ~reset /\ already)
                Publish(table, changed) == PublishIndex(kind, reset, next, table, changed)
            IN  IF retained
                THEN \E table \in (IF rebinds THEN {Rebound(b, next) : b \in able}
                                   ELSE {batches}) :
                       LET live == {b \in DOMAIN table : table[b].active}
                       IN  Publish(IF kind = "manual" THEN Only(table, live)
                                   ELSE Preserve(table), rebinds)
                ELSE IF kind = "manual"
                THEN Publish(<<>>, Active # {})
                ELSE LET lost == IF already THEN Bound ELSE {}
                     IN  Publish(Preserve(Deactivated(batches, lost)), lost # {})
  BY DEF IndexValidating
<1>2. PICK next \in Nexts(reset) :
            LET already  == Digest(next) = Snapshot
                able     == {b \in Bound : CanRebind /\ Remappable(b, next)}
                rebinds  == able # {} /\ (reset \/ ~already)
                retained == rebinds \/ (CanRebind /\ ~reset /\ already)
                Publish(table, changed) == PublishIndex(kind, reset, next, table, changed)
            IN  IF retained
                THEN \E table \in (IF rebinds THEN {Rebound(b, next) : b \in able}
                                   ELSE {batches}) :
                       LET live == {b \in DOMAIN table : table[b].active}
                       IN  Publish(IF kind = "manual" THEN Only(table, live)
                                   ELSE Preserve(table), rebinds)
                ELSE IF kind = "manual"
                THEN Publish(<<>>, Active # {})
                ELSE LET lost == IF already THEN Bound ELSE {}
                     IN  Publish(Preserve(Deactivated(batches, lost)), lost # {})
  BY <1>1
<1>3. PICK already : already = (Digest(next) = Snapshot)
  OBVIOUS
<1>4. PICK able : able = {b \in Bound : CanRebind /\ Remappable(b, next)}
  OBVIOUS
<1>5. PICK rebinds : rebinds = (able # {} /\ (reset \/ ~already))
  OBVIOUS
<1>6. CASE rebinds
  <2>1. PICK t \in {Rebound(b, next) : b \in able} :
           PublishIndex(kind, reset, next,
              IF kind = "manual" THEN Only(t, {b \in DOMAIN t : t[b].active}) ELSE Preserve(t),
              rebinds)
    BY <1>2, <1>3, <1>4, <1>5, <1>6
  <2>2. PICK b \in able : t = Rebound(b, next)
    BY <2>1
  <2>3. b \in Bound /\ Remappable(b, next) /\ next.src = index.src /\ CanRebind
    BY <1>4 DEF CanRebind, Nexts
  <2>4. IndexMoves(kind, next, Kept(kind, t), rebinds)
    BY <1>6, <2>2, <2>3 DEF IndexMoves
  <2>5. PublishIndex(kind, reset, next, Kept(kind, t), rebinds)
    BY <2>1 DEF Kept, Live
  <2> QED BY <2>4, <2>5 DEF IndexAs
<1>7. CASE ~rebinds /\ CanRebind /\ ~reset /\ already
  <2>1. PublishIndex(kind, reset, next, Preserve(batches), rebinds)
    BY <1>1, <1>2, <1>3, <1>4, <1>5, <1>7
  <2>2. IndexLeaves(kind, reset, next, Preserve(batches), rebinds)
    BY <1>1, <1>3, <1>7 DEF IndexLeaves
  <2> QED BY <2>1, <2>2 DEF IndexAs
<1>8. CASE ~rebinds /\ ~(CanRebind /\ ~reset /\ already)
  <2>1. CASE kind = "manual"
    <3>1. PublishIndex(kind, reset, next, <<>>, Active # {})
      BY <1>2, <1>3, <1>4, <1>5, <1>8, <2>1
    <3>2. IndexClears(kind, reset, <<>>)
      BY <1>1, <2>1 DEF IndexClears
    <3> QED BY <3>1, <3>2 DEF IndexAs
  <2>2. CASE kind # "manual"
    <3>1. PICK lost : lost = IF already THEN Bound ELSE {}
      OBVIOUS
    <3>2. PublishIndex(kind, reset, next, Preserve(Deactivated(batches, lost)), lost # {})
      BY <1>2, <1>3, <1>4, <1>5, <1>8, <2>2, <3>1
    <3>3. IndexDrops(kind, next, Preserve(Deactivated(batches, lost)), lost # {})
      BY <1>3, <2>2, <3>1 DEF IndexDrops
    <3> QED BY <3>2, <3>3 DEF IndexAs
  <2> QED BY <2>1, <2>2
<1> QED BY <1>6, <1>7, <1>8

(* and there are no more.                                                    *)
LEMMA IndexCases ==
    ASSUME Index
    PROVE  \E kind \in {"preserve", "manual", "rebind"} : IndexAs(kind)
BY PreservingAs, ValidatingAs DEF Index, IndexManually, IndexRebinding

(* The rows of an index never go down.                                       *)
LEMMA NextIndexOK ==
    ASSUME PubInv, NEW reset \in BOOLEAN, NEW next \in Nexts(reset)
    PROVE  /\ next \in Indexes /\ index.rows \in Nat /\ next.rows \in Nat
           /\ index.rows <= next.rows /\ next.src = disk.src
<1>1. index.rows \in Nat /\ disk \in Disks
  BY DEF PubInv, Indexes
<1>2. PICK n \in Extractions(reset) : next = [src |-> disk.src, rust |-> disk.rust, rows |-> n]
  BY DEF Nexts
<1>3. n \in Nat /\ index.rows <= n
  BY <1>1 DEF Extractions
<1>4. disk.src \in [Files -> Versions] /\ disk.rust \in Versions
  BY <1>1 DEF Disks
<1> QED BY <1>1, <1>2, <1>3, <1>4 DEF Indexes

(* The table with a rebound publication, and what is live in it.             *)
LEMMA ReboundOK ==
    ASSUME TableOK(batches, index.rows), OneLive(batches), index.rows \in Nat,
           NEW next \in Indexes, index.rows <= next.rows,
           next.src = index.src, NEW b \in Bound,
           NEW t, t = Rebound(b, next)
    PROVE  /\ TableOK(t, next.rows) /\ NextId(batches) \in DOMAIN t
           /\ NextId(batches) \notin DOMAIN batches
           /\ t[NextId(batches)] = Successor(b, next)
           /\ Live(t) = {NextId(batches)}
           /\ DOMAIN t = DOMAIN batches \cup {NextId(batches)}
<1>1. PICK id : id = NextId(batches)
  OBVIOUS
<1>2. id \in Nat /\ id \notin DOMAIN batches
  BY <1>1, NextIdOK
<1>3. PICK u : u = Deactivated(batches, {b})
  OBVIOUS
<1>4. PICK y : y = Successor(b, next)
  OBVIOUS
<1>5. t = With(u, id, y)
  BY <1>1, <1>3, <1>4 DEF Rebound, Successor
<1>6. /\ b \in DOMAIN batches /\ batches[b].active /\ batches[b].snapshot[1] = next.src
      /\ Live(batches) = {b}
  BY DEF Bound, Active, Snapshot, Digest, OneLive, Live
<1>7. BatchOK(batches[b], index.rows)
  BY <1>6 DEF TableOK
<1>8. BatchOK(y, next.rows) /\ y.active = batches[b].active
  BY <1>4, <1>6, <1>7, SuccessorOK
<1>9. next.rows \in Nat
  BY DEF Indexes
<1>10. TableOK(u, next.rows)
  <2>1. TableOK(batches, next.rows)
    BY <1>9, LaterOK
  <2> QED BY <1>3, <2>1, DeactivatedOK
<1>11. TableOK(t, next.rows)
  BY <1>2, <1>5, <1>8, <1>10, WithOK
<1>12. DOMAIN u = DOMAIN batches /\ Live(u) = {}
  BY <1>3, <1>6, DeactivatedLive
<1>13. DOMAIN t = DOMAIN batches \cup {id} /\ t[id] = y /\ \A c \in DOMAIN batches : t[c] = u[c]
  BY <1>2, <1>5, <1>12 DEF With
<1>14. Live(t) = {id}
  <2>1. y.active
    BY <1>6, <1>8
  <2>2. \A c \in DOMAIN batches : ~t[c].active
    BY <1>12, <1>13 DEF Live
  <2> QED BY <1>13, <2>1, <2>2 DEF Live
<1> QED BY <1>1, <1>2, <1>4, <1>11, <1>13, <1>14

(* The table an index leaves is sound for the index it publishes.            *)
LEMMA IndexTableOK ==
    ASSUME PubInv, Index
    PROVE  TableOK(batches', index'.rows) /\ index' \in Indexes
<1>1. PICK kind \in {"preserve", "manual", "rebind"}, reset \in BOOLEAN :
        \E next \in Nexts(reset) : \E table, changed :
            /\ PublishIndex(kind, reset, next, table, changed)
            /\ \/ IndexMoves(kind, next, table, changed)
               \/ IndexDrops(kind, next, table, changed)
               \/ IndexLeaves(kind, reset, next, table, changed)
               \/ IndexClears(kind, reset, table)
  BY IndexCases DEF IndexAs
<1>2. PICK next \in Nexts(reset) : \E table, changed :
            /\ PublishIndex(kind, reset, next, table, changed)
            /\ \/ IndexMoves(kind, next, table, changed)
               \/ IndexDrops(kind, next, table, changed)
               \/ IndexLeaves(kind, reset, next, table, changed)
               \/ IndexClears(kind, reset, table)
  BY <1>1
<1>3. PICK table, changed :
            /\ PublishIndex(kind, reset, next, table, changed)
            /\ \/ IndexMoves(kind, next, table, changed)
               \/ IndexDrops(kind, next, table, changed)
               \/ IndexLeaves(kind, reset, next, table, changed)
               \/ IndexClears(kind, reset, table)
  BY <1>2
<1>4. index' = next /\ batches' = table
  BY <1>3 DEF PublishIndex
<1>5. /\ next \in Indexes /\ index.rows \in Nat /\ next.rows \in Nat /\ index.rows <= next.rows
      /\ TableOK(batches, index.rows) /\ OneLive(batches)
  BY NextIndexOK DEF PubInv
<1>6. TableOK(batches, next.rows)
  BY ONLY <1>5, LaterOK
<1>7. TableOK(table, next.rows)
  <2>1. CASE IndexMoves(kind, next, table, changed)
    <3>1. PICK b \in Bound : next.src = index.src /\ table = Kept(kind, Rebound(b, next))
      BY <2>1 DEF IndexMoves
    <3>2. PICK t : t = Rebound(b, next)
      OBVIOUS
    <3>3. TableOK(t, next.rows)
      BY ONLY <1>5, <3>1, <3>2, ReboundOK
    <3> QED BY <3>1, <3>2, <3>3, OnlyOK, PreserveOK DEF Kept
  <2>2. CASE IndexDrops(kind, next, table, changed)
    BY <1>6, <2>2, DeactivatedOK, PreserveOK DEF IndexDrops
  <2>3. CASE IndexLeaves(kind, reset, next, table, changed)
    BY <1>6, <2>3, PreserveOK DEF IndexLeaves
  <2>4. CASE IndexClears(kind, reset, table)
    BY <2>4, FS_EmptySet DEF TableOK, IndexClears
  <2> QED BY <1>3, <2>1, <2>2, <2>3, <2>4
<1> QED BY <1>4, <1>5, <1>7

(* What an enricher goes by outlasts an edit of the disk.                    *)
LEMMA EditOK ==
    ASSUME PubInv, Edit
    PROVE  /\ disk' \in Disks /\ SpentOK'
           /\ \A e \in Enrichers : EnricherOK(proc[e], batches, index, disk', spent'.edits)
<1>1. SpentOK' /\ spent'.edits = spent.edits + 1 /\ spent.edits \in Nat
  BY SpendEdit DEF Edit, PubInv, SpentOK
<1>2. disk \in Disks
  BY DEF PubInv
<1>3. \A v \in Versions : 1 - v \in Versions
  BY DEF Versions
<1>4. disk' \in Disks
  BY <1>2, <1>3 DEF Edit, Disks
<1>5. ASSUME NEW e \in Enrichers
      PROVE  EnricherOK(proc[e], batches, index, disk', spent'.edits)
  <2>1. PICK x : x = proc[e]
    OBVIOUS
  <2>2. PICK n : n = spent.edits
    OBVIOUS
  <2>3. EnricherOK(x, batches, index, disk, n)
    BY <2>1, <2>2 DEF PubInv
  <2>4. ASSUME PlannedOK(x, index, disk, n)
        PROVE  /\ PlannedOK(x, index, disk', n + 1) /\ x.since # n + 1
    <3>1. x.since \in Nat /\ x.since <= n /\ n \in Nat
      BY <1>1, <2>2, <2>4 DEF PlannedOK
    <3>2. x.since # n + 1 /\ x.since <= n + 1
      BY <3>1
    <3> QED BY ONLY <2>4, <3>1, <3>2 DEF PlannedOK
  <2>5. ASSUME StagingOK(x, batches, disk, n), x.since # n + 1
        PROVE  StagingOK(x, batches, disk', n + 1)
    BY ONLY <2>5 DEF StagingOK
  <2>6. EnricherOK(x, batches, index, disk', n + 1)
    BY ONLY <2>3, <2>4, <2>5 DEF EnricherOK
  <2> QED BY <1>1, <2>1, <2>2, <2>6
<1> QED BY <1>1, <1>4, <1>5

(* There is nothing to be wrong about at the start.                          *)
LEMMA PubInit ==
    ASSUME Init
    PROVE  PubInv
<1>1. disk \in Disks /\ index \in Indexes
  BY DEF Init, Disks, Indexes, Versions
<1>2. SpentOK
  BY DEF Init, SpentOK, SpentFields
<1>3. DOMAIN batches = {}
  BY DEF Init
<1>4. TableOK(batches, index.rows) /\ OneLive(batches)
  BY <1>3, FS_EmptySet DEF TableOK, OneLive, Live
<1>5. proc = [e \in Enrichers |-> proc[e]] /\ \A e \in Enrichers : proc[e].pc = "idle"
  BY DEF Init, Idle
<1> QED BY <1>1, <1>2, <1>4, <1>5 DEF PubInv, EnricherOK

(* With one watcher at a time the invariant is inductive.                    *)
LEMMA PubInductive ==
    ASSUME Alone, PubInv, [Next]_vars
    PROVE  PubInv'
<1>1. CASE UNCHANGED vars
  BY <1>1 DEF vars, PubInv, SpentOK
<1>2. CASE Edit
  <2>1. UNCHANGED <<index, batches, proc>>
    BY <1>2 DEF Edit
  <2> QED BY <1>2, <2>1, EditOK DEF PubInv
<1>3. CASE Index
  <2>1. /\ UNCHANGED <<disk, proc>> /\ Spend("indexes", MaxIndexes)
        /\ Concurrent \/ \A e \in Enrichers : At(e, "idle")
    <3>1. PICK kind, reset, next, table, changed : PublishIndex(kind, reset, next, table, changed)
      BY <1>3, IndexCases DEF IndexAs
    <3> QED BY <3>1 DEF PublishIndex
  <2>2. SpentOK'
    BY <2>1, SpendOther DEF PubInv
  <2>3. \A e \in Enrichers : proc[e].pc = "idle"
    BY <2>1 DEF Alone, At
  <2>4. OneLive(batches')
    BY <1>3, IndexOneLive DEF PubInv
  <2> QED BY <1>3, <2>1, <2>2, <2>3, <2>4, IndexTableOK DEF PubInv, EnricherOK
<1>4. ASSUME NEW e \in Enrichers, Enrich(e) \/ Die(e)
      PROVE  PubInv'
  <2>1. SpentOK /\ proc = [d \in Enrichers |-> proc[d]] /\ OneLive(batches)
    BY DEF PubInv
  <2>2. /\ UNCHANGED <<disk, index>> /\ SpentOK' /\ spent'.edits = spent.edits
        /\ proc' = [d \in Enrichers |-> proc'[d]]
    BY ONLY <1>4, <2>1, EnrichFrame
  <2>3. /\ TableOK(batches', index.rows) /\ OneLive(batches')
        /\ EnricherOK(proc'[e], batches', index, disk, spent.edits)
    <3>1. CASE Enrich(e)
      BY <2>1, <3>1, EnrichOK, EnrichOneLive
    <3>2. CASE Die(e)
      <4>1. UNCHANGED batches /\ Leave(e)
        BY <3>2 DEF Die
      <4>2. EnricherOK(proc'[e], batches', index, disk, spent.edits)
        BY ONLY <4>1, IdleOK, PubInv, e \in Enrichers
      <4>3. TableOK(batches', index.rows) /\ OneLive(batches')
        BY <2>1, <4>1 DEF PubInv
      <4> QED BY <4>2, <4>3
    <3> QED BY <1>4, <3>1, <3>2
  <2>4. \A d \in Enrichers : d = e
    BY DEF Alone
  <2> QED BY <2>2, <2>3, <2>4 DEF PubInv
<1> QED BY <1>1, <1>2, <1>3, <1>4 DEF Next

-----------------------------------------------------------------------------
(* The steps of an enricher and the publication.                             *)

IdsOK(t) == IsFiniteSet(DOMAIN t) /\ DOMAIN t \subseteq Nat

(* The id of a new batch is that of no other.                                *)
LEMMA FreshId ==
    ASSUME NEW t, IdsOK(t)
    PROVE  NextId(t) \in Nat /\ NextId(t) \notin DOMAIN t
<1>1. CASE DOMAIN t = {}
  BY <1>1 DEF NextId
<1>2. CASE DOMAIN t # {}
  <2> DEFINE m == Newest(DOMAIN t)
  <2>1. m \in DOMAIN t /\ m \in Nat /\ \A j \in DOMAIN t : j \in Nat /\ j <= m
    BY <1>2, NewestIsOne DEF IdsOK
  <2>2. NextId(t) = m + 1
    BY <1>2 DEF NextId
  <2> HIDE DEF m
  <2> QED BY <2>1, <2>2
<1> QED BY <1>1, <1>2

(* A table keeps its publication: it is the same batch, and unless that is   *)
(* the one an enricher works in, it says the same.                           *)
LiveKept(own, t, u) ==
    /\ Live(u) = Live(t)
    /\ \A b \in Live(t) : b # own => u[b].runs = t[b].runs /\ u[b].snapshot = t[b].snapshot

(* The publication is among what is kept if the active batches are,          *)
LEMMA OnlyLive ==
    ASSUME NEW t, NEW ids, Live(t) \subseteq ids
    PROVE  /\ Live(Only(t, ids)) = Live(t) /\ \A b \in Live(t) : Only(t, ids)[b] = t[b]
           /\ DOMAIN Only(t, ids) = DOMAIN t \cap ids
BY DEF Live, Only

(* as they are by a refresh;                                                 *)
LEMMA PreserveLive ==
    ASSUME NEW t
    PROVE  /\ Live(Preserve(t)) = Live(t) /\ \A b \in Live(t) : Preserve(t)[b] = t[b]
           /\ DOMAIN Preserve(t) \subseteq DOMAIN t
<1>1. PICK inactive : inactive = {b \in DOMAIN t : ~t[b].active}
  OBVIOUS
<1>2. PICK ids : ids = (DOMAIN t \ inactive) \cup {Retained(t, inactive)}
  OBVIOUS
<1>3. Live(t) \subseteq ids
  BY <1>1, <1>2 DEF Live
<1>4. Preserve(t) = t \/ Preserve(t) = Only(t, ids)
  BY <1>1, <1>2 DEF Preserve
<1>5. /\ Live(Only(t, ids)) = Live(t) /\ \A b \in Live(t) : Only(t, ids)[b] = t[b]
      /\ DOMAIN Only(t, ids) = DOMAIN t \cap ids
  BY ONLY <1>3, OnlyLive
<1> QED BY <1>4, <1>5

(* it is not disturbed by a batch that is not active,                        *)
LEMMA WithLive ==
    ASSUME NEW t, NEW id, id \notin Live(t), NEW y, y.active = FALSE
    PROVE  Live(With(t, id, y)) = Live(t) /\ \A b \in Live(t) : With(t, id, y)[b] = t[b]
<1>1. /\ DOMAIN With(t, id, y) = DOMAIN t \cup {id}
      /\ \A b \in DOMAIN t \cup {id} : With(t, id, y)[b] = IF b = id THEN y ELSE t[b]
  BY DEF With
<1> QED BY <1>1 DEF Live

(* nor by a write to another batch.                                          *)
LEMMA RunsLive ==
    ASSUME NEW t, \A b \in DOMAIN t : "active" \in DOMAIN t[b], NEW id, NEW runs
    PROVE  LiveKept(id, t, [t EXCEPT ![id].runs = runs])
<1>1. PICK u : u = [t EXCEPT ![id].runs = runs]
  OBVIOUS
<1>2. DOMAIN u = DOMAIN t /\ \A b \in DOMAIN t : b # id => u[b] = t[b]
  BY <1>1
<1>3. \A b \in DOMAIN t : u[b].active = t[b].active
  BY <1>1
<1>4. Live(u) = Live(t)
  BY <1>2, <1>3 DEF Live
<1> QED BY <1>1, <1>2, <1>4 DEF LiveKept, Live

(* What an enricher opens stands beside the publication.                     *)
LEMMA OpenLive ==
    ASSUME OneLive(batches), IdsOK(batches), NEW e \in Enrichers, OpenStaging(e), NEW own
    PROVE  LiveKept(own, batches, batches')
<1>9. \A b \in DOMAIN batches : "active" \in DOMAIN batches[b]
  BY DEF OneLive
<1>1. CASE UNCHANGED batches
  BY <1>1 DEF LiveKept
<1>2. ASSUME NEW b \in Staging(e), Resumable(e) = {},
             batches' = With(Only(batches, Active), b + 1, Clone(b))
      PROVE  LiveKept(own, batches, batches')
  <2>1. PICK t : t = Only(batches, Active)
    OBVIOUS
  <2>2. PICK y : y = Clone(b)
    OBVIOUS
  <2>3. PICK id : id = b + 1
    OBVIOUS
  <2>4. Active = Live(batches) /\ b \in Live(batches) /\ Live(batches) = {b}
    BY <1>2 DEF Active, Live, Resumable, OneLive
  <2>5. id \notin Live(batches)
    <3>1. b \in Nat
      BY <2>4 DEF IdsOK, Live
    <3> QED BY <2>3, <2>4, <3>1
  <2>6. Live(t) = Live(batches) /\ \A c \in Live(batches) : t[c] = batches[c]
    BY <2>1, <2>4, OnlyLive
  <2>7. y.active = FALSE
    <3>1. PICK x : x = batches[b]
      OBVIOUS
    <3>2. "active" \in DOMAIN x
      BY <1>9, <2>4, <3>1 DEF Live
    <3>3. PICK runs : runs = [p \in Projects |-> ClonedRun(b, p)]
      OBVIOUS
    <3>4. y = [x EXCEPT !.active = FALSE, !.stamped = FALSE, !.runs = runs]
      BY <2>2, <3>1, <3>3 DEF Clone
    <3> QED BY <3>2, <3>4
  <2>8. batches' = With(t, id, y)
    BY <1>2, <2>1, <2>2, <2>3
  <2>10. id \notin Live(t)
    BY <2>5, <2>6
  <2>9. Live(batches') = Live(t) /\ \A c \in Live(t) : batches'[c] = t[c]
    BY ONLY <2>7, <2>8, <2>10, WithLive
  <2> QED BY <2>6, <2>9 DEF LiveKept
<1>3. CASE batches' = With(Preserve(batches), NextId(Preserve(batches)),
                           NewBatch(proc[e].plan))
  <2>1. PICK t : t = Preserve(batches)
    OBVIOUS
  <2>2. PICK y : y = NewBatch(proc[e].plan)
    OBVIOUS
  <2>3. PICK id : id = NextId(t)
    OBVIOUS
  <2>4. /\ Live(t) = Live(batches) /\ \A b \in Live(batches) : t[b] = batches[b]
        /\ DOMAIN t \subseteq DOMAIN batches
    BY <2>1, PreserveLive
  <2>5. IdsOK(t)
    BY <2>4, FS_Subset DEF IdsOK
  <2>6. id \notin Live(t)
    BY <2>3, <2>5, FreshId DEF Live
  <2>7. y.active = FALSE
    BY <2>2 DEF NewBatch
  <2>8. batches' = With(t, id, y)
    BY <1>3, <2>1, <2>2, <2>3
  <2>9. Live(batches') = Live(t) /\ \A c \in Live(t) : batches'[c] = t[c]
    BY ONLY <2>6, <2>7, <2>8, WithLive
  <2> QED BY <2>4, <2>9 DEF LiveKept
<1> QED BY <1>1, <1>2, <1>3 DEF OpenStaging

(* What an enricher does before it reuses or activates leaves the            *)
(* publication standing.                                                     *)
LEMMA StepLive ==
    ASSUME OneLive(batches), IdsOK(batches), NEW e \in Enrichers, Enrich(e),
           ~CheckReuse(e), ~Activate(e)
    PROVE  LiveKept(proc[e].batch, batches, batches')
<1>0. \A b \in DOMAIN batches : "active" \in DOMAIN batches[b]
  BY DEF OneLive
<1>1. CASE UNCHANGED batches
  BY <1>1 DEF LiveKept
<1>2. ASSUME NEW p, NEW run, SetRun(e, p, run)
      PROVE  LiveKept(proc[e].batch, batches, batches')
  <2>1. PICK runs : runs = [batches[proc[e].batch].runs EXCEPT ![p] = run]
    OBVIOUS
  <2>2. batches' = [batches EXCEPT ![proc[e].batch].runs = runs]
    BY <1>2, <2>1 DEF SetRun
  <2> QED BY <1>0, <2>2, RunsLive
<1>3. ASSUME NEW runs, batches' = [batches EXCEPT ![proc[e].batch].runs = runs]
      PROVE  LiveKept(proc[e].batch, batches, batches')
  BY <1>0, <1>3, RunsLive
<1>4. CASE PrepareProjects(e)
  BY <1>1, <1>3, <1>4 DEF PrepareProjects
<1>5. CASE \E p \in Projects :
             \/ StartProject(e, p) \/ StageBatch(e, p) \/ StageFileFailed(e, p)
             \/ CompleteProject(e, p) \/ FailProject(e, p)
  BY <1>2, <1>5 DEF StartProject, StageBatch, StageFileFailed, CompleteProject,
     FailProject
<1>6. CASE \/ Plan(e) \/ Reuse(e) \/ ProjectRetirement(e) \/ LoseBatch(e)
           \/ RefuseActivation(e) \/ ProjectPublication(e)
  BY <1>1, <1>6 DEF Plan, Reuse, ProjectRetirement, LoseBatch, RefuseActivation,
     ProjectPublication
<1>7. CASE OpenStaging(e)
  BY <1>7, OpenLive
<1>8. CASE CarryForward(e)
  <2>1. PICK t : t = Unretired(e)
    OBVIOUS
  <2>2. Live(t) = Live(batches) /\ \A b \in Live(batches) : t[b] = batches[b]
    <3>1. PICK ids : ids = Active \cup {proc[e].batch}
      OBVIOUS
    <3>2. Live(batches) \subseteq ids
      BY <3>1 DEF Active, Live
    <3>3. t = Only(batches, ids)
      BY <2>1, <3>1 DEF Unretired
    <3> QED BY ONLY <3>2, <3>3, OnlyLive
  <2>3. \A b \in DOMAIN t : "active" \in DOMAIN t[b]
    BY <1>0, <2>1 DEF Unretired, Only
  <2>4. ASSUME NEW runs, batches' = [t EXCEPT ![proc[e].batch].runs = runs]
        PROVE  LiveKept(proc[e].batch, batches, batches')
    <3>1. LiveKept(proc[e].batch, t, batches')
      BY <2>3, <2>4, RunsLive
    <3> QED BY <2>2, <3>1 DEF LiveKept
  <2>5. \/ batches' \in {batches, t}
        \/ \E runs : batches' = [t EXCEPT ![proc[e].batch].runs = runs]
    BY <1>8, <2>1 DEF CarryForward
  <2>6. CASE batches' \in {batches, t}
    BY <2>2, <2>6 DEF LiveKept
  <2> QED BY <2>4, <2>5, <2>6
<1>9. CASE StampEmpty(e)
  <2>1. PICK t : t = Only(batches, Active \cup {proc[e].batch})
    OBVIOUS
  <2>2. Live(t) = Live(batches) /\ \A b \in Live(batches) : t[b] = batches[b]
    <3>1. PICK ids : ids = Active \cup {proc[e].batch}
      OBVIOUS
    <3>2. Live(batches) \subseteq ids
      BY <3>1 DEF Active, Live
    <3>3. t = Only(batches, ids)
      BY <2>1, <3>1
    <3> QED BY ONLY <3>2, <3>3, OnlyLive
  <2>3. \A b \in DOMAIN t : "active" \in DOMAIN t[b]
    BY <1>0, <2>1 DEF Only
  <2>4. PICK u : u = [t EXCEPT ![proc[e].batch].stamped = TRUE]
    OBVIOUS
  <2>5. DOMAIN u = DOMAIN t /\ \A b \in DOMAIN t : b # proc[e].batch => u[b] = t[b]
    BY <2>4
  <2>6. \A b \in DOMAIN t : u[b].active = t[b].active
    BY <2>3, <2>4
  <2>7. Live(u) = Live(t)
    BY <2>5, <2>6 DEF Live
  <2>8. batches' = u
    BY <1>9, <2>1, <2>4 DEF StampEmpty
  <2> QED BY <2>2, <2>5, <2>7, <2>8 DEF LiveKept, Live
<1> QED BY <1>4, <1>5, <1>6, <1>7, <1>8, <1>9 DEF Enrich

(* A publication takes the place of the one before.                          *)
LEMMA ActivateLive ==
    ASSUME OneLive(batches), NEW e \in Enrichers, Activate(e)
    PROVE  Live(batches') = {proc[e].batch} /\ Own(e)
<1>1. Own(e) /\ "active" \in DOMAIN batches[proc[e].batch]
  BY DEF Activate, Activatable, Own, OneLive
<1>2. PICK t : t = Only(batches, {proc[e].batch})
  OBVIOUS
<1>3. DOMAIN t = {proc[e].batch} /\ "active" \in DOMAIN t[proc[e].batch]
  BY <1>1, <1>2 DEF Only, Own
<1>4. batches' = [t EXCEPT ![proc[e].batch].active = TRUE, ![proc[e].batch].stamped = TRUE]
  BY <1>2 DEF Activate
<1>5. DOMAIN batches' = {proc[e].batch} /\ batches'[proc[e].batch].active
  BY <1>3, <1>4
<1> QED BY <1>1, <1>5 DEF Live

-----------------------------------------------------------------------------
(* The ids of the batches stay a finite set of numbers.                      *)
LEMMA IdsStep ==
    ASSUME IdsOK(batches), [Next]_vars
    PROVE  IdsOK(batches')
<1>1. ASSUME NEW t, IdsOK(t), NEW ids
      PROVE  IdsOK(Only(t, ids))
  <2>1. DOMAIN Only(t, ids) = DOMAIN t \cap ids
    BY DEF Only
  <2> QED BY <1>1, <2>1, FS_Subset DEF IdsOK
<1>2. ASSUME NEW t, IdsOK(t)
      PROVE  IdsOK(Preserve(t))
  BY <1>1, <1>2 DEF Preserve
<1>3. ASSUME NEW t, IdsOK(t), NEW id \in Nat, NEW y
      PROVE  IdsOK(With(t, id, y))
  <2>1. DOMAIN With(t, id, y) = DOMAIN t \cup {id}
    BY DEF With
  <2> QED BY <1>3, <2>1, FS_AddElement DEF IdsOK
<1>4. ASSUME NEW t, IdsOK(t), NEW ids
      PROVE  IdsOK(Deactivated(t, ids))
  BY <1>4 DEF Deactivated, IdsOK
<1>5. CASE UNCHANGED batches
  BY <1>5
<1>6. CASE Index
  <2>1. PICK kind, reset, next, table, changed :
            /\ PublishIndex(kind, reset, next, table, changed)
            /\ \/ IndexMoves(kind, next, table, changed)
               \/ IndexDrops(kind, next, table, changed)
               \/ IndexLeaves(kind, reset, next, table, changed)
               \/ IndexClears(kind, reset, table)
    BY <1>6, IndexCases DEF IndexAs
  <2>2. \A b : IdsOK(Rebound(b, next))
    <3>1. NextId(batches) \in Nat
      BY FreshId
    <3> QED BY <1>3, <1>4, <3>1 DEF Rebound
  <2>3. IdsOK(table)
    <3>1. CASE table = <<>>
      BY <3>1, FS_EmptySet DEF IdsOK
    <3> QED BY <1>1, <1>2, <1>4, <2>1, <2>2, <3>1 DEF IndexMoves, IndexDrops, IndexLeaves,
         IndexClears, Kept
  <2> QED BY <2>1, <2>3 DEF PublishIndex
<1>7. ASSUME NEW e \in Enrichers, Enrich(e)
      PROVE  IdsOK(batches')
  <2>1. ASSUME NEW t, IdsOK(t), NEW id, NEW runs, batches' = [t EXCEPT ![id].runs = runs]
        PROVE  IdsOK(batches')
    BY <2>1 DEF IdsOK
  <2>2. CASE CheckReuse(e)
    BY <1>4, <2>2 DEF CheckReuse
  <2>3. CASE OpenStaging(e)
    <3>1. ASSUME NEW b \in Staging(e)
          PROVE  IdsOK(With(Only(batches, Active), b + 1, Clone(b)))
      <4>1. b + 1 \in Nat
        BY DEF Staging, IdsOK
      <4> QED BY <1>1, <1>3, <4>1
    <3>2. IdsOK(With(Preserve(batches), NextId(Preserve(batches)), NewBatch(proc[e].plan)))
      BY <1>2, <1>3, FreshId
    <3> QED BY <2>3, <3>1, <3>2 DEF OpenStaging
  <2>4. CASE CarryForward(e)
    <3>1. IdsOK(Unretired(e))
      BY <1>1 DEF Unretired
    <3> QED BY <2>1, <2>4, <3>1 DEF CarryForward
  <2>5. CASE PrepareProjects(e)
    BY <2>1, <2>5 DEF PrepareProjects
  <2>6. CASE \E p \in Projects :
               \/ StartProject(e, p) \/ StageBatch(e, p) \/ StageFileFailed(e, p)
               \/ CompleteProject(e, p) \/ FailProject(e, p)
    <3>1. PICK p, run : SetRun(e, p, run)
      BY <2>6 DEF StartProject, StageBatch, StageFileFailed, CompleteProject, FailProject
    <3> QED BY <3>1 DEF SetRun, IdsOK
  <2>7. CASE Activate(e) \/ StampEmpty(e)
    <3>1. PICK ids : DOMAIN batches' = DOMAIN Only(batches, ids)
      BY <2>7 DEF Activate, StampEmpty
    <3>2. IdsOK(Only(batches, ids))
      BY <1>1
    <3> QED BY <3>1, <3>2 DEF IdsOK
  <2> QED BY <1>5, <1>7, <2>2, <2>3, <2>4, <2>5, <2>6, <2>7 DEF Enrich, Plan, Reuse,
       ProjectRetirement, LoseBatch, RefuseActivation, ProjectPublication
<1> QED BY <1>5, <1>6, <1>7 DEF Next, Edit, Die, vars

(* Whatever enrichers work side by side, fail and die: the digest of the     *)
(* index keeps its publication, until an index or a run that finds it stale  *)
(* takes it away.                                                            *)
THEOREM PublicationNeverLost == Spec => PublicationKept
<1> DEFINE I == IdsOK(batches) /\ OneLive(batches)
<1>1. Init => I
  BY FS_EmptySet DEF Init, IdsOK, OneLive, Live
<1>2. I /\ [Next]_vars => I'
  <2> SUFFICES ASSUME I, [Next]_vars PROVE I'
    OBVIOUS
  <2>1. IdsOK(batches')
    BY IdsStep
  <2>2. OneLive(batches')
    <3>1. CASE UNCHANGED batches
      BY <3>1
    <3> QED BY <3>1, IndexOneLive, EnrichOneLive DEF Next, Edit, Die, vars
  <2> QED BY <2>1, <2>2 DEF IdsOK, OneLive, Live
<1>3. I /\ [Next]_vars =>
        [Bound # {} => \/ \E b \in DOMAIN batches' : batches'[b].active
                       \/ Index \/ \E e \in Enrichers : CheckReuse(e)]_vars
  <2> SUFFICES ASSUME I, Next, Bound # {}, ~Index, \A e \in Enrichers : ~CheckReuse(e)
               PROVE  \E b \in DOMAIN batches' : batches'[b].active
    OBVIOUS
  <2>1. Live(batches) # {}
    BY DEF Bound, Active, Live
  <2>2. Live(batches') # {}
    <3>1. CASE UNCHANGED batches
      BY <2>1, <3>1
    <3>2. ASSUME NEW e \in Enrichers, Enrich(e)
          PROVE  Live(batches') # {}
      <4>1. CASE Activate(e)
        BY <4>1, ActivateLive
      <4>2. CASE ~Activate(e)
        BY <2>1, <3>2, <4>2, StepLive DEF LiveKept
      <4> QED BY <4>1, <4>2
    <3> QED BY <3>1, <3>2 DEF Next, Edit, Die
  <2> QED BY <2>2 DEF Live
<1> QED BY <1>1, <1>2, <1>3, PTL DEF Spec, PublicationKept

-----------------------------------------------------------------------------
(* What is carried from.                                                     *)

Sources(t) == {b \in DOMAIN t : CarrySource(t[b])}

(* A refresh that preserves keeps something to carry from,                   *)
LEMMA PreserveSource ==
    ASSUME NEW t, IdsOK(t), Sources(t) # {}
    PROVE  Sources(Preserve(t)) # {}
<1>1. PICK b \in DOMAIN t : CarrySource(t[b])
  BY DEF Sources
<1>2. PICK inactive : inactive = {c \in DOMAIN t : ~t[c].active}
  OBVIOUS
<1>3. PICK useful : useful = {c \in inactive : CarrySource(t[c])}
  OBVIOUS
<1>4. PICK u : u = Preserve(t)
  OBVIOUS
<1>5. CASE inactive = {}
  <2>1. u = t
    BY <1>2, <1>4, <1>5 DEF Preserve
  <2> QED BY <1>4, <2>1
<1>6. CASE inactive # {}
  <2>1. PICK kept : kept = Retained(t, inactive)
    OBVIOUS
  <2>2. PICK ids : ids = (DOMAIN t \ inactive) \cup {kept}
    OBVIOUS
  <2>3. u = Only(t, ids)
    BY <1>2, <1>4, <1>6, <2>1, <2>2 DEF Preserve
  <2>4. useful # {} => kept \in useful
    <3>1. IsFiniteSet(useful) /\ useful \subseteq Nat
      BY <1>2, <1>3, FS_Subset DEF IdsOK
    <3>2. useful # {} => kept = Newest(useful)
      BY <1>3, <2>1 DEF Retained
    <3> QED BY <3>1, <3>2, NewestIsOne
  <2>5. PICK c \in DOMAIN t \cap ids : CarrySource(t[c])
    <3>1. CASE b \in inactive
      <4>1. kept \in useful
        BY <1>1, <1>3, <2>4, <3>1
      <4> QED BY <1>2, <1>3, <2>2, <4>1
    <3>2. CASE b \notin inactive
      BY <1>1, <2>2, <3>2
    <3> QED BY <3>1, <3>2
  <2>6. c \in DOMAIN u /\ u[c] = t[c]
    BY <2>3 DEF Only
  <2> QED BY <1>4, <2>5, <2>6 DEF Sources
<1> QED BY <1>5, <1>6

(* a deactivation does,                                                      *)
LEMMA DeactivatedSource ==
    ASSUME NEW t, \A b \in DOMAIN t : "runs" \in DOMAIN t[b], NEW ids
    PROVE  Sources(Deactivated(t, ids)) = Sources(t)
<1>1. PICK u : u = Deactivated(t, ids)
  OBVIOUS
<1>2. DOMAIN u = DOMAIN t
  BY <1>1 DEF Deactivated
<1>3. \A b \in DOMAIN t : u[b].runs = t[b].runs
  BY <1>1 DEF Deactivated
<1>4. \A b \in DOMAIN t : CarrySource(u[b]) <=> CarrySource(t[b])
  BY <1>3 DEF CarrySource
<1> QED BY <1>1, <1>2, <1>4 DEF Sources

(* and so does a new batch.                                                  *)
LEMMA WithSource ==
    ASSUME NEW t, NEW id, id \notin DOMAIN t, NEW y, Sources(t) # {}
    PROVE  Sources(With(t, id, y)) # {}
<1>1. \A b \in DOMAIN t : b \in DOMAIN With(t, id, y) /\ With(t, id, y)[b] = t[b]
  BY DEF With
<1> QED BY <1>1 DEF Sources

(* A refresh, and a run that opens a batch aside, keep a source to carry     *)
(* from.                                                                     *)
LEMMA SourceKept ==
    ASSUME IdsOK(batches), \A b \in DOMAIN batches : "runs" \in DOMAIN batches[b],
           Sources(batches) # {},
           IndexPreserving \/ IndexRebinding \/ \E e \in Enrichers : OpensAside(e)
    PROVE  Sources(batches') # {}
<1>1. ASSUME NEW kind \in {"preserve", "rebind"}, IndexAs(kind)
      PROVE  Sources(batches') # {}
  <2>1. PICK reset, next, table, changed :
            /\ PublishIndex(kind, reset, next, table, changed)
            /\ \/ IndexMoves(kind, next, table, changed)
               \/ IndexDrops(kind, next, table, changed)
               \/ IndexLeaves(kind, reset, next, table, changed)
               \/ IndexClears(kind, reset, table)
    BY <1>1 DEF IndexAs
  <2>2. \A ids : IdsOK(Deactivated(batches, ids)) /\ Sources(Deactivated(batches, ids)) # {}
    <3>1. \A ids : DOMAIN Deactivated(batches, ids) = DOMAIN batches
      BY DEF Deactivated
    <3> QED BY <3>1, DeactivatedSource DEF IdsOK
  <2>3. ASSUME NEW b
        PROVE  IdsOK(Rebound(b, next)) /\ Sources(Rebound(b, next)) # {}
    <3>1. PICK t : t = Deactivated(batches, {b})
      OBVIOUS
    <3>2. PICK id : id = NextId(batches)
      OBVIOUS
    <3>3. id \in Nat /\ id \notin DOMAIN t /\ IdsOK(t) /\ Sources(t) # {}
      BY <2>2, <3>1, <3>2, FreshId DEF Deactivated
    <3>4. \E y : Rebound(b, next) = With(t, id, y)
      BY <3>1, <3>2 DEF Rebound
    <3>5. PICK y : Rebound(b, next) = With(t, id, y)
      BY <3>4
    <3>6. Sources(With(t, id, y)) # {}
      BY ONLY <3>3, WithSource
    <3>7. DOMAIN With(t, id, y) = DOMAIN t \cup {id}
      BY DEF With
    <3>8. IdsOK(With(t, id, y))
      BY <3>3, <3>7, FS_AddElement DEF IdsOK
    <3> QED BY <3>5, <3>6, <3>8
  <2>4. \E t : table = Preserve(t) /\ IdsOK(t) /\ Sources(t) # {}
    BY <2>1, <2>2, <2>3 DEF IndexMoves, IndexDrops, IndexLeaves, IndexClears, Kept
  <2> QED BY <2>1, <2>4, PreserveSource DEF PublishIndex
<1>2. ASSUME NEW e \in Enrichers, OpensAside(e)
      PROVE  Sources(batches') # {}
  <2>1. CASE UNCHANGED batches
    BY <2>1
  <2>2. CASE batches' = With(Preserve(batches), NextId(Preserve(batches)),
                             NewBatch(proc[e].plan))
    <3>1. PICK t : t = Preserve(batches)
      OBVIOUS
    <3>2. DOMAIN t \subseteq DOMAIN batches
      BY <3>1, PreserveLive
    <3>3. IdsOK(t) /\ Sources(t) # {}
      BY <3>1, <3>2, PreserveSource, FS_Subset DEF IdsOK
    <3>4. NextId(t) \notin DOMAIN t
      BY <3>3, FreshId
    <3>5. Sources(With(t, NextId(t), NewBatch(proc[e].plan))) # {}
      BY ONLY <3>3, <3>4, WithSource
    <3> QED BY <2>2, <3>1, <3>5
  <2> QED BY <1>2, <2>1, <2>2 DEF OpensAside, OpenStaging, Resumable
<1> QED BY <1>1, <1>2, PreservingAs, ValidatingAs DEF IndexRebinding

-----------------------------------------------------------------------------
(* Activation.                                                               *)

(* What is activated is of the index and of the inputs outside it.           *)
LEMMA ActivatesCurrent ==
    ASSUME PubInv, NEW e \in Enrichers, Activate(e),
           NEW x \in Published(batches', proc[e].batch)
    PROVE  Projectable(x[2], index) /\ AllHold(disk, External(x[2].fp))
<1>1. At(e, "check") /\ Activatable(e)
  BY DEF Activate
<1>2. Works(proc[e]) /\ proc[e].pc # "idle"
  BY <1>1 DEF At, Works
<1>3. PICK own : own = proc[e].batch
  OBVIOUS
<1>4. PICK b : b = batches[own]
  OBVIOUS
<1>5. /\ own \in DOMAIN batches /\ b \in Batches
      /\ \A p \in Projects : /\ RunOK(p, b.runs[p])
                             /\ \A r \in b.runs[p].cover : OfPlan(r, proc[e].plan)
  BY <1>2, <1>3, <1>4, OwnBatch DEF Own, Mine
<1>6. batches'[own].runs = b.runs
  <2>1. PICK t : t = Only(batches, {own})
    OBVIOUS
  <2>2. DOMAIN t = {own} /\ t[own] = b
    BY <1>4, <1>5, <2>1 DEF Only
  <2>3. batches' = [t EXCEPT ![own].active = TRUE, ![own].stamped = TRUE]
    BY <1>3, <2>1 DEF Activate
  <2>4. batches'[own] = [b EXCEPT !.active = TRUE, !.stamped = TRUE]
    BY <2>2, <2>3
  <2> QED BY <1>5, <2>4 DEF Batches
<1>7. PICK p \in Projects : /\ Publishable(b.runs[p])
                            /\ \E r \in b.runs[p].cover : Fact(r) /\ x = <<p, r>>
  BY <1>3, <1>6 DEF Published
<1>8. PICK r \in b.runs[p].cover : Fact(r) /\ x = <<p, r>>
  BY <1>7
<1>9. TargetCurrent(index, r) /\ AllHold(disk, b.runs[p].inputs)
  BY <1>1, <1>3, <1>4, <1>8 DEF Activatable, FactsOf, Mine
<1>10. proc[e].plan.rows = index.rows /\ proc[e].plan.snapshot[1] = index.src
  BY ONLY <1>2, AtWork, PubInv, e \in Enrichers
<1>11. Projectable(r, index)
  BY <1>5, <1>8, <1>9, <1>10 DEF OfPlan, Projectable
<1>12. External(r.fp) \subseteq b.runs[p].inputs
  BY <1>5, <1>7, <1>8 DEF RunOK, InputsOK
<1> QED BY <1>8, <1>9, <1>11, <1>12 DEF AllHold

(* A run without failures or edits is accepted.                              *)
LEMMA UndisturbedAccepted ==
    ASSUME PubInv, Projects # {}, NEW e \in Enrichers, At(e, "check"), proc[e].jobs = {},
           proc[e].failed = FALSE, proc[e].since = spent.edits
    PROVE  Activatable(e)
<1>1. Works(proc[e]) /\ proc[e].pc # "idle" /\ proc[e].pc = "check"
  BY DEF At, Works
<1>2. /\ StagingOK(proc[e], batches, disk, spent.edits)
      /\ proc[e].plan.snapshot = Snapshot /\ proc[e].plan.snapshot[1] = index.src
  BY ONLY <1>1, AtWork, PubInv, e \in Enrichers
<1>3. /\ Own(e)
      /\ \A p \in Projects : /\ Mine(e, p) \in Runs /\ RunOK(p, Mine(e, p))
                             /\ \A r \in Mine(e, p).cover : OfPlan(r, proc[e].plan)
  BY <1>1, OwnBatch
<1>4. \A p \in Projects : Mine(e, p).status = "completed" /\ AllHold(disk, Mine(e, p).inputs)
  BY <1>1, <1>2 DEF StagingOK, Mine
<1>5. ASSUME NEW p \in Projects
      PROVE  WellFormed(Mine(e, p), p)
  <2>1. PICK run : run = Mine(e, p)
    OBVIOUS
  <2>2. run.status = "completed" /\ CoverOK(p, run)
    BY <1>3, <1>4, <2>1 DEF RunOK
  <2>3. /\ Members[p] \subseteq {r.file : r \in Healthy(run.cover)}
        /\ \A r \in run.cover : r.file \in Members[p]
        /\ \A r, s \in run.cover : r.file = s.file => r = s
    BY <2>2 DEF CoverOK
  <2>4. Members[p] \subseteq {r.file : r \in run.cover}
    BY <2>3 DEF Healthy
  <2>5. /\ Cardinality(run.cover) = Cardinality(Members[p])
        /\ Cardinality(Healthy(run.cover)) = Cardinality(Members[p])
    BY <2>3, <2>4, CoverCount
  <2> QED BY <2>1, <2>2, <2>5 DEF WellFormed
<1>6. \A r \in FactsOf(proc[e].batch) : TargetCurrent(index, r)
  BY <1>2, <1>3 DEF FactsOf, OfPlan, TargetCurrent, Mine
<1>7. \A p \in Projects : Mine(e, p).status # "pending" /\ Publishable(Mine(e, p))
  BY <1>4 DEF Publishable
<1> QED BY <1>2, <1>3, <1>4, <1>5, <1>6, <1>7 DEF Activatable

(* Beside these two steps a watcher leaves the publication as it is.         *)
LEMMA LiveSame ==
    ASSUME PubInv, NEW e \in Enrichers, Enrich(e), ~CheckReuse(e), ~Activate(e)
    PROVE  /\ Live(batches') = Live(batches)
           /\ \A b \in Live(batches) : /\ batches'[b].runs = batches[b].runs
                                       /\ batches'[b].snapshot = batches[b].snapshot
<1>1. OneLive(batches) /\ IdsOK(batches)
  BY DEF PubInv, TableOK, IdsOK
<1>2. CASE Works(proc[e])
  <2>1. LiveKept(proc[e].batch, batches, batches')
    BY <1>1, StepLive
  <2>2. proc[e].batch \notin Live(batches)
    BY <1>2, OwnBatch DEF Active, Live
  <2> QED BY <2>1, <2>2 DEF LiveKept
<1>3. CASE OpenStaging(e)
  <2>1. \A own : LiveKept(own, batches, batches')
    BY <1>1, <1>3, OpenLive
  <2>2. Live(batches') = Live(batches)
    BY <2>1 DEF LiveKept
  <2>3. ASSUME NEW b \in Live(batches)
        PROVE  batches'[b].runs = batches[b].runs /\ batches'[b].snapshot = batches[b].snapshot
    <3>1. PICK own : own # b
      <4>1. b \in Nat
        BY <1>1 DEF IdsOK, Live
      <4>2. b + 1 # b
        BY <4>1
      <4> QED BY <4>2
    <3> QED BY <2>1, <3>1 DEF LiveKept
  <2> QED BY <2>2, <2>3
<1>4. CASE ~Works(proc[e]) /\ ~OpenStaging(e)
  <2>1. UNCHANGED batches
    BY <1>4 DEF Enrich, Plan, Reuse, ProjectRetirement, CarryForward,
       PrepareProjects, StartProject, StageBatch, StageFileFailed, CompleteProject,
       FailProject, Checking, LoseBatch, StampEmpty, RefuseActivation,
       ProjectPublication, At, Works
  <2> QED BY <2>1
<1> QED BY <1>2, <1>3, <1>4

(* The publication of one watcher does not change while it stands.           *)
LEMMA LiveStands ==
    ASSUME PubInv, Next, NEW b \in DOMAIN batches \cap DOMAIN batches',
           batches[b].active, batches'[b].active
    PROVE  batches'[b].runs = batches[b].runs
<1>1. TableOK(batches, index.rows) /\ OneLive(batches) /\ IdsOK(batches)
  BY DEF PubInv, TableOK, IdsOK
<1>2. \A c \in DOMAIN batches : batches[c] \in Batches
  BY <1>1 DEF TableOK, BatchOK
<1>3. b \in Live(batches) /\ b \in Live(batches')
  BY DEF Live
<1>4. ASSUME NEW t, NEW u, b \in Live(u), u = Preserve(t) \/ u = Only(t, Live(t))
      PROVE  u[b] = t[b] /\ b \in Live(t)
  <2>1. Live(u) = Live(t) /\ \A c \in Live(t) : u[c] = t[c]
    <3>1. Live(t) \subseteq Live(t)
      OBVIOUS
    <3>2. Live(Only(t, Live(t))) = Live(t) /\ \A c \in Live(t) : Only(t, Live(t))[c] = t[c]
      BY ONLY <3>1, OnlyLive
    <3> QED BY <1>4, <3>2, PreserveLive
  <2> QED BY <1>4, <2>1
<1>5. \A ids : Deactivated(batches, ids)[b].runs = batches[b].runs
  BY <1>2 DEF Deactivated, Batches
<1>6. CASE Index
  <2>1. PICK kind \in {"preserve", "manual", "rebind"}, reset \in BOOLEAN :
        \E next \in Nexts(reset) : \E table, changed :
            /\ PublishIndex(kind, reset, next, table, changed)
            /\ \/ IndexMoves(kind, next, table, changed)
               \/ IndexDrops(kind, next, table, changed)
               \/ IndexLeaves(kind, reset, next, table, changed)
               \/ IndexClears(kind, reset, table)
    BY <1>6, IndexCases DEF IndexAs
  <2>2. PICK next \in Nexts(reset) : \E table, changed :
            /\ PublishIndex(kind, reset, next, table, changed)
            /\ \/ IndexMoves(kind, next, table, changed)
               \/ IndexDrops(kind, next, table, changed)
               \/ IndexLeaves(kind, reset, next, table, changed)
               \/ IndexClears(kind, reset, table)
    BY <2>1
  <2>3. PICK table, changed :
            /\ PublishIndex(kind, reset, next, table, changed)
            /\ \/ IndexMoves(kind, next, table, changed)
               \/ IndexDrops(kind, next, table, changed)
               \/ IndexLeaves(kind, reset, next, table, changed)
               \/ IndexClears(kind, reset, table)
    BY <2>2
  <2>4. batches' = table
    BY <2>3 DEF PublishIndex
  <2>5. CASE IndexMoves(kind, next, table, changed)
    <3>1. PICK c \in Bound : next.src = index.src /\ table = Kept(kind, Rebound(c, next))
      BY <2>5 DEF IndexMoves
    <3>2. PICK t : t = Rebound(c, next)
      OBVIOUS
    <3>3. /\ next \in Indexes /\ index.rows \in Nat /\ index.rows <= next.rows
      BY NextIndexOK
    <3>4. Live(t) = {NextId(batches)} /\ NextId(batches) \notin DOMAIN batches
      BY ONLY <1>1, <3>1, <3>2, <3>3, ReboundOK
    <3>5. b \in Live(t)
      BY <1>3, <1>4, <2>4, <3>1, <3>2 DEF Kept
    <3> QED BY <3>4, <3>5
  <2>6. CASE IndexDrops(kind, next, table, changed)
    <3>1. PICK lost : table = Preserve(Deactivated(batches, lost))
      BY <2>6 DEF IndexDrops
    <3> QED BY <1>3, <1>4, <1>5, <2>4, <3>1
  <2>7. CASE IndexLeaves(kind, reset, next, table, changed)
    <3>1. table = Preserve(batches)
      BY <2>7 DEF IndexLeaves
    <3> QED BY <1>3, <1>4, <2>4, <3>1
  <2>8. CASE IndexClears(kind, reset, table)
    BY <2>4, <2>8 DEF IndexClears
  <2> QED BY <2>3, <2>5, <2>6, <2>7, <2>8
<1>7. ASSUME NEW e \in Enrichers, Enrich(e)
      PROVE  batches'[b].runs = batches[b].runs
  <2>1. CASE CheckReuse(e)
    <3>1. PICK ids : batches' = Deactivated(batches, ids)
      BY <2>1 DEF CheckReuse
    <3> QED BY <1>5, <3>1
  <2>2. CASE Activate(e)
    <3>1. Live(batches') = {proc[e].batch} /\ Works(proc[e])
      BY <1>1, <2>2, ActivateLive DEF Activate, At, Works
    <3>2. proc[e].batch \notin Active
      BY <3>1, OwnBatch
    <3> QED BY <1>3, <3>1, <3>2 DEF Active, Live
  <2>3. CASE ~CheckReuse(e) /\ ~Activate(e)
    BY <1>3, <1>7, <2>3, LiveSame
  <2> QED BY <2>1, <2>2, <2>3
<1> QED BY <1>6, <1>7 DEF Next, Edit, Die

-----------------------------------------------------------------------------
(* The graph and the publication.                                            *)

(* A projection depends on the publication and the published index only.     *)
LEMMA SameProjection ==
    ASSUME NEW t, NEW u, Live(u) = Live(t),
           \A b \in Live(t) : u[b].runs = t[b].runs /\ u[b].snapshot = t[b].snapshot,
           NEW i, NEW j, j.src = i.src, j.rows = i.rows, Digest(j) = Digest(i), NEW s
    PROVE  Projection(u, j, s) = Projection(t, i, s)
<1>1. PICK T : T = {b \in DOMAIN t : t[b].active /\ t[b].snapshot = s}
  OBVIOUS
<1>2. PICK U : U = {b \in DOMAIN u : u[b].active /\ u[b].snapshot = s}
  OBVIOUS
<1>3. U = T /\ \A b \in T : b \in Live(t)
  BY <1>1, <1>2 DEF Live
<1>4. \A b \in T : Published(u, b) = Published(t, b)
  BY <1>3 DEF Published
<1>5. \A row : Projectable(row, j) <=> Projectable(row, i)
  BY DEF Projectable, TargetCurrent
<1>6. PICK F : F = UNION {Published(t, b) : b \in T}
  OBVIOUS
<1>7. F = UNION {Published(u, b) : b \in U}
  BY <1>3, <1>4, <1>6
<1>8. PICK G : G = {x \in F : Projectable(x[2], i)}
  OBVIOUS
<1>9. G = {x \in F : Projectable(x[2], j)}
  BY <1>5, <1>8
<1>10. Projection(t, i, s) = [digest |-> Digest(i), rows |-> i.rows, facts |-> G]
  BY <1>1, <1>6, <1>8 DEF Projection
<1>11. Projection(u, j, s) = [digest |-> Digest(j), rows |-> j.rows, facts |-> G]
  BY <1>2, <1>7, <1>9 DEF Projection
<1> QED BY <1>10, <1>11

Shown == graph = Projection(batches, index, Snapshot)

(* The graph shows the publication as long as neither changes.               *)
LEMMA ShownStays ==
    ASSUME Shown, UNCHANGED <<index, graph>>, Live(batches') = Live(batches),
           \A b \in Live(batches) : /\ batches'[b].runs = batches[b].runs
                                    /\ batches'[b].snapshot = batches[b].snapshot
    PROVE  Shown'
<1>1. PICK u : u = batches'
  OBVIOUS
<1>2. Projection(u, index, Snapshot) = Projection(batches, index, Snapshot)
  BY <1>1, SameProjection
<1>3. Shown' <=> graph = Projection(u, index, Snapshot)
  BY <1>1 DEF Shown, Snapshot
<1> QED BY <1>2, <1>3 DEF Shown

(* A rebuilt graph shows it,                                                 *)
LEMMA RebuiltShows ==
    ASSUME PubInv, NEW e \in Enrichers, proc[e].pc # "idle", Rebuild(e),
           UNCHANGED <<batches, index>>
    PROVE  Shown'
<1>1. proc[e].plan.snapshot = Snapshot
  BY ONLY PubInv, e \in Enrichers, proc[e].pc # "idle", AtWork
<1> QED BY <1>1 DEF Rebuild, Shown, Snapshot

(* and so does the graph an index leaves.                                    *)
LEMMA IndexShows ==
    ASSUME PubInv, Shown, Index
    PROVE  Shown'
<1>1. PICK kind \in {"preserve", "manual", "rebind"}, reset \in BOOLEAN :
        \E next \in Nexts(reset) : \E table, changed :
            /\ PublishIndex(kind, reset, next, table, changed)
            /\ \/ IndexMoves(kind, next, table, changed)
               \/ IndexDrops(kind, next, table, changed)
               \/ IndexLeaves(kind, reset, next, table, changed)
               \/ IndexClears(kind, reset, table)
  BY IndexCases DEF IndexAs
<1>2. PICK next \in Nexts(reset) : \E table, changed :
            /\ PublishIndex(kind, reset, next, table, changed)
            /\ \/ IndexMoves(kind, next, table, changed)
               \/ IndexDrops(kind, next, table, changed)
               \/ IndexLeaves(kind, reset, next, table, changed)
               \/ IndexClears(kind, reset, table)
  BY <1>1
<1>3. PICK table, changed :
            /\ PublishIndex(kind, reset, next, table, changed)
            /\ \/ IndexMoves(kind, next, table, changed)
               \/ IndexDrops(kind, next, table, changed)
               \/ IndexLeaves(kind, reset, next, table, changed)
               \/ IndexClears(kind, reset, table)
  BY <1>2
<1>4. /\ index' = next /\ batches' = table
      /\ graph' = IF SkipsProjection(reset, next, changed) THEN graph
                  ELSE Projection(table, next, Digest(next))
  BY <1>3 DEF PublishIndex
<1>5. CASE ~SkipsProjection(reset, next, changed)
  BY <1>4, <1>5 DEF Shown, Snapshot
<1>6. CASE SkipsProjection(reset, next, changed)
  <2>1. ~reset /\ ~changed /\ Digest(next) = Snapshot
    BY <1>6 DEF SkipsProjection
  <2>2. next.src = index.src /\ next.rows = index.rows
    BY <1>6, SkipKeepsRows
  <2>3. Live(table) = Live(batches) /\ \A b \in Live(batches) :
           table[b].runs = batches[b].runs /\ table[b].snapshot = batches[b].snapshot
    <3>1. CASE IndexMoves(kind, next, table, changed) \/ IndexClears(kind, reset, table)
      BY <2>1, <3>1 DEF IndexMoves, IndexClears
    <3>2. CASE IndexLeaves(kind, reset, next, table, changed)
      BY <3>2, PreserveLive DEF IndexLeaves
    <3>3. CASE IndexDrops(kind, next, table, changed)
      <4>1. table = Preserve(Deactivated(batches, {}))
        BY <2>1, <3>3 DEF IndexDrops
      <4>2. PICK t : t = Deactivated(batches, {})
        OBVIOUS
      <4>3. Live(t) = Live(batches)
        <5>1. OneLive(batches)
          BY DEF PubInv
        <5>2. Live(t) = Live(batches) \ {}
          BY ONLY <4>2, <5>1, DeactivatedLive
        <5> QED BY <5>2
      <4>4. \A b \in DOMAIN batches : batches[b] \in Batches
        BY DEF PubInv, TableOK, BatchOK
      <4>5. \A b \in DOMAIN batches :
               t[b].runs = batches[b].runs /\ t[b].snapshot = batches[b].snapshot
        BY <4>2, <4>4 DEF Deactivated, Batches
      <4>6. Live(table) = Live(t) /\ \A b \in Live(t) : table[b] = t[b]
        BY <4>1, <4>2, PreserveLive
      <4> QED BY <4>3, <4>5, <4>6 DEF Live
    <3> QED BY <1>3, <3>1, <3>2, <3>3
  <2>4. Projection(table, next, Snapshot) = Projection(batches, index, Snapshot)
    <3>1. Digest(next) = Digest(index)
      BY <2>1 DEF Snapshot
    <3> QED BY ONLY <2>2, <2>3, <3>1, SameProjection
  <2>5. Shown' <=> graph' = Projection(table, next, Digest(next))
    BY <1>4 DEF Shown, Snapshot
  <2> QED BY <1>4, <1>6, <2>1, <2>4, <2>5 DEF Shown
<1> QED BY <1>5, <1>6

(* With one watcher at a time that is not torn, the graph is current when no *)
(* publication is being projected.                                           *)
LEMMA ProjectionStep ==
    ASSUME Alone, TornActivation = FALSE, PubInv, ProjectionCurrent, [Next]_vars
    PROVE  ProjectionCurrent'
<1>1. ASSUME NEW e \in Enrichers
      PROVE  Quiet <=> proc[e].pc \notin {"retire", "project"}
  BY DEF Quiet, Alone
<1>2. CASE UNCHANGED <<batches, index, graph, proc>>
  BY <1>2 DEF ProjectionCurrent, Quiet, Snapshot
<1>3. CASE Index
  <2>1. \A e \in Enrichers : proc[e].pc = "idle"
    <3>1. PICK kind, reset, next, table, changed : PublishIndex(kind, reset, next, table, changed)
      BY <1>3, IndexCases DEF IndexAs
    <3> QED BY <3>1 DEF PublishIndex, Alone, At
  <2>2. Quiet
    BY <2>1 DEF Quiet
  <2>3. Shown
    BY <2>2 DEF Shown, ProjectionCurrent
  <2> QED BY <1>3, <2>3, IndexShows DEF Shown, ProjectionCurrent
<1>4. ASSUME NEW e \in Enrichers, Enrich(e) \/ Die(e), Quiet'
      PROVE  Shown'
  <2>1. CASE ProjectRetirement(e) \/ ProjectPublication(e)
    <3>1. proc[e].pc # "idle" /\ Rebuild(e) /\ UNCHANGED <<batches, index>>
      BY <2>1 DEF ProjectRetirement, ProjectPublication, At
    <3> QED BY ONLY <3>1, RebuiltShows, PubInv, e \in Enrichers
  <2>2. CASE Activate(e)
    <3>1. Goto(e, "project")
      BY <2>2 DEF Activate
    <3>2. proc'[e].pc = "project"
      <4>1. proc[e].pc # "idle"
        BY <2>2 DEF Activate, At
      <4>2. PlannedOK(proc[e], index, disk, spent.edits)
        BY ONLY <4>1, AtWork, PubInv, e \in Enrichers
      <4>3. PICK y : y = [proc[e] EXCEPT !.pc = "project"]
        OBVIOUS
      <4>4. proc'[e] = y
        BY <3>1, <4>3, StepTo DEF Goto
      <4>5. y.pc = "project"
        BY <4>2, <4>3 DEF PlannedOK, EnricherFields
      <4> QED BY <4>4, <4>5
    <3> QED BY <1>4, <3>2 DEF Quiet
  <2>3. CASE ~ProjectRetirement(e) /\ ~ProjectPublication(e) /\ ~Activate(e)
    <3>1. proc[e].pc \notin {"retire", "project"}
      BY <1>4, <2>3 DEF Enrich, Die, Plan, Reuse, CheckReuse, OpenStaging, CarryForward,
         PrepareProjects, StartProject, StageBatch, StageFileFailed, CompleteProject,
         FailProject, Checking, LoseBatch, StampEmpty, RefuseActivation, At
    <3>2. Shown
      BY <1>1, <3>1 DEF Shown, ProjectionCurrent
    <3>3. UNCHANGED <<index, graph>>
      BY <1>4, <2>3 DEF Enrich, Die, Plan, Reuse, CheckReuse, OpenStaging, CarryForward,
         PrepareProjects, StartProject, StageBatch, StageFileFailed, CompleteProject,
         FailProject, LoseBatch, StampEmpty, RefuseActivation
    <3>4. /\ Live(batches') = Live(batches)
          /\ \A b \in Live(batches) : /\ batches'[b].runs = batches[b].runs
                                      /\ batches'[b].snapshot = batches[b].snapshot
      <4>1. CASE Die(e)
        BY <4>1 DEF Die
      <4>2. CASE Enrich(e) /\ ~CheckReuse(e)
        BY <2>3, <4>2, LiveSame
      <4>3. CASE CheckReuse(e)
        <5>1. PICK stale : /\ batches' = Deactivated(batches, stale)
                           /\ Goto(e, IF stale = {} THEN "open" ELSE "retire")
          BY <4>3 DEF CheckReuse
        <5>2. stale = {}
          <6>1. proc[e].pc # "idle"
            BY <4>3 DEF CheckReuse, At
          <6>2. PlannedOK(proc[e], index, disk, spent.edits)
            BY ONLY <6>1, AtWork, PubInv, e \in Enrichers
          <6>3. ASSUME stale # {} PROVE FALSE
            <7>1. PICK y : y = [proc[e] EXCEPT !.pc = "retire"]
              OBVIOUS
            <7>2. proc'[e] = y
              BY <5>1, <6>3, <7>1, StepTo DEF Goto
            <7>3. y.pc = "retire"
              BY <6>2, <7>1 DEF PlannedOK, EnricherFields
            <7> QED BY <1>4, <7>2, <7>3 DEF Quiet
          <6> QED BY <6>3
        <5>3. \A b \in DOMAIN batches : batches[b] \in Batches
          BY DEF PubInv, TableOK, BatchOK
        <5>4. Live(batches') = Live(batches)
          <6>1. OneLive(batches)
            BY DEF PubInv
          <6>2. Live(batches') = Live(batches) \ {}
            BY ONLY <5>1, <5>2, <6>1, DeactivatedLive
          <6> QED BY <6>2
        <5>5. \A b \in DOMAIN batches : /\ batches'[b].runs = batches[b].runs
                                        /\ batches'[b].snapshot = batches[b].snapshot
          BY <5>1, <5>3 DEF Deactivated, Batches
        <5> QED BY <5>4, <5>5 DEF Live
      <4> QED BY <1>4, <4>1, <4>2, <4>3
    <3> QED BY <3>2, <3>3, <3>4, ShownStays
  <2> QED BY <2>1, <2>2, <2>3
<1>5. CASE Edit
  BY <1>2, <1>5 DEF Edit
<1>6. CASE UNCHANGED vars
  BY <1>2, <1>6 DEF vars
<1> QED BY <1>3, <1>4, <1>5, <1>6 DEF Next, ProjectionCurrent, Shown

-----------------------------------------------------------------------------
(* The invariant has the types,                                              *)
LEMMA PubInvTypes ==
    ASSUME PubInv
    PROVE  PublicationTypeOK
<1>1. /\ Digest(disk) \in Digests /\ disk.conf \in [Projects -> Versions]
      /\ disk.ext \in [Projects -> Versions]
  BY DEF PubInv, Disks, Digest, Digests
<1>2. Snapshot \in Digests /\ index.rows \in Nat
  BY DEF PubInv, Indexes, Snapshot, Digest, Digests
<1>3. ASSUME NEW b \in DOMAIN batches
      PROVE  /\ batches[b].snapshot \in Digests /\ batches[b].plan \in Plans
             /\ batches[b].active \in BOOLEAN /\ batches[b].stamped \in BOOLEAN
             /\ batches[b].runs \in [Projects -> Runs]
             /\ \A p \in Projects : \A r, s \in batches[b].runs[p].cover :
                   r.file = s.file => r = s
  <2>1. BatchOK(batches[b], index.rows)
    BY DEF PubInv, TableOK
  <2> QED BY <2>1, BatchTypes DEF BatchOK, RunOK, CoverOK
<1>4. OnePublication
  BY DEF PubInv, OneLive, Live, OnePublication, Active
<1>5. \A e \in Enrichers :
         proc[e].pc \in {"idle", "reuse", "retire", "open", "carry", "prepare",
                         "check", "project"}
  BY DEF PubInv, EnricherOK, PlannedOK
<1> QED BY <1>1, <1>2, <1>3, <1>4, <1>5 DEF PublicationTypeOK

(* and the answers follow their inputs.                                      *)
LEMMA PubInvAnswers ==
    ASSUME PubInv
    PROVE  AnswersFollowInputs
<1> SUFFICES ASSUME NEW b \in Active, NEW p \in Projects,
                    NEW r \in Healthy(batches[b].runs[p].cover),
                    Publishable(batches[b].runs[p]), batches[b].runs[p].kind = "checked",
                    NEW c \in Configs(batches[b].runs[p])
             PROVE  (r.status = "resolved") <=> <<p, c[3]>> \notin Unanswered
  BY DEF AnswersFollowInputs
<1>1. RunOK(p, batches[b].runs[p])
  BY DEF PubInv, TableOK, BatchOK, Active
<1>2. Follows(p, r.fp, r) /\ r.fp = batches[b].runs[p].inputs
  BY <1>1 DEF RunOK, InputsOK
<1> QED BY <1>2 DEF Follows, Configs

(* The steps of one watcher, from an invariant that holds throughout.        *)
LEMMA WatcherInvariant ==
    ASSUME Alone
    PROVE  Spec => []PubInv
<1>1. Init => PubInv
  BY PubInit
<1>2. PubInv /\ [Next]_vars => PubInv'
  BY PubInductive
<1> QED BY <1>1, <1>2, PTL DEF Spec

(* With one watcher at a time, whatever edits, failures and crashes meet it: *)
(* every variable keeps its type, every answer of a published run follows    *)
(* from the config recorded with it, and, unless a process died between      *)
(* activation and projection, the graph shows the publication.               *)
THEOREM PublicationIsSound ==
    ASSUME Alone, TornActivation = FALSE
    PROVE  Spec => []PublicationSound
<1>1. Init => PubInv /\ ProjectionCurrent
  BY PubInit DEF Init, ProjectionCurrent
<1>2. (PubInv /\ ProjectionCurrent) /\ [Next]_vars => (PubInv /\ ProjectionCurrent)'
  BY PubInductive, ProjectionStep
<1>3. PubInv /\ ProjectionCurrent => PublicationSound
  BY PubInvTypes, PubInvAnswers DEF PublicationSound
<1> QED BY <1>1, <1>2, <1>3, PTL DEF Spec

(* A run that neither a failure nor an edit disturbed is never refused its   *)
(* publication, whatever the crashed runs before it left staged.             *)
THEOREM UndisturbedIsPublished ==
    ASSUME Alone, Projects # {}
    PROVE  Spec => UndisturbedPublishes
<1>1. PubInv /\ [Next]_vars =>
        [\A e \in Enrichers :
           RefuseActivation(e) => proc[e].failed \/ spent.edits # proc[e].since]_vars
  <2> SUFFICES ASSUME PubInv, NEW e \in Enrichers, RefuseActivation(e),
                      ~proc[e].failed, spent.edits = proc[e].since
               PROVE  FALSE
    OBVIOUS
  <2>1. At(e, "check") /\ proc[e].jobs = {} /\ ~Activatable(e)
    BY DEF RefuseActivation
  <2>2. proc[e].failed = FALSE
    <3>1. proc[e].pc # "idle"
      BY <2>1 DEF At
    <3>2. PlannedOK(proc[e], index, disk, spent.edits)
      BY ONLY <3>1, AtWork, PubInv, e \in Enrichers
    <3>3. proc[e].failed \in BOOLEAN
      BY <3>2 DEF PlannedOK
    <3> QED BY <3>3
  <2> QED BY <2>1, <2>2, UndisturbedAccepted
<1> QED BY <1>1, WatcherInvariant, PTL DEF Spec, UndisturbedPublishes

(* What a watcher carries, clones or resumes from earlier runs reaches the   *)
(* publication only as far as it is of the index and of the external inputs  *)
(* on disk; the publication does not change while it stands; and a source to *)
(* carry from is kept by a refresh and by a run that opens a batch aside.    *)
THEOREM CarryIsSound ==
    ASSUME Alone
    PROVE  Spec => CarriesSoundly
<1>1. PubInv /\ [Next]_vars =>
        [\A e \in Enrichers : Activate(e) =>
           \A x \in Published(batches', proc[e].batch) :
              Projectable(x[2], index) /\ AllHold(disk, External(x[2].fp))]_vars
  BY ActivatesCurrent
<1>2. PubInv /\ [Next]_vars =>
        [\A b \in DOMAIN batches \cap DOMAIN batches' :
           batches[b].active /\ batches'[b].active => batches'[b].runs = batches[b].runs]_vars
  BY LiveStands
<1>3. PubInv /\ [Next]_vars =>
        [(IndexPreserving \/ IndexRebinding \/ \E e \in Enrichers : OpensAside(e)) =>
           ((\E b \in DOMAIN batches : CarrySource(batches[b])) =>
              (\E b \in DOMAIN batches' : CarrySource(batches'[b])))]_vars
  <2> SUFFICES ASSUME PubInv,
                      IndexPreserving \/ IndexRebinding \/ \E e \in Enrichers : OpensAside(e),
                      \E b \in DOMAIN batches : CarrySource(batches[b])
               PROVE  \E b \in DOMAIN batches' : CarrySource(batches'[b])
    OBVIOUS
  <2>1. IdsOK(batches) /\ \A b \in DOMAIN batches : batches[b] \in Batches
    BY DEF PubInv, TableOK, BatchOK, IdsOK
  <2>2. \A b \in DOMAIN batches : "runs" \in DOMAIN batches[b]
    BY <2>1 DEF Batches
  <2>3. Sources(batches) # {}
    BY DEF Sources
  <2>4. Sources(batches') # {}
    BY <2>1, <2>2, <2>3, SourceKept
  <2> QED BY <2>4 DEF Sources
<1>4. Spec => ActivationCurrent
  BY <1>1, WatcherInvariant, PTL DEF Spec, ActivationCurrent
<1>5. Spec => ActiveImmutable
  BY <1>2, WatcherInvariant, PTL DEF Spec, ActiveImmutable
<1>6. Spec => CarrySourceKept
  BY <1>3, WatcherInvariant, PTL DEF Spec, CarrySourceKept
<1> QED BY <1>4, <1>5, <1>6 DEF CarriesSoundly

(* A run that ends because the publication answers it already leaves a graph *)
(* with all of the publication's facts.                                      *)
THEOREM ReuseIsServed ==
    ASSUME Alone, TornActivation = FALSE
    PROVE  Spec => ReuseServesFacts
<1>1. PubInv /\ ProjectionCurrent /\ [Next]_vars =>
        [\A e \in Enrichers : ReusesPublication(e) =>
           \A b \in Bound : Published(batches, b) \subseteq graph.facts]_vars
  <2> SUFFICES ASSUME PubInv, ProjectionCurrent, NEW e \in Enrichers, ReusesPublication(e),
                      NEW b \in Bound, NEW x \in Published(batches, b)
               PROVE  x \in graph.facts
    OBVIOUS
  <2>1. proc[e].pc = "reuse"
    BY DEF ReusesPublication, Reuse, At
  <2>2. Quiet
    BY <2>1 DEF Alone, Quiet
  <2>3. Shown
    BY <2>2 DEF ProjectionCurrent, Shown
  <2>4. PICK d : Reusable(e, d) \cap Active # {}
    BY DEF ReusesPublication
  <2>5. b \in Reusable(e, d) /\ b \in DOMAIN batches /\ batches[b].snapshot = Snapshot
        /\ batches[b].active
    BY <2>4 DEF PubInv, OneLive, Live, Bound, Active
  <2>6. batches[b].plan = proc[e].plan
    BY <2>5 DEF Reusable, SamePlan
  <2>7. proc[e].plan.rows = index.rows
    <3>1. proc[e].pc # "idle"
      BY <2>1
    <3> QED BY ONLY <3>1, AtWork, PubInv, e \in Enrichers
  <2>8. PICK p \in Projects : \E r \in batches[b].runs[p].cover : Fact(r) /\ x = <<p, r>>
    BY DEF Published
  <2>9. PICK r \in batches[b].runs[p].cover : Fact(r) /\ x = <<p, r>>
    BY <2>8
  <2>10. RowOK(r, batches[b], index.rows)
    BY <2>5 DEF PubInv, TableOK, BatchOK
  <2>11. Projectable(r, index)
    BY <2>5, <2>6, <2>7, <2>9, <2>10 DEF RowOK, Projectable, TargetCurrent, Snapshot, Digest
  <2>12. x \in Projection(batches, index, Snapshot).facts
    BY <2>5, <2>9, <2>11 DEF Projection
  <2> QED BY <2>3, <2>12 DEF Shown
<1>2. Init => PubInv /\ ProjectionCurrent
  BY PubInit DEF Init, ProjectionCurrent
<1>3. (PubInv /\ ProjectionCurrent) /\ [Next]_vars => (PubInv /\ ProjectionCurrent)'
  BY PubInductive, ProjectionStep
<1> QED BY <1>1, <1>2, <1>3, PTL DEF Spec, ReuseServesFacts

-----------------------------------------------------------------------------
(* Retention by an index.                                                    *)

(* What a rebound publication publishes.                                     *)
LEMMA MovedPublishes ==
    ASSUME PubInv, NEW b \in Bound, NEW next \in Indexes, index.rows <= next.rows,
           next.src = index.src, Remappable(b, next),
           NEW u, NEW id, u[id] = Successor(b, next)
    PROVE  /\ \A x \in Published(u, id) :
                 /\ Projectable(x[2], next)
                 /\ x[1] \in Projects /\ Publishable(batches[b].runs[x[1]])
           /\ \A x \in Published(batches, b) : \E y \in Published(u, id) : Edge(y) = Edge(x)
           /\ u[id].snapshot = Digest(next)
           /\ \A p \in Projects : u[id].runs[p].inputs = batches[b].runs[p].inputs
           /\ \A p \in Projects : batches[b].runs[p].kind = "carried" =>
                                     u[id].runs[p].kind = "carried"
<1>1. /\ b \in DOMAIN batches /\ batches[b].active
      /\ batches[b].snapshot = Snapshot /\ batches[b].snapshot[1] = next.src
  BY DEF Bound, Active, Snapshot, Digest
<1>2. BatchOK(batches[b], index.rows) /\ index.rows \in Nat /\ next.rows \in Nat
  BY <1>1 DEF PubInv, TableOK, Indexes
<1>3. PICK z : z = Successor(b, next)
  OBVIOUS
<1>4. /\ z.snapshot = Digest(next)
      /\ \A p \in Projects : z.runs[p] = ReboundRun(batches[b].runs[p], next)
  BY <1>1, <1>2, <1>3, SuccessorOK
<1>5. ASSUME NEW p \in Projects
      PROVE  /\ z.runs[p].status = batches[b].runs[p].status
             /\ z.runs[p].inputs = batches[b].runs[p].inputs
             /\ batches[b].runs[p].kind = "carried" => z.runs[p].kind = "carried"
             /\ \A x \in z.runs[p].cover : \E r \in batches[b].runs[p].cover :
                   x.file = r.file /\ x.src = r.src /\ x.target = r.target /\ x.rows = next.rows
             /\ \A r \in batches[b].runs[p].cover : \E x \in z.runs[p].cover :
                   x.file = r.file /\ x.target = r.target
  <2>1. PICK run : run = batches[b].runs[p]
    OBVIOUS
  <2>2. run \in Runs /\ RunOK(p, run)
    BY <1>2, <2>1, BatchTypes DEF BatchOK
  <2>3. PICK y : y = ReboundRun(run, next)
    OBVIOUS
  <2>4. /\ y.status = run.status /\ y.inputs = run.inputs
        /\ run.status = "completed" => y.kind = "carried"
        /\ \A x \in y.cover : \E r \in run.cover :
              x.file = r.file /\ x.src = r.src /\ x.target = r.target /\ x.rows = next.rows
        /\ \A r \in run.cover : \E x \in y.cover : x.file = r.file /\ x.target = r.target
    BY ONLY <1>2, <2>2, <2>3, ReboundRunOK, p \in Projects
  <2>5. run.kind = "carried" => run.status = "completed"
    BY <2>2 DEF RunOK, InputsOK
  <2>6. z.runs[p] = y
    BY <1>4, <2>1, <2>3
  <2> QED BY <2>1, <2>4, <2>5, <2>6
<1>6. ASSUME NEW x \in Published(u, id)
      PROVE  /\ Projectable(x[2], next)
             /\ x[1] \in Projects /\ Publishable(batches[b].runs[x[1]])
  <2>1. PICK p \in Projects : /\ Publishable(z.runs[p])
                              /\ \E r \in z.runs[p].cover : Fact(r) /\ x = <<p, r>>
    BY <1>3 DEF Published
  <2>2. PICK y \in z.runs[p].cover : Fact(y) /\ x = <<p, y>>
    BY <2>1
  <2>3. PICK r \in batches[b].runs[p].cover :
           y.file = r.file /\ y.src = r.src /\ y.target = r.target /\ y.rows = next.rows
    BY <1>5
  <2>4. RowOK(r, batches[b], index.rows) /\ Fact(r)
    BY <1>2, <2>2, <2>3 DEF BatchOK, Fact
  <2>5. Projectable(y, next)
    BY <1>1, <2>3, <2>4 DEF Projectable, TargetCurrent, RowOK
  <2> QED BY <1>5, <2>1, <2>2, <2>5 DEF Publishable
<1>7. ASSUME NEW x \in Published(batches, b)
      PROVE  \E y \in Published(u, id) : Edge(y) = Edge(x)
  <2>1. PICK p \in Projects : /\ Publishable(batches[b].runs[p])
                              /\ \E r \in batches[b].runs[p].cover : Fact(r) /\ x = <<p, r>>
    BY DEF Published
  <2>2. PICK r \in batches[b].runs[p].cover : Fact(r) /\ x = <<p, r>>
    BY <2>1
  <2>3. PICK y \in z.runs[p].cover : y.file = r.file /\ y.target = r.target
    BY <1>5
  <2>4. Publishable(z.runs[p]) /\ Fact(y)
    BY <1>5, <2>1, <2>2, <2>3 DEF Publishable, Fact
  <2>5. <<p, y>> \in Published(u, id)
    BY <1>3, <2>4 DEF Published
  <2> QED BY <2>2, <2>3, <2>5 DEF Edge
<1> QED BY <1>3, <1>4, <1>5, <1>6, <1>7

(* The inputs of a publication that may be retained.                         *)
LEMMA RetainedFresh ==
    ASSUME PubInv, CanRebind, NEW b \in Bound, NEW p \in Projects,
           Publishable(batches[b].runs[p])
    PROVE  InputsFresh(batches[b].runs[p], disk)
<1>1. PICK c \in Bound : InputsStand(c)
  BY DEF CanRebind
<1>2. b = c
  BY DEF PubInv, OneLive, Live, Bound, Active
<1> QED BY <1>1, <1>2 DEF InputsStand

(* What a manual index or a rebinding refresh can do.                        *)
LEMMA ManualAndRebind ==
    ASSUME NEW kind \in {"manual", "rebind"}, IndexValidating(kind)
    PROVE  \E reset \in BOOLEAN : \E next \in Nexts(reset) : \E table, changed :
              /\ PublishIndex(kind, reset, next, table, changed)
              /\ \/ IndexMoves(kind, next, table, changed)
                 \/ IndexDrops(kind, next, table, changed)
                 \/ IndexLeaves(kind, reset, next, table, changed)
                 \/ IndexClears(kind, reset, table)
BY ValidatingAs DEF IndexAs

(* What an index that moves the publication leaves.                          *)
LEMMA MovedTable ==
    ASSUME PubInv, NEW kind, NEW reset \in BOOLEAN, NEW next \in Nexts(reset), NEW table,
           NEW b \in Bound, next.src = index.src, table = Kept(kind, Rebound(b, next))
    PROVE  \E id \in DOMAIN table : Live(table) = {id} /\ table[id] = Successor(b, next)
<1>1. /\ next \in Indexes /\ index.rows \in Nat /\ index.rows <= next.rows
      /\ TableOK(batches, index.rows) /\ OneLive(batches)
  BY NextIndexOK DEF PubInv
<1>2. PICK t : t = Rebound(b, next)
  OBVIOUS
<1>3. PICK id : id = NextId(batches)
  OBVIOUS
<1>4. id \in DOMAIN t /\ t[id] = Successor(b, next) /\ Live(t) = {id}
  BY ONLY <1>1, <1>2, <1>3, next.src = index.src, b \in Bound, ReboundOK
<1>5. Live(table) = Live(t) /\ \A c \in Live(t) : table[c] = t[c]
  <2>1. Live(t) \subseteq Live(t)
    OBVIOUS
  <2>2. CASE kind = "manual"
    <3>1. table = Only(t, Live(t))
      BY <1>2, <2>2 DEF Kept
    <3> QED BY ONLY <2>1, <3>1, OnlyLive
  <2>3. CASE kind # "manual"
    <3>1. table = Preserve(t)
      BY <1>2, <2>3 DEF Kept
    <3> QED BY ONLY <3>1, PreserveLive
  <2> QED BY <2>2, <2>3
<1> QED BY <1>4, <1>5 DEF Live

(* A manual index keeps nothing but the publication.                         *)
LEMMA ManualTable ==
    ASSUME NEW t, NEW table, table = Kept("manual", t)
    PROVE  DOMAIN table \subseteq Live(table)
<1>1. table = Only(t, Live(t))
  BY DEF Kept
<1>2. Live(t) \subseteq Live(t)
  OBVIOUS
<1>3. Live(table) = Live(t) /\ DOMAIN table = DOMAIN t \cap Live(t)
  BY ONLY <1>1, <1>2, OnlyLive
<1> QED BY <1>3

(* The edges such an index leaves stand on the inputs of today.              *)
LEMMA ValidatedIsFresh ==
    ASSUME PubInv, Shown, NEW kind \in {"manual", "rebind"}, IndexValidating(kind),
           kind = "rebind" => NoneBehind,
           NEW x \in graph'.facts
    PROVE  \E b \in DOMAIN batches' :
              batches'[b].active /\ InputsFresh(batches'[b].runs[x[1]], disk)
<1>1. PICK reset \in BOOLEAN : \E next \in Nexts(reset) : \E table, changed :
              /\ PublishIndex(kind, reset, next, table, changed)
              /\ \/ IndexMoves(kind, next, table, changed)
                 \/ IndexDrops(kind, next, table, changed)
                 \/ IndexLeaves(kind, reset, next, table, changed)
                 \/ IndexClears(kind, reset, table)
  BY ManualAndRebind
<1>2. PICK next \in Nexts(reset) : \E table, changed :
              /\ PublishIndex(kind, reset, next, table, changed)
              /\ \/ IndexMoves(kind, next, table, changed)
                 \/ IndexDrops(kind, next, table, changed)
                 \/ IndexLeaves(kind, reset, next, table, changed)
                 \/ IndexClears(kind, reset, table)
  BY <1>1
<1>3. PICK table, changed :
              /\ PublishIndex(kind, reset, next, table, changed)
              /\ \/ IndexMoves(kind, next, table, changed)
                 \/ IndexDrops(kind, next, table, changed)
                 \/ IndexLeaves(kind, reset, next, table, changed)
                 \/ IndexClears(kind, reset, table)
  BY <1>2
<1>4. /\ index' = next /\ batches' = table
      /\ graph' = IF SkipsProjection(reset, next, changed) THEN graph
                  ELSE Projection(table, next, Digest(next))
  BY <1>3 DEF PublishIndex
<1>5. ASSUME NEW t, NEW i, NEW s, NEW y \in Projection(t, i, s).facts
      PROVE  \E b \in Live(t) : t[b].snapshot = s /\ y \in Published(t, b)
  BY DEF Projection, Live
<1>6. ASSUME NEW b \in Bound, x \in Published(batches, b), CanRebind
      PROVE  InputsFresh(batches[b].runs[x[1]], disk)
  <2>1. PICK p \in Projects : Publishable(batches[b].runs[p]) /\ x[1] = p
    BY <1>6 DEF Published
  <2> QED BY <1>6, <2>1, RetainedFresh
<1>7. CASE IndexMoves(kind, next, table, changed)
  <2>1. PICK b \in Bound : Remappable(b, next) /\ table = Kept(kind, Rebound(b, next))
    BY <1>7 DEF IndexMoves
  <2>2. changed /\ CanRebind /\ next.src = index.src
    BY <1>7 DEF IndexMoves
  <2>3. PICK id \in DOMAIN table : Live(table) = {id} /\ table[id] = Successor(b, next)
    BY <2>1, <2>2, MovedTable
  <2>4. x \in Published(table, id)
    BY <1>4, <1>5, <2>2, <2>3 DEF SkipsProjection
  <2>5. next \in Indexes /\ index.rows <= next.rows
    BY NextIndexOK
  <2>6. /\ x[1] \in Projects /\ Publishable(batches[b].runs[x[1]])
        /\ table[id].runs[x[1]].inputs = batches[b].runs[x[1]].inputs
        /\ batches[b].runs[x[1]].kind = "carried" => table[id].runs[x[1]].kind = "carried"
    BY <2>1, <2>2, <2>3, <2>4, <2>5, MovedPublishes
  <2>7. InputsFresh(batches[b].runs[x[1]], disk)
    BY <2>2, <2>6, RetainedFresh
  <2>8. InputsFresh(table[id].runs[x[1]], disk)
    BY <2>6, <2>7 DEF InputsFresh
  <2> QED BY <1>4, <2>3, <2>8 DEF Live
<1>8. ASSUME SkipsProjection(reset, next, changed)
      PROVE  \E b \in Bound : x \in Published(batches, b)
  <2>1. x \in Projection(batches, index, Snapshot).facts
    BY <1>4, <1>8 DEF Shown
  <2> QED BY <1>5, <2>1 DEF Bound, Active, Live
<1>9. CASE IndexLeaves(kind, reset, next, table, changed)
  <2>1. /\ table = Preserve(batches) /\ CanRebind
        /\ SkipsProjection(reset, next, changed)
    BY <1>9 DEF IndexLeaves, SkipsProjection
  <2>2. PICK b \in Bound : x \in Published(batches, b)
    BY <1>8, <2>1
  <2>3. InputsFresh(batches[b].runs[x[1]], disk)
    BY <1>6, <2>1, <2>2
  <2>4. b \in Live(table) /\ table[b] = batches[b]
    BY <2>1, PreserveLive DEF Bound, Active, Live
  <2> QED BY <1>4, <2>3, <2>4 DEF Live
<1>10. CASE IndexClears(kind, reset, table)
  <2>1. x \in Projection(<<>>, next, Digest(next)).facts
    BY <1>4, <1>10 DEF IndexClears, SkipsProjection
  <2> QED BY <1>5, <2>1 DEF Live
<1>11. CASE IndexDrops(kind, next, table, changed)
  <2>1. PICK lost \in {{}, Bound} :
          /\ table = Preserve(Deactivated(batches, lost)) /\ (changed <=> lost # {})
          /\ Digest(next) = Snapshot => lost = Bound
    BY <1>11 DEF IndexDrops
  <2>2. Active = Live(batches) /\ Live(batches) \subseteq Bound /\ Bound \subseteq Live(batches)
    BY <1>11 DEF IndexDrops, NoneBehind, Active, Live, Bound
  <2>3. PICK t : t = Deactivated(batches, lost)
    OBVIOUS
  <2>4. OneLive(batches)
    BY DEF PubInv
  <2>5. Live(t) = Live(batches) \ lost
    BY ONLY <2>3, <2>4, DeactivatedLive
  <2>6. Live(table) = Live(t) /\ \A b \in Live(t) : table[b] = t[b]
    BY <2>1, <2>3, PreserveLive
  <2>7. CASE Digest(next) = Snapshot
    <3>1. Live(table) = {}
      BY <2>1, <2>2, <2>5, <2>6, <2>7
    <3>2. SkipsProjection(reset, next, changed)
      BY <1>4, <1>5, <3>1
    <3>3. Bound # {}
      BY <1>8, <3>2
    <3>4. changed
      BY <2>1, <2>7, <3>3
    <3> QED BY <3>2, <3>4 DEF SkipsProjection
  <2>8. CASE Digest(next) # Snapshot
    <3>1. ~SkipsProjection(reset, next, changed)
      BY <2>8 DEF SkipsProjection
    <3>2. PICK b \in Live(table) : table[b].snapshot = Digest(next)
      BY <1>4, <1>5, <3>1
    <3>3. b \in Bound /\ table[b] = t[b]
      BY <2>2, <2>5, <2>6, <3>2
    <3>4. t[b].snapshot = batches[b].snapshot
      <4>1. batches[b] \in Batches
        BY <3>3 DEF PubInv, TableOK, BatchOK, Bound, Active
      <4> QED BY <2>3, <3>3, <4>1 DEF Deactivated, Batches, Bound, Active
    <3> QED BY <2>8, <3>2, <3>3, <3>4 DEF Bound
  <2> QED BY <2>7, <2>8
<1> QED BY <1>3, <1>7, <1>9, <1>10, <1>11

(* A manual index that leaves a publication leaves all of its edges.         *)
LEMMA ManualKeeps ==
    ASSUME PubInv, IndexManually, batches' # <<>>, Shown
    PROVE  /\ \A b \in DOMAIN batches' : batches'[b].snapshot = Digest(index')
           /\ UNION {Published(batches', b) : b \in DOMAIN batches'} = graph'.facts
           /\ {Edge(x) : x \in graph.facts} \subseteq {Edge(x) : x \in graph'.facts}
<1>1. PICK reset \in BOOLEAN : \E next \in Nexts(reset) : \E table, changed :
              /\ PublishIndex("manual", reset, next, table, changed)
              /\ \/ IndexMoves("manual", next, table, changed)
                 \/ IndexClears("manual", reset, table)
  BY ManualAndRebind DEF IndexManually, IndexDrops, IndexLeaves
<1>2. PICK next \in Nexts(reset) : \E table, changed :
              /\ PublishIndex("manual", reset, next, table, changed)
              /\ \/ IndexMoves("manual", next, table, changed)
                 \/ IndexClears("manual", reset, table)
  BY <1>1
<1>3. PICK table, changed :
              /\ PublishIndex("manual", reset, next, table, changed)
              /\ \/ IndexMoves("manual", next, table, changed)
                 \/ IndexClears("manual", reset, table)
  BY <1>2
<1>4. /\ index' = next /\ batches' = table
      /\ graph' = IF SkipsProjection(reset, next, changed) THEN graph
                  ELSE Projection(table, next, Digest(next))
  BY <1>3 DEF PublishIndex
<1>5. IndexMoves("manual", next, table, changed)
  BY <1>3, <1>4 DEF IndexClears
<1>6. PICK b \in Bound : Remappable(b, next) /\ table = Kept("manual", Rebound(b, next))
  BY <1>5 DEF IndexMoves
<1>7. changed /\ next.src = index.src
  BY <1>5 DEF IndexMoves
<1>8. PICK id : /\ id \in DOMAIN table /\ Live(table) = {id}
                /\ table[id] = Successor(b, next) /\ DOMAIN table = {id}
  <2>1. PICK id \in DOMAIN table : Live(table) = {id} /\ table[id] = Successor(b, next)
    <3>1. PICK kind : kind = "manual"
      OBVIOUS
    <3>2. table = Kept(kind, Rebound(b, next))
      BY <1>6, <3>1
    <3> QED BY <1>7, <3>2, MovedTable
  <2>2. DOMAIN table \subseteq Live(table)
    BY <1>6, ManualTable
  <2> QED BY <2>1, <2>2
<1>9. next \in Indexes /\ index.rows <= next.rows
  BY NextIndexOK
<1>10. /\ \A x \in Published(table, id) : Projectable(x[2], next)
       /\ \A x \in Published(batches, b) : \E y \in Published(table, id) : Edge(y) = Edge(x)
       /\ table[id].snapshot = Digest(next)
  BY <1>6, <1>7, <1>8, <1>9, MovedPublishes
<1>11. graph' = Projection(table, next, Digest(next))
  BY <1>4, <1>7 DEF SkipsProjection
<1>12. graph'.facts = Published(table, id)
  <2>1. {c \in DOMAIN table : table[c].active /\ table[c].snapshot = Digest(next)} = {id}
    BY <1>8, <1>10 DEF Live
  <2>2. \A x : x \in graph'.facts <=> x \in Published(table, id) /\ Projectable(x[2], next)
    BY <1>11, <2>1 DEF Projection
  <2>3. graph'.facts \subseteq Published(table, id) /\ Published(table, id) \subseteq graph'.facts
    BY <1>10, <2>2
  <2> QED BY <2>3
<1>13. graph.facts \subseteq Published(batches, b)
  <2>1. {c \in DOMAIN batches : batches[c].active /\ batches[c].snapshot = Snapshot} = {b}
    BY DEF PubInv, OneLive, Live, Bound, Active
  <2> QED BY <2>1 DEF Shown, Projection
<1>14. {Edge(x) : x \in graph.facts} \subseteq {Edge(x) : x \in graph'.facts}
  BY <1>10, <1>12, <1>13
<1>15. UNION {Published(table, c) : c \in DOMAIN table} = Published(table, id)
  BY <1>8
<1> QED BY <1>4, <1>8, <1>10, <1>12, <1>14, <1>15

(* An index that validates the publication keeps an edge only if the inputs  *)
(* of its project stand, and a manual one that keeps the publication keeps   *)
(* all of its edges under the new digest and rowids.                         *)
THEOREM RebindIsSound ==
    ASSUME Alone, TornActivation = FALSE
    PROVE  Spec => IndexRebinds
<1>1. Init => PubInv /\ ProjectionCurrent
  BY PubInit DEF Init, ProjectionCurrent
<1>2. (PubInv /\ ProjectionCurrent) /\ [Next]_vars => (PubInv /\ ProjectionCurrent)'
  BY PubInductive, ProjectionStep
<1>3. ASSUME PubInv, ProjectionCurrent, NEW kind \in {"manual", "rebind"}, IndexValidating(kind)
      PROVE  Shown
  <2>1. \A e \in Enrichers : proc[e].pc = "idle"
    <3>1. PICK reset, next, table, changed : PublishIndex(kind, reset, next, table, changed)
      BY <1>3, ValidatingAs DEF IndexAs
    <3> QED BY <3>1 DEF PublishIndex, Alone, At
  <2> QED BY <1>3, <2>1 DEF Quiet, ProjectionCurrent, Shown
<1>4. PubInv /\ ProjectionCurrent /\ [Next]_vars =>
        [IndexManually \/ (IndexRebinding /\ NoneBehind) =>
           \A x \in graph'.facts : \E b \in DOMAIN batches' :
              batches'[b].active /\ InputsFresh(batches'[b].runs[x[1]], disk)]_vars
  <2> SUFFICES ASSUME PubInv, ProjectionCurrent, IndexManually \/ (IndexRebinding /\ NoneBehind),
                      NEW x \in graph'.facts
               PROVE  \E b \in DOMAIN batches' :
                        batches'[b].active /\ InputsFresh(batches'[b].runs[x[1]], disk)
    OBVIOUS
  <2>1. PICK kind \in {"manual", "rebind"} : IndexValidating(kind) /\ (kind = "rebind" => NoneBehind)
    BY DEF IndexManually, IndexRebinding
  <2>2. Shown
    BY <1>3, <2>1
  <2> QED BY <2>1, <2>2, ValidatedIsFresh
<1>5. PubInv /\ ProjectionCurrent /\ [Next]_vars =>
        [(IndexManually /\ batches' # <<>>
            /\ graph = Projection(batches, index, Snapshot)) =>
           /\ \A b \in DOMAIN batches' : batches'[b].snapshot = Digest(index')
           /\ UNION {Published(batches', b) : b \in DOMAIN batches'} = graph'.facts
           /\ {Edge(x) : x \in graph.facts} \subseteq {Edge(x) : x \in graph'.facts}]_vars
  BY ManualKeeps DEF Shown
<1>6. Spec => IndexRetainsFresh
  BY <1>1, <1>2, <1>4, PTL DEF Spec, IndexRetainsFresh
<1>7. Spec => IndexKeepsEdges
  BY <1>1, <1>2, <1>5, PTL DEF Spec, IndexKeepsEdges
<1> QED BY <1>6, <1>7 DEF IndexRebinds

-----------------------------------------------------------------------------
(* Retirement by a plain run.                                                *)

Fresh(runs, d) == \A p \in Projects : Publishable(runs[p]) => InputsFresh(runs[p], d)

(* A run whose inputs have been recorded: there are some unless it was       *)
(* carried.                                                                  *)
Recorded(run) == Publishable(run) /\ run.inputs = {} => run.kind = "carried"

(* An enricher has recorded the inputs of what it no longer has to check;    *)
(* and what a plain one finds standing is fresh from then on.                *)
Retired(e) ==
    /\ proc[e].pc = "check" => \A p \in Projects \ proc[e].jobs : Recorded(Mine(e, p))
    /\ (Mode[e] = "plain" /\ proc[e].pc \notin {"idle", "reuse"}
          /\ proc[e].since = spent.edits) =>
         \A b \in Bound : Fresh(batches[b].runs, disk)

(* The steps of a run that are neither its first nor its last look at the    *)
(* publication leave it where it was in its plan.                            *)
LEMMA RunGoesOn ==
    ASSUME PubInv, NEW e \in Enrichers, Enrich(e), ~CheckReuse(e),
           proc'[e].pc \notin {"idle", "reuse"}
    PROVE  proc[e].pc \notin {"idle", "reuse"} /\ proc'[e].since = proc[e].since
<1>1. ASSUME NEW next, Step(e, next)
      PROVE  proc'[e] = next
  BY <1>1, StepTo
<1>2. CASE Reuse(e) \/ LoseBatch(e) \/ StampEmpty(e) \/ RefuseActivation(e)
           \/ ProjectPublication(e) \/ Plan(e)
  BY <1>1, <1>2 DEF Reuse, LoseBatch, StampEmpty, RefuseActivation, ProjectPublication, Plan,
     Leave, Idle
<1>3. PICK x : x = proc[e]
  OBVIOUS
<1>4. x.pc # "idle" => x = [k \in EnricherFields |-> x[k]]
  BY <1>3, AtWork DEF PlannedOK
<1>5. CASE ProjectRetirement(e) \/ Activate(e)
  BY <1>1, <1>3, <1>4, <1>5 DEF ProjectRetirement, Activate, Goto, At, EnricherFields
<1>6. CASE OpenStaging(e)
  <2>1. PICK b : Step(e, [x EXCEPT !.pc = "carry", !.batch = b])
    BY <1>3, <1>6 DEF OpenStaging
  <2>2. x.pc = "open"
    BY <1>3, <1>6 DEF OpenStaging, At
  <2> QED BY <1>1, <1>3, <1>4, <2>1, <2>2 DEF EnricherFields
<1>7. CASE CarryForward(e)
  <2>1. Step(e, [x EXCEPT !.pc = "prepare"]) \/ Step(e, Idle)
    BY <1>3, <1>7 DEF CarryForward, Goto, Leave
  <2>2. x.pc = "carry"
    BY <1>3, <1>7 DEF CarryForward, At
  <2> QED BY <1>1, <1>3, <1>4, <2>1, <2>2 DEF EnricherFields, Idle
<1>8. CASE PrepareProjects(e)
  <2>1. PICK jobs : Step(e, [x EXCEPT !.pc = "check", !.jobs = jobs])
    BY <1>3, <1>8 DEF PrepareProjects
  <2>2. x.pc = "prepare"
    BY <1>3, <1>8 DEF PrepareProjects, At
  <2> QED BY <1>1, <1>3, <1>4, <2>1, <2>2 DEF EnricherFields
<1>9. CASE \E p \in Projects : StageBatch(e, p)
  BY <1>9 DEF StageBatch, Checking, At
<1>10. ASSUME NEW p \in Projects, StartProject(e, p) \/ StageFileFailed(e, p)
                                   \/ CompleteProject(e, p) \/ FailProject(e, p)
       PROVE  proc[e].pc \notin {"idle", "reuse"} /\ proc'[e].since = proc[e].since
  <2>1. x.pc = "check"
    BY <1>3, <1>10 DEF StartProject, StageFileFailed, CompleteProject, FailProject, Checking, At
  <2>2. PICK y : Step(e, y) /\ y.since = x.since
    <3>1. CASE StartProject(e, p)
      <4>1. PICK inputs : Step(e, [x EXCEPT !.work[p] = inputs])
        BY <1>3, <3>1 DEF StartProject, Working
      <4> QED BY <1>4, <2>1, <4>1 DEF EnricherFields
    <3>2. CASE StageFileFailed(e, p)
      <4>1. PICK f : Step(e, [x EXCEPT !.lost[p] = @ \cup {f}])
        BY <1>3, <3>2 DEF StageFileFailed
      <4> QED BY <1>4, <2>1, <4>1 DEF EnricherFields
    <3>3. CASE CompleteProject(e, p) \/ FailProject(e, p)
      <4>1. PICK failed \in BOOLEAN : Finished(e, p, failed)
        <5>1. (proc[e].lost[p] # {}) \in BOOLEAN /\ TRUE \in BOOLEAN
          OBVIOUS
        <5> QED BY <3>3, <5>1 DEF CompleteProject, FailProject
      <4>2. PICK y : y = [x EXCEPT !.jobs = @ \ {p}, !.work[p] = {}, !.failed = @ \/ failed]
        OBVIOUS
      <4>3. Step(e, y)
        BY <1>3, <4>1, <4>2, Zenon DEF Finished
      <4>4. x = [k \in EnricherFields |-> x[k]]
        BY <1>4, <2>1
      <4>5. y.since = x.since
        BY ONLY <4>2, <4>4 DEF EnricherFields
      <4> QED BY <4>3, <4>5
    <3> QED BY <1>10, <3>1, <3>2, <3>3
  <2> QED BY <1>1, <1>3, <2>1, <2>2
<1> QED BY <1>2, <1>5, <1>6, <1>7, <1>8, <1>9, <1>10 DEF Enrich

(* The publication a plain run leaves standing when it looks for a batch to  *)
(* reuse is fresh.                                                           *)
LEMMA RetiresStale ==
    ASSUME PubInv, NEW e \in Enrichers, CheckReuse(e), Mode[e] = "plain",
           proc'[e].since = spent.edits, NEW b \in Bound'
    PROVE  Fresh(batches'[b].runs, disk)
<1>1. proc[e].pc # "idle" /\ proc[e].pc = "reuse"
  BY DEF CheckReuse, At
<1>2. /\ PlannedOK(proc[e], index, disk, spent.edits)
      /\ proc[e].plan.snapshot = Snapshot
  BY <1>1, AtWork
<1>3. PICK d \in Observed(e) :
         /\ batches' = Deactivated(batches, StaleActive(e, d))
         /\ \E pc : Goto(e, pc)
  <2>1. "plain" # "carry"
    OBVIOUS
  <2> QED BY <2>1 DEF CheckReuse
<1>4. proc'[e].since = proc[e].since
  <2>1. PICK x : x = proc[e]
    OBVIOUS
  <2>2. x = [k \in EnricherFields |-> x[k]]
    BY <1>2, <2>1 DEF PlannedOK
  <2>3. PICK pc : Goto(e, pc)
    BY <1>3
  <2>4. proc'[e] = [x EXCEPT !.pc = pc]
    BY <2>1, <2>3, StepTo DEF Goto
  <2> QED BY <2>1, <2>2, <2>4 DEF EnricherFields
<1>5. d = disk
  BY <1>2, <1>3, <1>4 DEF PlannedOK, Observed
<1>6. PICK stale : stale = StaleActive(e, disk)
  OBVIOUS
<1>7. batches' = Deactivated(batches, stale)
  BY <1>3, <1>5, <1>6
<1>8. \A c \in DOMAIN batches : batches[c] \in Batches
  BY DEF PubInv, TableOK, BatchOK
<1>9. b \in DOMAIN batches' /\ batches'[b].active /\ batches'[b].snapshot = Snapshot'
  BY DEF Bound, Active
<1>10. Snapshot' = Snapshot
  BY DEF CheckReuse, Snapshot, Digest
<1>11. /\ b \in DOMAIN batches /\ batches[b].active /\ b \notin stale
       /\ batches'[b].runs = batches[b].runs /\ batches[b].snapshot = Snapshot
  BY <1>7, <1>8, <1>9, <1>10 DEF Deactivated, Batches
<1>12. b \in Active /\ SameDigest(e, b)
  BY <1>2, <1>11 DEF Active, SameDigest
<1> QED BY <1>6, <1>11, <1>12 DEF StaleActive, Fresh

(* A batch is activated with the inputs it records on disk.                  *)
LEMMA ActivatesFresh ==
    ASSUME PubInv, NEW e \in Enrichers, Activate(e), Retired(e), NEW b \in Bound'
    PROVE  Fresh(batches'[b].runs, disk)
<1>1. At(e, "check") /\ Activatable(e) /\ proc[e].jobs = {}
  BY DEF Activate
<1>2. Live(batches') = {proc[e].batch} /\ Own(e)
  BY ActivateLive DEF PubInv
<1>3. b = proc[e].batch
  BY <1>2 DEF Bound, Active, Live
<1>4. batches[b] \in Batches
  BY <1>2, <1>3 DEF PubInv, TableOK, BatchOK, Own
<1>5. batches'[b].runs = batches[b].runs
  BY <1>3, <1>4 DEF Activate, Only, Own, Activatable, Batches
<1>6. ASSUME NEW p \in Projects, Publishable(batches[b].runs[p])
      PROVE  InputsFresh(batches[b].runs[p], disk)
  <2>1. AllHold(disk, Mine(e, p).inputs) /\ Recorded(Mine(e, p))
    BY <1>1 DEF Activatable, Retired, At
  <2> QED BY <1>3, <1>6, <2>1 DEF Mine, InputsFresh, Recorded
<1> QED BY <1>5, <1>6 DEF Fresh

(* A run that is written records its inputs if its project is done with.     *)
LEMMA ProjectRecorded ==
    ASSUME PubInv, NEW e \in Enrichers, NEW p \in Projects, NEW run, NEW jobs,
           Checking(e, p), SetRun(e, p, run), Retired(e),
           jobs = proc[e].jobs \/ (jobs = proc[e].jobs \ {p} /\ Recorded(run))
    PROVE  \A q \in Projects \ jobs : Recorded(batches'[proc[e].batch].runs[q])
<1>1. /\ Works(proc[e]) /\ p \in proc[e].jobs
      /\ \A q \in Projects \ proc[e].jobs : Recorded(Mine(e, q))
  BY DEF Checking, At, Works, Retired
<1>2. PICK runs : runs = batches[proc[e].batch].runs
  OBVIOUS
<1>3. /\ Own(e) /\ runs \in [Projects -> Runs] /\ batches[proc[e].batch] \in Batches
      /\ \A q \in Projects : Mine(e, q) = runs[q]
  BY <1>1, <1>2, OwnBatch DEF Mine
<1>4. batches'[proc[e].batch].runs = [runs EXCEPT ![p] = run]
  BY <1>2, <1>3 DEF SetRun, Own, Batches
<1> QED BY <1>1, <1>3, <1>4

(* An enricher records the inputs of each project it is done with.           *)
LEMMA RecordsInputs ==
    ASSUME PubInv, NEW e \in Enrichers, Enrich(e), Retired(e), proc'[e].pc = "check"
    PROVE  \A p \in Projects \ proc'[e].jobs : Recorded(batches'[proc'[e].batch].runs[p])
<1>1. ASSUME NEW next, Step(e, next)
      PROVE  proc'[e] = next
  BY <1>1, StepTo
<1>2. PICK x : x = proc[e]
  OBVIOUS
<1>3. x.pc # "idle" => x = [k \in EnricherFields |-> x[k]]
  BY <1>2, AtWork DEF PlannedOK
<1>4. CASE PrepareProjects(e)
  <2>1. x.pc = "prepare" /\ Works(proc[e])
    BY <1>2, <1>4 DEF PrepareProjects, At, Works
  <2>2. Own(e) /\ batches[x.batch] \in Batches
    BY <1>2, <2>1, OwnBatch
  <2>3. PICK d \in Observed(e) : \E jobs, runs :
          /\ jobs = {p \in Projects : ~CompleteAndFresh(Mine(e, p), d)}
          /\ Step(e, [proc[e] EXCEPT !.pc = "check", !.jobs = jobs])
          /\ runs = [p \in Projects |-> IF p \in jobs THEN PreparedRun(e, p) ELSE Mine(e, p)]
          /\ batches' = [batches EXCEPT ![proc[e].batch].runs = runs]
    BY <1>4, <2>2, PrepareCase
  <2>4. PICK jobs, runs :
          /\ jobs = {p \in Projects : ~CompleteAndFresh(Mine(e, p), d)}
          /\ Step(e, [proc[e] EXCEPT !.pc = "check", !.jobs = jobs])
          /\ runs = [p \in Projects |-> IF p \in jobs THEN PreparedRun(e, p) ELSE Mine(e, p)]
          /\ batches' = [batches EXCEPT ![proc[e].batch].runs = runs]
    BY <2>3
  <2>5. PICK y : y = [x EXCEPT !.pc = "check", !.jobs = jobs]
    OBVIOUS
  <2>6. proc'[e] = y
    BY <1>1, <1>2, <2>4, <2>5
  <2>7. y.jobs = jobs /\ y.batch = x.batch
    BY <1>3, <2>1, <2>5 DEF EnricherFields
  <2>8. batches'[x.batch].runs = runs
    BY <1>2, <2>2, <2>4 DEF Own, Batches
  <2>9. ASSUME NEW p \in Projects \ jobs
        PROVE  Recorded(runs[p])
    <3>1. CompleteAndFresh(Mine(e, p), d) /\ runs[p] = Mine(e, p)
      BY <2>4
    <3> QED BY <3>1 DEF CompleteAndFresh, InputsFresh, Recorded
  <2> QED BY <2>6, <2>7, <2>8, <2>9
<1>5. ASSUME NEW p \in Projects, StageBatch(e, p) \/ StartProject(e, p) \/ StageFileFailed(e, p)
      PROVE  \A q \in Projects \ proc'[e].jobs : Recorded(batches'[proc'[e].batch].runs[q])
  <2>1. Checking(e, p) /\ x.pc = "check"
    BY <1>2, <1>5 DEF StageBatch, StartProject, StageFileFailed, Checking, At
  <2>2. PICK run : SetRun(e, p, run)
    BY <1>5 DEF StageBatch, StartProject, StageFileFailed
  <2>3. proc'[e].jobs = x.jobs /\ proc'[e].batch = x.batch
    <3>1. CASE StageBatch(e, p)
      BY <1>2, <3>1 DEF StageBatch
    <3>2. CASE StartProject(e, p)
      <4>1. PICK inputs : Step(e, [x EXCEPT !.work[p] = inputs])
        BY <1>2, <3>2 DEF StartProject, Working
      <4> QED BY <1>1, <1>3, <2>1, <4>1 DEF EnricherFields
    <3>3. CASE StageFileFailed(e, p)
      <4>1. PICK f : Step(e, [x EXCEPT !.lost[p] = @ \cup {f}])
        BY <1>2, <3>3 DEF StageFileFailed
      <4> QED BY <1>1, <1>3, <2>1, <4>1 DEF EnricherFields
    <3> QED BY <1>5, <3>1, <3>2, <3>3
  <2>4. PICK jobs : jobs = proc'[e].jobs
    OBVIOUS
  <2>5. jobs = proc[e].jobs
    BY <1>2, <2>3, <2>4
  <2>6. \A q \in Projects \ jobs : Recorded(batches'[proc[e].batch].runs[q])
    BY ONLY PubInv, e \in Enrichers, p \in Projects, Retired(e), <2>1, <2>2, <2>5,
            ProjectRecorded
  <2> QED BY <1>2, <2>3, <2>4, <2>6
<1>6. ASSUME NEW p \in Projects, CompleteProject(e, p) \/ FailProject(e, p)
      PROVE  \A q \in Projects \ proc'[e].jobs : Recorded(batches'[proc'[e].batch].runs[q])
  <2>1. Checking(e, p) /\ x.pc = "check"
    BY <1>2, <1>6 DEF CompleteProject, FailProject, Checking, At
  <2>2. Mine(e, p) \in Runs
    <3>1. Works(proc[e])
      BY <1>2, <2>1 DEF Works
    <3> QED BY <3>1, OwnBatch
  <2>3. PICK run : SetRun(e, p, run) /\ Recorded(run)
    <3>1. CASE CompleteProject(e, p)
      <4>1. PICK run : run = CompletedRun(e, p)
        OBVIOUS
      <4>2. run.inputs = proc[e].work[p]
        BY <2>2, <4>1 DEF CompletedRun, Runs
      <4> QED BY <3>1, <4>1, <4>2 DEF CompleteProject, Recorded
    <3>2. CASE FailProject(e, p)
      <4>1. PICK cover : SetRun(e, p, [Mine(e, p) EXCEPT !.status = "failed", !.cover = cover])
        BY <3>2 DEF FailProject
      <4>2. PICK run : run = [Mine(e, p) EXCEPT !.status = "failed", !.cover = cover]
        OBVIOUS
      <4>3. run.status = "failed"
        BY <2>2, <4>2 DEF Runs
      <4> QED BY <4>1, <4>2, <4>3 DEF Recorded, Publishable
    <3> QED BY <1>6, <3>1, <3>2
  <2>4. proc'[e].jobs = x.jobs \ {p} /\ proc'[e].batch = x.batch
    <3>1. PICK failed : Finished(e, p, failed)
      BY <1>6 DEF CompleteProject, FailProject
    <3>2. PICK y : y = [x EXCEPT !.jobs = @ \ {p}, !.work[p] = {}, !.failed = @ \/ failed]
      OBVIOUS
    <3>3. proc'[e] = y
      <4>1. Step(e, y)
        BY <1>2, <3>1, <3>2, Zenon DEF Finished
      <4> QED BY <1>1, <4>1
    <3>4. x = [k \in EnricherFields |-> x[k]]
      BY <1>3, <2>1
    <3>5. y.jobs = x.jobs \ {p} /\ y.batch = x.batch
      BY ONLY <3>2, <3>4 DEF EnricherFields
    <3> QED BY <3>3, <3>5
  <2>5. PICK jobs : jobs = proc'[e].jobs
    OBVIOUS
  <2>6. jobs = proc[e].jobs \ {p}
    BY <1>2, <2>4, <2>5
  <2>7. \A q \in Projects \ jobs : Recorded(batches'[proc[e].batch].runs[q])
    BY ONLY PubInv, e \in Enrichers, p \in Projects, Retired(e), <2>1, <2>3, <2>6,
            ProjectRecorded
  <2> QED BY <1>2, <2>4, <2>5, <2>7
<1>7. PrepareProjects(e) \/ \E p \in Projects :
         \/ StageBatch(e, p) \/ StartProject(e, p) \/ StageFileFailed(e, p)
         \/ CompleteProject(e, p) \/ FailProject(e, p)
  <2>1. ASSUME Reuse(e) \/ LoseBatch(e) \/ StampEmpty(e) \/ RefuseActivation(e)
                 \/ ProjectPublication(e) \/ Plan(e)
        PROVE  FALSE
    BY <1>1, <2>1 DEF Reuse, LoseBatch, StampEmpty, RefuseActivation, ProjectPublication, Plan,
       Leave, Idle
  <2>2. ASSUME NEW pc, Goto(e, pc), x.pc # "idle"
        PROVE  pc = "check"
    BY <1>1, <1>2, <1>3, <2>2 DEF Goto, EnricherFields
  <2>3. ~CheckReuse(e) /\ ~ProjectRetirement(e) /\ ~Activate(e)
    BY <1>2, <2>2 DEF CheckReuse, ProjectRetirement, Activate, At
  <2>4. ~CarryForward(e)
    <3>1. ASSUME CarryForward(e)
          PROVE  FALSE
      <4>1. Goto(e, "prepare") \/ Step(e, Idle)
        BY <3>1 DEF CarryForward, Leave
      <4> QED BY <1>1, <1>2, <2>2, <3>1, <4>1 DEF CarryForward, At, Idle
    <3> QED BY <3>1
  <2>5. ~OpenStaging(e)
    <3>1. ASSUME NEW b, Step(e, [x EXCEPT !.pc = "carry", !.batch = b]), x.pc # "idle"
          PROVE  FALSE
      BY <1>1, <1>3, <3>1 DEF EnricherFields
    <3> QED BY <1>2, <3>1 DEF OpenStaging, At
  <2> QED BY <2>1, <2>3, <2>4, <2>5 DEF Enrich
<1> QED BY <1>4, <1>5, <1>6, <1>7

(* What a plain run found fresh stays so until an edit.                      *)
LEMMA RetiredStep ==
    ASSUME Alone, PubInv, NEW e \in Enrichers, Retired(e), [Next]_vars
    PROVE  Retired(e)'
<1>1. CASE UNCHANGED vars
  BY <1>1 DEF vars, Retired, Mine, Bound, Active, Snapshot
<1>2. CASE Edit
  <2>1. UNCHANGED <<index, batches, proc>>
    BY <1>2 DEF Edit
  <2>2. spent'.edits = spent.edits + 1 /\ spent.edits \in Nat
    BY <1>2, SpendEdit DEF Edit, PubInv, SpentOK
  <2>3. proc[e].pc # "idle" => proc[e].since \in Nat /\ proc[e].since <= spent.edits
    BY AtWork DEF PlannedOK
  <2>4. proc'[e].pc # "idle" => proc'[e].since # spent'.edits
    BY <2>1, <2>2, <2>3
  <2> QED BY <2>1, <2>4 DEF Retired, Mine
<1>3. ASSUME proc'[e].pc = "idle"
      PROVE  Retired(e)'
  BY <1>3 DEF Retired
<1>4. CASE Index
  <2>1. UNCHANGED proc /\ \A d \in Enrichers : At(d, "idle")
    <3>1. PICK kind, reset, next, table, changed : PublishIndex(kind, reset, next, table, changed)
      BY <1>4, IndexCases DEF IndexAs
    <3> QED BY <3>1 DEF PublishIndex, Alone
  <2> QED BY <1>3, <2>1 DEF At
<1>5. CASE Die(e)
  <2>1. proc'[e] = Idle
    BY <1>5, StepTo DEF Die, Leave
  <2> QED BY <1>3, <2>1 DEF Idle
<1>6. CASE Enrich(e)
  <2>1. UNCHANGED <<disk, index>> /\ spent'.edits = spent.edits
    <3>1. SpentOK /\ proc = [d \in Enrichers |-> proc[d]]
      BY DEF PubInv
    <3> QED BY ONLY <1>6, <3>1, e \in Enrichers, EnrichFrame
  <2>2. proc'[e].pc = "check" =>
          \A p \in Projects \ proc'[e].jobs : Recorded(batches'[proc'[e].batch].runs[p])
    BY <1>6, RecordsInputs
  <2>3. ASSUME Mode[e] = "plain", proc'[e].pc \notin {"idle", "reuse"},
               proc'[e].since = spent'.edits, NEW b \in Bound'
        PROVE  Fresh(batches'[b].runs, disk')
    <3>1. CASE CheckReuse(e)
      BY <2>1, <2>3, <3>1, RetiresStale
    <3>2. CASE Activate(e)
      BY <2>1, <2>3, <3>2, ActivatesFresh
    <3>3. CASE ~CheckReuse(e) /\ ~Activate(e)
      <4>1. proc[e].pc \notin {"idle", "reuse"} /\ proc'[e].since = proc[e].since
        BY <1>6, <2>3, <3>3, RunGoesOn
      <4>2. /\ Live(batches') = Live(batches)
            /\ \A c \in Live(batches) : /\ batches'[c].runs = batches[c].runs
                                        /\ batches'[c].snapshot = batches[c].snapshot
        BY <1>6, <3>3, LiveSame
      <4>3. b \in Live(batches') /\ batches'[b].snapshot = Snapshot'
        BY <2>3 DEF Bound, Active, Live
      <4>4. Snapshot' = Snapshot
        BY <2>1 DEF Snapshot, Digest
      <4>5. b \in Bound
        BY <4>2, <4>3, <4>4 DEF Bound, Active, Live
      <4>6. Fresh(batches[b].runs, disk)
        BY <2>1, <2>3, <4>1, <4>5 DEF Retired
      <4> QED BY <2>1, <4>2, <4>3, <4>6
    <3> QED BY <3>1, <3>2, <3>3
  <2> QED BY <2>2, <2>3 DEF Retired, Mine
<1>7. \A d \in Enrichers : d = e
  BY DEF Alone
<1> QED BY <1>1, <1>2, <1>4, <1>5, <1>6, <1>7 DEF Next

(* However a plain run ends that no edit disturbed, the publication it       *)
(* leaves behind shows no edge whose inputs have changed, unless it ended at *)
(* once by reusing an empty batch stamped beside the publication.            *)
THEOREM PlainRunsRetire ==
    ASSUME Alone
    PROVE  Spec => PlainRunRetiresStale
<1> DEFINE I == PubInv /\ \A e \in Enrichers : Retired(e)
<1>1. Init => I
  BY PubInit DEF Init, Retired, Idle
<1>2. I /\ [Next]_vars => I'
  BY PubInductive, RetiredStep
<1>3. ASSUME PubInv, NEW e \in Enrichers, Retired(e), Mode[e] = "plain", Ends(e),
             spent.edits = proc[e].since, NEW b \in Bound,
             NEW x \in Published(batches', b)
      PROVE  InputsFresh(batches'[b].runs[x[1]], disk)
  <2>1. batches'[b].runs = batches[b].runs /\ Enrich(e)
    <3>1. CASE ReusesPublication(e)
      BY <3>1 DEF ReusesPublication, Reuse, Enrich
    <3>2. CASE RefuseActivation(e) \/ StampEmpty(e) \/ ProjectPublication(e)
      <4>1. Enrich(e) /\ ~CheckReuse(e)
        BY <3>2 DEF RefuseActivation, StampEmpty, ProjectPublication, Enrich, CheckReuse, At
      <4>2. ~Activate(e)
        BY <3>2 DEF RefuseActivation, StampEmpty, ProjectPublication, Activate, At
      <4>3. b \in Live(batches)
        BY <1>3 DEF Bound, Active, Live
      <4> QED BY ONLY PubInv, e \in Enrichers, <4>1, <4>2, <4>3, LiveSame
    <3> QED BY <1>3, <3>1, <3>2 DEF Ends
  <2>2. PICK p \in Projects : x[1] = p /\ Publishable(batches[b].runs[p])
    BY <1>3, <2>1 DEF Published
  <2>3. CASE ReusesPublication(e)
    <3>1. proc[e].pc # "idle"
      BY <2>3 DEF ReusesPublication, Reuse, At
    <3>2. PICK d \in Observed(e) : \E c \in Reusable(e, d) : c \in Active
      BY <2>3 DEF ReusesPublication
    <3>3. PICK c \in Reusable(e, d) : c \in Active
      BY <3>2
    <3>4. d = disk
      BY <1>3, <3>1, <3>2, AtWork DEF PlannedOK, Observed
    <3>5. b = c
      BY <1>3, <3>3 DEF PubInv, OneLive, Live, Bound, Active
    <3> QED BY <2>1, <2>2, <3>3, <3>4, <3>5 DEF Reusable, CompleteAndFresh
  <2>4. CASE RefuseActivation(e) \/ StampEmpty(e) \/ ProjectPublication(e)
    <3>1. proc[e].pc \notin {"idle", "reuse"}
      BY <2>4 DEF RefuseActivation, StampEmpty, ProjectPublication, At
    <3>2. Fresh(batches[b].runs, disk)
      BY <1>3, <3>1 DEF Retired
    <3> QED BY <2>1, <2>2, <3>2 DEF Fresh
  <2> QED BY <1>3, <2>3, <2>4 DEF Ends
<1>4. I /\ [Next]_vars =>
        [\A e \in Enrichers :
           (Mode[e] = "plain" /\ Ends(e) /\ spent.edits = proc[e].since) =>
              \A b \in Bound : \A x \in graph'.facts \cap Published(batches', b) :
                 InputsFresh(batches'[b].runs[x[1]], disk)]_vars
  BY <1>3
<1> HIDE DEF I
<1> QED BY <1>1, <1>2, <1>4, PTL DEF Spec, PlainRunRetiresStale

=============================================================================
