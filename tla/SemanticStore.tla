--------------------------- MODULE SemanticStore ---------------------------
(***************************************************************************)
(* The tables scouting shares between processes: the run ledger            *)
(* (scout_runs, src/src/scouting/ledger.rs), the immutable semantic        *)
(* artifacts (src/src/semantic.rs) and the code index they are grounded    *)
(* on.  A row's id is its position.                                        *)
(*                                                                         *)
(* Abstractions: a file's content is a version; the code digest is the     *)
(* whole function `code`; the edges at an anchor, as context_hash digests  *)
(* them, are one of Contexts; the anchors a card or workflow cites depend  *)
(* on its subject only; what the model wrote (body, confidence, cited      *)
(* spans) is one of Bodies; an artifact fingerprint is the tuple of what   *)
(* is hashed into it.                                                      *)
(***************************************************************************)
EXTENDS Naturals, Sequences, FiniteSets

CONSTANTS
    Files, Versions, Bodies,
    Subjects,    \* what a run may be about: an anchor, a seed, a scope, a term
    KindOf,      \* Subjects -> Kinds
    Anchors,     \* the graph nodes a support may cite
    AnchorsOf,   \* subject -> the anchors its supports cite: none for a parent
    FileOf,      \* anchor or file summary -> its file
    Contexts,    \* what the edges at an anchor may be
    Shows,       \* context -> what evidence and candidates render of it
    ModuleOf,    \* file -> the module scope that owns it, or None
    TermsOf,     \* body -> the concept subjects its vocabulary names
    None

Grounded == {"workflow", "card"}               \* evidence is source text
Summaries == {"file", "module", "repository"}  \* evidence is child artifacts
Kinds == Grounded \cup Summaries \cup {"concept"}

ASSUME SemanticAssumption ==
    /\ KindOf \in [Subjects -> Kinds]
    /\ AnchorsOf \in [Subjects -> SUBSET Anchors]
    /\ \A s \in Subjects : AnchorsOf[s] # {} <=> KindOf[s] \in Grounded
    /\ \A a \in Anchors : FileOf[a] \in Files
    /\ \A s \in Subjects : KindOf[s] = "file" => FileOf[s] \in Files
    /\ DOMAIN Shows = Contexts
    /\ ModuleOf \in [Files -> Subjects \cup {None}]
    /\ TermsOf \in [Bodies -> SUBSET Subjects]
    /\ None \notin Subjects

VARIABLES
    code,    \* the published index: file -> version
    links,   \* resolved_edges: anchor -> the edges at it
    runs, artifacts
store == <<code, links, runs, artifacts>>

RunIds      == DOMAIN runs
ArtifactIds == DOMAIN artifacts

Running(r)   == runs[r].status = "running"
Completed(r) == runs[r].status = "completed"

(* An artifact is current until another row names it as its predecessor. *)
HasSuccessor(i) == \E j \in ArtifactIds : artifacts[j].replaces = i
Current == {i \in ArtifactIds : ~HasSuccessor(i)}
CurrentOf(s) == {i \in Current : artifacts[i].subject = s}

(* SELECT ... ORDER BY id DESC LIMIT 1; 0 is the SQL NULL. *)
Newest(S) == IF \E i \in S : \A j \in S : j <= i
             THEN CHOOSE i \in S : \A j \in S : j <= i
             ELSE 0

-----------------------------------------------------------------------------
(* The children a summary scope or a vocabulary group has right now.       *)

Unowned(f) == ModuleOf[f] = None

EvidenceFiles(s) == {FileOf[x] : x \in AnchorsOf[s]}

FeedsFile(a, s) == KindOf[a.subject] \in Grounded /\ FileOf[s] \in EvidenceFiles(a.subject)
FeedsModule(a, s) == KindOf[a.subject] = "file" /\ ModuleOf[FileOf[a.subject]] = s
FeedsRepository(a) ==
    \/ KindOf[a.subject] = "module"
    \/ KindOf[a.subject] = "file" /\ Unowned(FileOf[a.subject])
FeedsConcept(a, s) == KindOf[a.subject] \in Grounded /\ s \in TermsOf[a.body]

Feeds(a, s) ==
    \/ KindOf[s] = "file" /\ FeedsFile(a, s)
    \/ KindOf[s] = "module" /\ FeedsModule(a, s)
    \/ KindOf[s] = "repository" /\ FeedsRepository(a)
    \/ KindOf[s] = "concept" /\ FeedsConcept(a, s)

ExpectedChildren(s) == {i \in Current : Feeds(artifacts[i], s)}

Covers(i) == artifacts[i].children = ExpectedChildren(artifacts[i].subject)

(* load_artifact: a support is as good as the source and the edges it was    *)
(* written from, and a workflow with some good supports is degraded.         *)
SourceCurrent(i, x) == artifacts[i].snapshot[FileOf[x]] = code[FileOf[x]]
ContextCurrent(i, x) == artifacts[i].context[x] = links[x]
SupportFresh(i, x) == SourceCurrent(i, x) /\ ContextCurrent(i, x)

OwnLabel(i) ==
    LET s == artifacts[i].subject IN
    IF \A x \in AnchorsOf[s] : SupportFresh(i, x) THEN "fresh"
    ELSE IF KindOf[s] = "workflow" /\ \E x \in AnchorsOf[s] : SupportFresh(i, x)
    THEN "degraded" ELSE "stale"

(* The label of one artifact, its pinned children folded in. *)
Label(i, labels) ==
    LET a == artifacts[i] IN
    IF KindOf[a.subject] \in Grounded THEN OwnLabel(i)
    ELSE IF ~Covers(i) \/ \E c \in a.children : HasSuccessor(c) THEN "stale"
    ELSE IF \E c \in a.children : labels[c] # "fresh" THEN "degraded" ELSE "fresh"

Freshness[i \in ArtifactIds] == Label(i, Freshness)

-----------------------------------------------------------------------------
(* What a run reads, and the artifact it writes.                           *)

(* validate_annotate_input: the context_hash of each support. *)
ContextOf(s) == [x \in AnchorsOf[s] |-> links[x]]

Fingerprint(subject, body, snapshot, context, children) ==
    <<subject, body, snapshot, context, {artifacts[c].fingerprint : c \in children}>>

(* The input fingerprints: a workflow's covers the whole snapshot and its    *)
(* candidates, a card's the evidence shown only, a summary's and a concept's *)
(* the child fingerprints.  The context hash is in none of them.             *)
Rendered(s) == [x \in AnchorsOf[s] |-> Shows[links[x]]]

InputOf(s) ==
    CASE KindOf[s] = "workflow" -> <<s, code, Rendered(s)>>
      [] KindOf[s] = "card" -> <<s, [x \in AnchorsOf[s] |-> code[FileOf[x]]], Rendered(s)>>
      [] OTHER -> <<s, {artifacts[c].fingerprint : c \in ExpectedChildren(s)}>>

ChildBearing(f) ==
    \E i \in Current : KindOf[artifacts[i].subject] \in Grounded
                       /\ f \in EvidenceFiles(artifacts[i].subject)

Summarized(f) ==
    \E i \in Current : KindOf[artifacts[i].subject] = "file"
                       /\ FileOf[artifacts[i].subject] = f

(* A parent scope is refused while a lower scope has no summary, or one that *)
(* no longer covers its children.                                            *)
ModuleReady(s) ==
    /\ \A i \in ExpectedChildren(s) : Covers(i)
    /\ \A f \in Files : ModuleOf[f] = s /\ ChildBearing(f) => Summarized(f)

RepositoryReady(s) ==
    /\ \A i \in ExpectedChildren(s) : Covers(i)
    /\ \A f \in Files : ChildBearing(f) =>
         IF Unowned(f) THEN Summarized(f) ELSE CurrentOf(ModuleOf[f]) # {}

(* A concept is refused while a child of its group is not fresh. *)
ConceptReady(s) == \A i \in ExpectedChildren(s) : Freshness[i] = "fresh"

Scoutable(s) ==
    \/ KindOf[s] \in Grounded
    \/ /\ ExpectedChildren(s) # {}
       /\ KindOf[s] = "module" => ModuleReady(s)
       /\ KindOf[s] = "repository" => RepositoryReady(s)
       /\ KindOf[s] = "concept" => ConceptReady(s)

Artifact(subject, run, replaces, snapshot, context, children, body) ==
    [subject |-> subject, run |-> run, replaces |-> replaces,
     snapshot |-> snapshot, context |-> context, children |-> children, body |-> body,
     fingerprint |-> Fingerprint(subject, body, snapshot, context, children)]

-----------------------------------------------------------------------------
(* The ledger.                                                             *)

Outdated(r) == \E i \in ArtifactIds : artifacts[i].run = r /\ HasSuccessor(i)

Mark(ids, status) ==
    [r \in RunIds |-> IF r \in ids THEN [runs[r] EXCEPT !.status = status] ELSE runs[r]]

CompletedFor(input) == {r \in RunIds : Completed(r) /\ runs[r].input = input}

(* claim_run first retires the completed runs of these inputs whose artifact *)
(* was replaced: inputs that went from A to B and back to A.                 *)
OutdatedFor(input) == {r \in CompletedFor(input) : Outdated(r)}

ReusableFor(input) == {r \in CompletedFor(input) : ~Outdated(r)}

CurrentForInput(input) ==
    Newest({i \in Current : /\ artifacts[i].run # 0
                            /\ runs[artifacts[i].run].input = input})

(* The unique index over the running and completed rows of one input. *)
Occupied(input, retired) ==
    \E r \in RunIds \ retired : /\ runs[r].input = input
                                /\ Running(r) \/ Completed(r)

(* retire_generating_run, inside the publication transaction. *)
GeneratingRun(i) == {r \in RunIds : i # 0 /\ artifacts[i].run = r /\ Completed(r)}

StoreInit ==
    /\ code \in [Files -> Versions]
    /\ links \in [Anchors -> Contexts]
    /\ runs = <<>>
    /\ artifacts = <<>>

(* `jscout index` or watch publishes another version of a file, and the      *)
(* projection of the new code.                                               *)
Reindex(f, v) ==
    /\ v # code[f]
    /\ code' = [code EXCEPT ![f] = v]
    /\ links' \in [Anchors -> Contexts]
    /\ UNCHANGED <<runs, artifacts>>

(* `jscout checker enrich` or watch publishes semantic edges and rebuilds    *)
(* the projection: the code and its digest stay what they are.               *)
RebuildProjection ==
    /\ links' \in [Anchors -> Contexts]
    /\ links' # links
    /\ UNCHANGED <<code, runs, artifacts>>

AnnotateAny(s, body, replaces) ==
    /\ KindOf[s] = "workflow"
    /\ replaces \in Current \cup {0}
    /\ artifacts' = Append(artifacts, Artifact(s, 0, replaces, code, ContextOf(s), {}, body))
    /\ UNCHANGED <<code, links, runs>>

(* The MCP annotate tool: one transaction, no run.  Only a workflow may be   *)
(* shared with scouting; an unreplaced predecessor may be named.             *)
Annotate(s, body, replaces) ==
    /\ KindOf[s] = "workflow"
    /\ \/ replaces = 0
       \/ replaces \in Current /\ KindOf[artifacts[replaces].subject] = "workflow"
    /\ artifacts' = Append(artifacts, Artifact(s, 0, replaces, code, ContextOf(s), {}, body))
    /\ UNCHANGED <<code, links, runs>>
=============================================================================
