-------------------------- MODULE SemanticVectors --------------------------
(***************************************************************************)
(* The semantic vector plane (src/src/embed.rs, src/src/semantic.rs): the  *)
(* documents of the current artifacts, their cached vectors, and the       *)
(* occurrences a search ranks.  Agents publish artifacts and, when the     *)
(* plane was ready before the write, embed them at once; the watcher and   *)
(* `jscout embed` run the same pass.  A pass lists the documents first,    *)
(* commits vectors batch by batch, and makes the occurrences those of its  *)
(* list last, without a lock over the whole.                               *)
(*                                                                         *)
(* Abstractions: one profile (occurrences and markers are per profile); a  *)
(* document is a model value, its vector the document itself.  A           *)
(* transaction or savepoint is one step, and one that fails changes        *)
(* nothing.                                                                *)
(***************************************************************************)
EXTENDS VectorPlane, Sequences

CONSTANTS
    Docs,          \* document texts
    Agents,        \* annotators
    Embedders,     \* the watcher and the command line
    Watchers,      \* the embedders whose passes come again and again
    MaxArtifacts   \* bounds the artifacts published

Workers == Agents \cup Embedders

ASSUME SemanticVectorsAssumption ==
    /\ Agents \cap Embedders = {}
    /\ Watchers \subseteq Embedders
    /\ MaxArtifacts \in Nat /\ MaxFaults \in Nat
    /\ None \notin Nat /\ None # "active"

VARIABLES
    artifacts,  \* semantic_artifacts: document and the artifact it supersedes
    profile,    \* is the profile stored?
    vectors,    \* semantic_embeddings: the documents with a vector
    indexed,    \* semantic_embedding_index_entries: row id -> artifact
    ranked,     \* the virtual table: row id -> vector
    complete,   \* the completion marker
    workers,    \* annotations and passes under way
    answers,    \* what the annotation of each artifact was answered, or None
    failures

semantic_vars ==
    <<artifacts, profile, vectors, indexed, ranked, complete, workers, answers, failures>>
plane == <<artifacts, profile, vectors, indexed, ranked, complete>>

Superseded(a) == \E s \in DOMAIN artifacts : artifacts[s].supersedes = a
Current == {a \in DOMAIN artifacts : ~Superseded(a)}
Documents(list) == {artifacts[a].doc : a \in list}

-----------------------------------------------------------------------------
(* Readiness and search.                                                   *)

(* ready_semantic_search_profile: the marker, and no entry without a row or  *)
(* row without an entry.  The artifacts themselves are not consulted.        *)
SemanticReady == profile /\ complete /\ DOMAIN indexed = DOMAIN ranked

(* The artifacts a search can rank. *)
SemanticServed == {indexed[i] : i \in DOMAIN indexed \cap DOMAIN ranked} \cap Current

-----------------------------------------------------------------------------
(* Annotations: annotate_request_with_provider.                            *)

SemanticIdle == [pc |-> "idle", preflight |-> "stale", artifact |-> None, listed |-> {}, todo |-> {}]

(* The preflight, before the write.  "stale" stands for the answers given    *)
(* without a refresh: no provider is configured, or the plane was not ready. *)
Preflight(w, configured) ==
    /\ workers[w].pc = "idle"
    /\ workers' = [workers EXCEPT ![w].pc = "write",
                                  ![w].preflight = IF configured /\ SemanticReady
                                                   THEN "ready" ELSE "stale"]
    /\ UNCHANGED <<plane, answers, failures>>

(* The transaction: the artifact, and every completion marker is cleared.    *)
(* Only a plane that was ready is topped up.                                 *)
MarkStale == FALSE

PublishArtifact(w, doc, supersedes) ==
    /\ workers[w].pc = "write"
    /\ Len(artifacts) < MaxArtifacts
    /\ artifacts' = Append(artifacts, [doc |-> doc, supersedes |-> supersedes])
    /\ complete' = MarkStale
    /\ LET refresh == workers[w].preflight = "ready"
       IN /\ workers' = [workers EXCEPT ![w] =
                             IF refresh
                             THEN [SemanticIdle EXCEPT !.pc = "list", !.artifact = Len(artifacts')]
                             ELSE SemanticIdle]
          /\ answers' = Append(answers, IF refresh THEN None ELSE workers[w].preflight)
    /\ UNCHANGED <<profile, vectors, indexed, ranked, failures>>

-----------------------------------------------------------------------------
(* Passes: embed_semantic_missing_interruptible.                           *)

(* The current documents are listed, and those without a vector. *)
ListedMissing == {a \in Current : artifacts[a].doc \notin vectors}
Listed == Current

StartSemanticPass(w) ==
    LET todo == Documents(Listed) \ vectors
    IN /\ workers[w].pc = IF w \in Agents THEN "list" ELSE "idle"
       /\ todo # {} \/ profile
       /\ workers' = [workers EXCEPT ![w].pc = IF todo = {} THEN "sync" ELSE "embed",
                                     ![w].listed = Listed,
                                     ![w].todo = todo]
       /\ UNCHANGED <<plane, answers, failures>>

(* One batch is answered, the profile stored with the first, and committed. *)
EmbedSemanticBatch(w, doc) ==
    LET left == workers[w].todo \ {doc}
    IN /\ workers[w].pc = "embed"
       /\ doc \in workers[w].todo
       /\ profile' = TRUE
       /\ vectors' = vectors \cup {doc}
       /\ workers' = [workers EXCEPT ![w].todo = left,
                                     ![w].pc = IF left = {} THEN "sync" ELSE "embed"]
       /\ UNCHANGED <<artifacts, indexed, ranked, complete, answers, failures>>

(* sync_semantic_vector_index: occurrences of artifacts that are not listed  *)
(* go with their rows, listed ones get an entry and a row, and the marker is *)
(* set.                                                                      *)
KeptEntries(list) == {i \in DOMAIN indexed : indexed[i] \in list}
RowsLeft(list) == DOMAIN ranked
KeptRows(list) == {i \in DOMAIN ranked : i \in KeptEntries(list)}

OccurrencesOnce(list) ==
    IF complete THEN indexed
    ELSE [i \in 1 .. Cardinality(list) |->
              CHOOSE a \in list : Cardinality({b \in list : b < a}) = i - 1]
Occurrences(list) ==
    LET kept  == KeptEntries(list)
        new   == list \ {indexed[i] : i \in kept}
        first == Fresh(kept)
    IN [i \in kept \cup first .. first + Cardinality(new) - 1 |->
            IF i \in kept THEN indexed[i]
            ELSE CHOOSE a \in new : Cardinality({b \in new : b < a}) = i - first]

Answered(w, answer) ==
    [a \in DOMAIN answers |-> IF a = workers[w].artifact THEN answer ELSE answers[a]]

SyncSemanticPass(w) ==
    LET list == workers[w].listed
        occurrences == Occurrences(list)
    IN /\ workers[w].pc = "sync"
       /\ Documents(list) \subseteq vectors
       /\ indexed' = occurrences
       /\ ranked' = [i \in DOMAIN occurrences |->
                        IF i \in KeptRows(list) THEN ranked[i] ELSE artifacts[occurrences[i]].doc]
       /\ complete' = TRUE
       /\ answers' = Answered(w, "active")
       /\ workers' = [workers EXCEPT ![w] = SemanticIdle]
       /\ UNCHANGED <<artifacts, profile, vectors, failures>>

(* The provider or the database fails or the process dies; the watcher's     *)
(* pass is also canceled by a newer snapshot.  An annotation keeps its       *)
(* artifact and answers "degraded", or nothing if the process died.          *)
EndSemanticPass(w) ==
    /\ workers[w].pc # "idle"
    /\ failures < MaxFaults
    /\ failures' = failures + 1
    /\ workers' = [workers EXCEPT ![w] = SemanticIdle]
    /\ \E answer \in {"degraded", None} : answers' = Answered(w, answer)
    /\ UNCHANGED plane

-----------------------------------------------------------------------------
SemanticInit ==
    /\ artifacts = <<>> /\ profile = FALSE /\ vectors = {}
    /\ indexed = <<>> /\ ranked = <<>> /\ complete = FALSE
    /\ workers = [w \in Workers |-> SemanticIdle]
    /\ answers = <<>> /\ failures = 0

Annotate(w) ==
    \/ \E configured \in BOOLEAN : Preflight(w, configured)
    \/ \E doc \in Docs, supersedes \in {None} \cup Current : PublishArtifact(w, doc, supersedes)

Pass(w) ==
    \/ StartSemanticPass(w)
    \/ SyncSemanticPass(w)
    \/ \E doc \in Docs : EmbedSemanticBatch(w, doc)

SemanticNext ==
    \/ \E w \in Agents : Annotate(w)
    \/ \E w \in Workers : Pass(w) \/ EndSemanticPass(w)

SemanticSpec == SemanticInit /\ [][SemanticNext]_semantic_vars

(* A watcher's pass runs to its end and comes again with the next snapshot. *)
SemanticFairSpec == SemanticSpec /\ \A w \in Watchers : WF_semantic_vars(Pass(w))

-----------------------------------------------------------------------------
SemanticTypeOK ==
    /\ DOMAIN artifacts \subseteq 1 .. MaxArtifacts
    /\ vectors \subseteq Docs /\ profile \in BOOLEAN /\ complete \in BOOLEAN
    /\ DOMAIN answers = DOMAIN artifacts
    /\ \A a \in DOMAIN answers : answers[a] \in {None, "stale", "degraded", "active"}
    /\ \A w \in Workers :
         /\ workers[w].pc \in {"idle", "write", "list", "embed", "sync"}
         /\ workers[w].listed \subseteq DOMAIN artifacts

(* Entries and rows are the same occurrences, each artifact has at most one, *)
(* and its vector is that of the artifact's own document: row ids are reused *)
(* after a prune.  (With the types.)                                         *)
VectorsMatch ==
    /\ SemanticTypeOK
    /\ DOMAIN ranked = DOMAIN indexed
    /\ \A i \in DOMAIN indexed : /\ indexed[i] \in DOMAIN artifacts
                                 /\ ranked[i] = artifacts[indexed[i]].doc
                                 /\ ranked[i] \in vectors
    /\ \A i, j \in DOMAIN indexed : indexed[i] = indexed[j] => i = j

(* A pass that comes to its synchronization finds every listed document      *)
(* cached: the read of the vector there has no other answer than success,    *)
(* though the list is as old as the provider is slow.                        *)
SyncFindsVectors ==
    \A w \in Workers : workers[w].pc = "sync" => Documents(workers[w].listed) \subseteq vectors

(* What a ready plane leaves out are the newest artifacts only: those        *)
(* published after the pass that synchronised last had listed its documents. *)
(* An older artifact that is still current is always served.                 *)
ReadyServesPrefix ==
    /\ SyncFindsVectors
    /\ SemanticReady =>
           \A a, b \in Current : (a < b /\ b \in SemanticServed) => a \in SemanticServed

(* What retrieval may rely on.                                               *)
PlaneSound == VectorsMatch /\ ReadyServesPrefix

(* An annotation answered "active" is served at that moment, unless another  *)
(* agent has superseded it meanwhile.                                        *)
ActiveIsServed ==
    [][\A a \in DOMAIN answers :
          (answers'[a] = "active" /\ answers[a] # "active")
              => (a \in SemanticServed' \/ Superseded(a)')]_semantic_vars

(* When the annotations stop, the watcher's passes end up serving every      *)
(* current artifact, whatever other passes wrote meanwhile.                  *)
EventuallyServed ==
    Watchers # {} =>
        <>[](artifacts = <<>> \/ (SemanticReady /\ SemanticServed = Current))

(* semantic.rs:515: when the refresh after an annotation fails, "the         *)
(* returned status and the next retrieval both expose the degraded vector    *)
(* plane": while such an artifact is current and not served, the plane is    *)
(* not ready.  The code does not have this property, as the README explains. *)
DegradedExposed ==
    \A a \in Current \ SemanticServed : answers[a] = "degraded" => ~SemanticReady
=============================================================================
