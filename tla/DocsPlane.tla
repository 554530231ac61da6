----------------------------- MODULE DocsPlane -----------------------------
(***************************************************************************)
(* The documentation plane (src/src/docs, src/src/indexer.rs): an index    *)
(* attempt records Git's state, reads the documents, attributes each to    *)
(* its authors, and publishes documents, provenance and the vector         *)
(* generation in one transaction that ends with a validation of what was   *)
(* recorded; an embedding pass fills the vector cache without a lock and   *)
(* publishes a generation only for the digest it started from.             *)
(*                                                                         *)
(* Abstractions: a document is one chunk and its content a model value;    *)
(* one embedding profile; the documentation digest is the contents that    *)
(* are published.  What Git answers for a path is the record of what the   *)
(* answer depends on.  The clone only gets deeper and its conversion       *)
(* rules only move forward: the code compares two readings, and a value    *)
(* that came back between them would look unchanged.                       *)
(***************************************************************************)
EXTENDS Naturals, FiniteSets, Functions

CONSTANTS
    Docs,         \* documentation paths, in the order of the inventory
    Contents,     \* what a document may hold
    Heads,        \* commits that may be checked out
    TipOf,        \* head -> path -> newest commit that touches it, or None
    Starts,       \* heads and worktrees a repository may start with
    Indexers,     \* processes that index: the watcher, the command line
    Watchers,     \* the indexers that come again after every change
    Embedders,    \* processes that run `jscout docs embed`
    MaxAttempts,  \* MAX_PROVENANCE_ATTEMPTS
    MaxChanges,   \* bounds the changes of Git's state and of the worktree
    MaxFaults,    \* bounds the failures
    None

(* What is recorded of Git, and the cache key of an attribution. *)
GitStates == [head : Heads, index : SUBSET Docs, shallow : BOOLEAN, conversion : Nat]
BlameKeys ==
    [content : Contents, shallow : BOOLEAN, conversion : Nat,
     tip : [commit : {TipOf[h][d] : h \in Heads, d \in Docs}, shallow : BOOLEAN]]

ASSUME DocsPlaneAssumption ==
    /\ Docs \subseteq Nat
    /\ DOMAIN TipOf = Heads
    /\ Starts \subseteq [head : Heads, worktree : [Docs -> Contents \cup {None}]]
    /\ Watchers \subseteq Indexers
    /\ MaxAttempts \in Nat \ {0}
    /\ MaxChanges \in Nat /\ MaxFaults \in Nat
    /\ None \notin [Docs -> Contents \cup {None}]
    /\ None \notin GitStates /\ None \notin BlameKeys

VARIABLES
    git,         \* HEAD, index membership, depth of the clone, conversion rules
    worktree,    \* path -> content, or None
    indexers,    \* index operations under way
    published,   \* path -> chunk, content and provenance, or None
    basis,       \* history: the Git state of the publication, None before the first
    blames,      \* doc_blame_cache: path -> key and attribution, or None
    profile,     \* is the embedding profile stored?
    cache,       \* contents that have a vector
    generation,  \* doc_vector_generations: the digest, or None
    entries,     \* the occurrences of the generation: chunk -> vector
    embedders,   \* embedding passes under way
    changes, faults

vars == <<git, worktree, indexers, published, basis, blames, profile, cache,
          generation, entries, embedders, changes, faults>>
store == <<published, basis, blames, profile, cache, generation, entries>>
outside == <<git, worktree, changes>>

Digest(pub) == [d \in Docs |-> IF pub[d] = None THEN None ELSE pub[d].content]
Indexed(pub) == {d \in Docs : pub[d] # None}

-----------------------------------------------------------------------------
(* Git.                                                                    *)

Unknown == [status |-> "untracked"]
Failed == [status |-> "failed"]

(* A path absent from the index or from HEAD has no authors. *)
Tracked(head, index, d) == d \in index /\ TipOf[head][d] # None

(* The attribution of a content depends on the history of the path, on how   *)
(* far the clone reaches and on how Git converts the worktree's bytes.       *)
Attribution(head, shallow, conversion, d, content) ==
    [status |-> "resolved", tip |-> TipOf[head][d], shallow |-> shallow,
     conversion |-> conversion, content |-> content]

Move ==
    /\ changes < MaxChanges
    /\ changes' = changes + 1
    /\ \/ \E h \in Heads \ {git.head} : git' = [git EXCEPT !.head = h]
       \/ \E d \in Docs : git' = [git EXCEPT !.index = IF d \in @ THEN @ \ {d} ELSE @ \cup {d}]
       \/ git.shallow /\ git' = [git EXCEPT !.shallow = FALSE]
       \/ git' = [git EXCEPT !.conversion = @ + 1]
    /\ UNCHANGED <<worktree, indexers, store, embedders, faults>>

Edit(d, content) ==
    /\ worktree[d] # content
    /\ changes < MaxChanges
    /\ changes' = changes + 1
    /\ worktree' = [worktree EXCEPT ![d] = content]
    /\ UNCHANGED <<git, indexers, store, embedders, faults>>

-----------------------------------------------------------------------------
(* An index attempt: index_repo_impl, index_repo_attempt.                  *)

Idle == [pc |-> "idle", attempt |-> 0, full |-> FALSE, git |-> None,
         files |-> None, todo |-> {}, key |-> None, keys |-> None, provenance |-> None]
Writing == \E w \in Indexers : indexers[w].pc \in {"validate", "commit"}

(* RepositoryCapture::capture, before anything is read. *)
Capture(w, full) ==
    /\ \/ indexers[w].pc = "idle"
       \/ indexers[w].pc = "retry" /\ full = indexers[w].full
    /\ indexers' = [indexers EXCEPT ![w] =
                       [Idle EXCEPT !.pc = "inventory", !.full = full, !.git = git,
                                    !.attempt = indexers[w].attempt + 1]]
    /\ UNCHANGED <<outside, store, embedders, faults>>

(* The documents' bytes are read once; everything below uses these. *)
Inventory(w) ==
    /\ indexers[w].pc = "inventory"
    /\ indexers' = [indexers EXCEPT
           ![w].pc = IF \A d \in Docs : worktree[d] = None THEN "write" ELSE "prepare",
           ![w].files = worktree,
           ![w].todo = {d \in Docs : worktree[d] # None},
           ![w].keys = [d \in Docs |-> None],
           ![w].provenance = [d \in Docs |-> None]]
    /\ UNCHANGED <<outside, store, embedders, faults>>

NextDoc(w) == CHOOSE d \in indexers[w].todo : \A e \in indexers[w].todo : d <= e

Resolved(w, provenance) ==
    LET left == indexers[w].todo \ {NextDoc(w)}
    IN [indexers[w] EXCEPT !.pc = IF left = {} THEN "write" ELSE "prepare",
                           !.todo = left,
                           !.provenance[NextDoc(w)] = provenance,
                           !.keys[NextDoc(w)] = indexers[w].key,
                           !.key = None]

(* prepare_document: the recorded HEAD and index decide whether the path is  *)
(* tracked; the cache key reads the conversion and the history as they are   *)
(* now, the depth as it was recorded.  These are several Git commands: the   *)
(* last reads the conversion, and Stable refuses an attempt during which     *)
(* what the others read has moved.                                           *)
BlameKey(recorded, d, content) ==
    [content |-> content, tip |-> [commit |-> TipOf[recorded.head][d], shallow |-> git.shallow],
     shallow |-> recorded.shallow, conversion |-> git.conversion]

PrepareDocument(w) ==
    LET d == NextDoc(w)
        recorded == indexers[w].git
    IN /\ indexers[w].pc = "prepare"
       /\ indexers' = [indexers EXCEPT ![w] =
              IF Tracked(recorded.head, recorded.index, d)
              THEN [@ EXCEPT !.pc = "blame", !.key = BlameKey(recorded, d, indexers[w].files[d])]
              ELSE Resolved(w, Unknown)]
       /\ UNCHANGED <<outside, store, embedders, faults>>

(* The cached attribution of exactly this key, or else git blame, which sees *)
(* the depth and the conversion as they are by then.                         *)
Hits(d, key) == blames[d] # None /\ blames[d].key = key

BlameDocument(w) ==
    LET d == NextDoc(w)
        key == indexers[w].key
    IN /\ indexers[w].pc = "blame"
       /\ indexers' = [indexers EXCEPT ![w] =
              Resolved(w, IF Hits(d, key) THEN blames[d].attribution
                          ELSE Attribution(indexers[w].git.head, git.shallow, git.conversion,
                                           d, key.content))]
       /\ UNCHANGED <<outside, store, embedders, faults>>

(* A blame that fails degrades this document only. *)
BlameFails(w) ==
    /\ indexers[w].pc = "blame"
    /\ ~Hits(NextDoc(w), indexers[w].key)
    /\ faults < MaxFaults
    /\ faults' = faults + 1
    /\ indexers' = [indexers EXCEPT ![w] = Resolved(w, Failed)]
    /\ UNCHANGED <<outside, store, embedders>>

(* A Git command that fails while the key is made: the document has no key,  *)
(* and its conversion is not read again before the commit.  No command is    *)
(* run for a path that the recorded index does not list.                     *)
PrepareFails(w) ==
    /\ indexers[w].pc = "prepare"
    /\ NextDoc(w) \in indexers[w].git.index
    /\ faults < MaxFaults
    /\ faults' = faults + 1
    /\ indexers' = [indexers EXCEPT ![w] = Resolved(w, Failed)]
    /\ UNCHANGED <<outside, store, embedders>>

Stable(w) ==
    LET recorded == indexers[w].git
    IN /\ git.head = recorded.head
       /\ git.index = recorded.index
       /\ git.shallow = recorded.shallow

(* A drift rolls everything back and captures anew, three times in all. *)
Drifted(w) ==
    IF indexers[w].attempt < MaxAttempts
    THEN [Idle EXCEPT !.pc = "retry", !.full = indexers[w].full,
                      !.attempt = indexers[w].attempt]
    ELSE Idle

(* BEGIN IMMEDIATE, the rows, and the early check of Git's state. *)
Write(w) ==
    /\ indexers[w].pc = "write"
    /\ ~Writing
    /\ indexers' = [indexers EXCEPT ![w] = IF Stable(w) THEN [@ EXCEPT !.pc = "validate"]
                                           ELSE Drifted(w)]
    /\ UNCHANGED <<outside, store, embedders, faults>>

(* The last check: Git's state first, then the conversion of every document. *)
Validate(w) ==
    /\ indexers[w].pc = "validate"
    /\ indexers' = [indexers EXCEPT ![w] = IF Stable(w) THEN [@ EXCEPT !.pc = "commit"]
                                           ELSE Drifted(w)]
    /\ UNCHANGED <<outside, store, embedders, faults>>

ConversionUnread(w) == TRUE
ConversionStable(w) ==
    \A d \in Docs : indexers[w].keys[d] # None =>
        indexers[w].keys[d].conversion = git.conversion

-----------------------------------------------------------------------------
(* The vector generation.                                                  *)

CompleteDeleted(pub) == \A d \in Docs : pub[d] # None /\ pub[d].content \in cache
Complete(pub) ==
    Indexed(pub) # {} /\ \A d \in Indexed(pub) : pub[d].content \in cache

Vectors(pub) ==
    [c \in {pub[d].chunk : d \in Indexed(pub)} |->
        pub[CHOOSE d \in Indexed(pub) : pub[d].chunk = c].content]

(* rebuild_profile_generation_from_cache: the profile's generation is        *)
(* dropped, and published again only when every occurrence has its vector.   *)
GenerationDropped(pub) == None
RebuiltGeneration(pub) == IF profile /\ Complete(pub) THEN Digest(pub) ELSE None
RebuiltEntries(pub) == IF profile /\ Complete(pub) THEN Vectors(pub) ELSE <<>>

(* resolve_vector_ranking. *)
Ready == profile /\ generation # None /\ generation = Digest(published)

-----------------------------------------------------------------------------
(* Row ids: a changed document is deleted and inserted again, an unchanged   *)
(* one keeps its row; a full refresh renumbers.                              *)
Kept(w) ==
    {d \in Indexed(published) : /\ ~indexers[w].full
                                /\ indexers[w].files[d] = published[d].content}

Numbered(w) ==
    LET kept  == Kept(w)
        ids   == {published[d].chunk : d \in kept}
        base  == IF ids = {} THEN 0 ELSE CHOOSE i \in ids : \A j \in ids : j <= i
        new   == {d \in Docs : indexers[w].files[d] # None} \ kept
    IN [d \in kept \cup new |->
            IF d \in kept THEN published[d].chunk
            ELSE base + Cardinality({e \in new : e <= d})]

Rows(w) ==
    LET ids == Numbered(w)
    IN [d \in Docs |-> IF d \in DOMAIN ids
                       THEN [chunk |-> ids[d], content |-> indexers[w].files[d],
                             provenance |-> indexers[w].provenance[d]]
                       ELSE None]

(* upsert_blame_cache and prune_blame_cache: the keys that resolved stay. *)
Attributed(w) ==
    [d \in Docs |->
        IF indexers[w].keys[d] = None \/ indexers[w].provenance[d].status # "resolved" THEN None
        ELSE [key |-> indexers[w].keys[d], attribution |-> indexers[w].provenance[d]]]

(* A publication that keeps the digest repairs a generation that is not      *)
(* ready and leaves a ready one alone; any other starts from nothing.        *)
ReadyAlone(pub) == generation = Digest(pub)

Commit(w) ==
    LET pub == Rows(w)
        resets == indexers[w].full \/ Digest(pub) # Digest(published)
        keeps == ~resets /\ (ReadyAlone(pub) \/ ~profile)
    IN /\ indexers[w].pc = "commit"
       /\ IF ConversionStable(w)
          THEN /\ published' = pub
               /\ basis' = [indexers[w].git EXCEPT !.conversion = git.conversion]
               /\ blames' = Attributed(w)
               /\ generation' = IF keeps THEN generation ELSE RebuiltGeneration(pub)
               /\ entries' = IF keeps THEN entries ELSE RebuiltEntries(pub)
               /\ indexers' = [indexers EXCEPT ![w] = Idle]
          ELSE /\ indexers' = [indexers EXCEPT ![w] = Drifted(w)]
               /\ UNCHANGED <<published, basis, blames, generation, entries>>
       /\ UNCHANGED <<outside, profile, cache, embedders, faults>>

(* Any other failure, or the end of the process: SQLite rolls back. *)
AbortIndex(w) ==
    /\ indexers[w].pc \notin {"idle", "retry"}
    /\ faults < MaxFaults
    /\ faults' = faults + 1
    /\ indexers' = [indexers EXCEPT ![w] = Idle]
    /\ UNCHANGED <<outside, store, embedders>>

-----------------------------------------------------------------------------
(* An embedding pass: embed_current.                                       *)

Resting == [pc |-> "idle", snapshot |-> None, todo |-> {}]

(* The digest of the publication is read first, the documents by a later     *)
(* statement.                                                                *)
StartEmbed(e) ==
    /\ embedders[e].pc = "idle"
    /\ basis # None
    /\ embedders' = [embedders EXCEPT ![e] = [Resting EXCEPT !.pc = "list",
                                                             !.snapshot = Digest(published)]]
    /\ UNCHANGED <<outside, store, indexers, faults>>

NothingLeft(listed) == listed = {}

ListDocuments(e) ==
    LET listed == {published[d].content : d \in Indexed(published)}
        todo   == listed \ cache
    IN /\ embedders[e].pc = "list"
       /\ embedders' = [embedders EXCEPT ![e] =
              IF NothingLeft(listed) THEN Resting
              ELSE [@ EXCEPT !.pc = IF todo = {} THEN "publish" ELSE "embed", !.todo = todo]]
       /\ UNCHANGED <<outside, store, indexers, faults>>

EmbedBatch(e, content) ==
    LET left == embedders[e].todo \ {content}
    IN /\ embedders[e].pc = "embed"
       /\ content \in embedders[e].todo
       /\ ~Writing
       /\ profile' = TRUE
       /\ cache' = cache \cup {content}
       /\ embedders' = [embedders EXCEPT ![e].todo = left,
                                         ![e].pc = IF left = {} THEN "publish" ELSE "embed"]
       /\ UNCHANGED <<outside, indexers, published, basis, blames, generation, entries, faults>>

(* materialize_current_generation: nothing is published for a digest that    *)
(* has advanced, nor from an incomplete cache.                               *)
SnapshotUnread(e) == TRUE
SnapshotCurrent(e) == embedders[e].snapshot = Digest(published)

PublishGeneration(e) ==
    /\ embedders[e].pc = "publish"
    /\ ~Writing
    /\ IF SnapshotCurrent(e) /\ Complete(published)
       THEN /\ generation' = embedders[e].snapshot
            /\ entries' = Vectors(published)
       ELSE UNCHANGED <<generation, entries>>
    /\ embedders' = [embedders EXCEPT ![e] = Resting]
    /\ UNCHANGED <<outside, indexers, published, basis, blames, profile, cache, faults>>

AbortEmbed(e) ==
    /\ embedders[e].pc # "idle"
    /\ faults < MaxFaults
    /\ faults' = faults + 1
    /\ embedders' = [embedders EXCEPT ![e] = Resting]
    /\ UNCHANGED <<outside, store, indexers>>

-----------------------------------------------------------------------------
Init ==
    /\ \E start \in Starts :
         /\ git = [head |-> start.head, index |-> Docs, shallow |-> TRUE, conversion |-> 0]
         /\ worktree = start.worktree
    /\ indexers = [w \in Indexers |-> Idle]
    /\ published = [d \in Docs |-> None] /\ basis = None
    /\ blames = [d \in Docs |-> None]
    /\ profile = FALSE /\ cache = {} /\ generation = None /\ entries = <<>>
    /\ embedders = [e \in Embedders |-> Resting]
    /\ changes = 0 /\ faults = 0

Index(w) ==
    \/ \E full \in BOOLEAN : Capture(w, full)
    \/ Inventory(w) \/ PrepareDocument(w) \/ BlameDocument(w)
    \/ Write(w) \/ Validate(w) \/ Commit(w)

Embed(e) ==
    \/ StartEmbed(e) \/ ListDocuments(e) \/ PublishGeneration(e)
    \/ \E content \in Contents : EmbedBatch(e, content)

Next ==
    \/ Move
    \/ \E d \in Docs, content \in Contents \cup {None} : Edit(d, content)
    \/ \E w \in Indexers : Index(w) \/ PrepareFails(w) \/ BlameFails(w) \/ AbortIndex(w)
    \/ \E e \in Embedders : Embed(e) \/ AbortEmbed(e)

Spec == Init /\ [][Next]_vars

(* The watcher comes again after every change and at every reconciliation;   *)
(* a process that holds the writer lock does not hold it for ever.  Nothing  *)
(* is assumed of embedding passes: only the user's command starts one.       *)
FairSpec ==
    /\ Spec
    /\ \A w \in Watchers : SF_vars(Index(w))
    /\ \A w \in Indexers \ Watchers : WF_vars(Validate(w) \/ Commit(w))

-----------------------------------------------------------------------------
TypeOK ==
    /\ basis = None => Indexed(published) = {}
    /\ git.head \in Heads /\ git.index \subseteq Docs
    /\ cache \subseteq Contents /\ profile \in BOOLEAN
    /\ \A w \in Indexers :
         /\ indexers[w].attempt \in 0 .. MaxAttempts
         /\ indexers[w].pc \in {"idle", "retry", "inventory", "prepare", "blame",
                                "write", "validate", "commit"}
    /\ \A e \in Embedders : embedders[e].pc \in {"idle", "list", "embed", "publish"}

(* Every document of a publication is attributed in one and the same state   *)
(* of the repository, whatever moved while the attempt captured, prepared,   *)
(* blamed or hit its cache.  (With the types.)                               *)
OneGitState ==
    /\ TypeOK
    /\ \A d \in Indexed(published) :
         published[d].provenance \in
             {Failed, IF Tracked(basis.head, basis.index, d)
                      THEN Attribution(basis.head, basis.shallow, basis.conversion,
                                       d, published[d].content)
                      ELSE Unknown}

(* The generation is always that of the published documents and holds the    *)
(* vector of each of them: a search that finds it never fails on the count   *)
(* of its occurrences and never ranks a chunk by another content.            *)
GenerationExact ==
    generation # None =>
        /\ generation = Digest(published)
        /\ entries = Vectors(published)
        /\ Complete(published)

(* Publishing documents never takes search away as long as the vectors of    *)
(* what is published are cached, and leaves a ready generation alone when    *)
(* only provenance changed.                                                  *)
PublicationKeepsSearch ==
    [][published' # published =>
         /\ profile /\ Complete(published)' => Ready'
         /\ (/\ Ready /\ Digest(published)' = Digest(published)
             /\ \A w \in Indexers : indexers[w].pc = "commit" => ~indexers[w].full)
                => UNCHANGED <<generation, entries>>]_vars

(* When the repository rests and Git answers, the published documents are    *)
(* those of the worktree, and each is attributed in the state Git is in: an  *)
(* attempt that drifted, or an attribution that failed, is made again by the *)
(* watcher's next refresh.  Search comes back too, and stays, if someone     *)
(* goes on running `jscout docs embed` to its end: nobody else calls the     *)
(* provider.                                                                 *)
DocumentsCurrent ==
    /\ Digest(published) = worktree
    /\ basis = git
    /\ \A d \in Indexed(published) : published[d].provenance # Failed

EmbeddedAgainAndAgain == \E e \in Embedders : []<><<PublishGeneration(e)>>_vars

CatchesUp ==
    /\ <>[]DocumentsCurrent
    /\ EmbeddedAgainAndAgain => <>[](Indexed(published) = {} \/ Ready)
=============================================================================
