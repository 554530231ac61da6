---------------------------- MODULE CodeVectors ----------------------------
(***************************************************************************)
(* The code vector plane (src/src/embed.rs): a durable cache of vectors,   *)
(* keyed by content, and the materialised occurrences searched through     *)
(* sqlite-vec.  The indexer replaces the chunks and their occurrences in   *)
(* one transaction, embedding passes fill the cache batch by batch and     *)
(* synchronise the occurrences last, and searches read both.               *)
(*                                                                         *)
(* Abstractions: a file is one chunk, its content a hash; a vector is the  *)
(* hash it was computed from; the profiles have one dimension, so they     *)
(* share the virtual table.  A row id is the largest one plus one, as      *)
(* SQLite picks it for an INTEGER PRIMARY KEY.  A transaction or savepoint *)
(* is one step; one that fails leaves nothing behind.                      *)
(***************************************************************************)
EXTENDS VectorPlane

CONSTANTS
    Files,            \* paths, in the order of the inventory
    Hashes,           \* contents
    Profiles,         \* embedding profiles, in the order of their ids
    Passes,           \* the processes that run embedding passes
    ProfileOf,        \* the profile a pass is configured for
    WatchPasses,      \* the passes a newer snapshot may cancel
    Selections,       \* pass -> the file sets it may be asked to embed
    MaxPublications   \* bounds the index publications

ASSUME CodeVectorsAssumption ==
    /\ Files \subseteq Nat /\ IsFiniteSet(Files)
    /\ Profiles \subseteq Nat /\ IsFiniteSet(Profiles)
    /\ ProfileOf \in [Passes -> Profiles]
    /\ WatchPasses \subseteq Passes
    /\ Selections \in [Passes -> SUBSET SUBSET Files]
    /\ \A w \in WatchPasses : Selections[w] = {Files}
    /\ MaxPublications \in Nat /\ MaxFaults \in Nat
    /\ None \notin Hashes

VARIABLES
    schema,      \* "old" until a writer has opened the database
    files,       \* file -> its chunk row, or None
    profiles,    \* embedding_profiles
    cache,       \* embeddings: <<profile, hash>>
    entries,     \* embedding_index_entries: row id -> chunk and profile
    table,       \* the virtual table: "missing", "obsolete" or "current"
    rows,        \* its rows: row id -> vector and profile
    synced,      \* the profiles whose completion marker is set
    passes,      \* the embedding passes under way
    publications, faults

vars == <<schema, files, profiles, cache, entries, table, rows, synced,
          passes, publications, faults>>
store == <<schema, files, profiles, cache, entries, table, rows, synced>>

Without(f, ids) == Restrict(f, DOMAIN f \ ids)
Merge(f, g) == [i \in DOMAIN f \cup DOMAIN g |-> IF i \in DOMAIN f THEN f[i] ELSE g[i]]

Indexed(fs) == {f \in Files : fs[f] # None}
ChunkIds(fs) == {fs[f].id : f \in Indexed(fs)}
HashOf(fs, c) == fs[CHOOSE f \in Indexed(fs) : fs[f].id = c].hash

-----------------------------------------------------------------------------
(* The occurrences.                                                        *)

(* Current chunks whose vector is cached and which have no occurrence yet. *)
Unmaterialized(fs, es, p) ==
    {c \in ChunkIds(fs) : /\ <<p, HashOf(fs, c)>> \in cache
                          /\ \A i \in DOMAIN es : es[i] # [chunk |-> c, profile |-> p]}

(* materialize_profile for the profiles ps, one after the other: an entry    *)
(* for each of their chunks in order, and under its id a row.                *)
Before(r, q) == r.profile < q.profile \/ (r.profile = q.profile /\ r.chunk < q.chunk)

Numbered(es, pairs) ==
    LET first == Fresh(DOMAIN es)
    IN [i \in first .. first + Cardinality(pairs) - 1 |->
            CHOOSE q \in pairs : Cardinality({r \in pairs : Before(r, q)}) = i - first]

Materialized(fs, es, rs, ps) ==
    LET pairs == UNION {{[chunk |-> c, profile |-> p] : c \in Unmaterialized(fs, es, p)} : p \in ps}
        new   == Numbered(es, pairs)
    IN [entries |-> Merge(es, new),
        rows    |-> Merge(rs, [i \in DOMAIN new |->
                        [vec |-> HashOf(fs, new[i].chunk), profile |-> new[i].profile]])]

(* ensure_vector_table: a table of an older layout is dropped, and every     *)
(* profile of its dimension loses its marker with it.                        *)
EnsuredRows == IF table = "current" THEN rows ELSE <<>>
EnsuredSynced == IF table = "current" THEN synced ELSE {}

(* sync_vector_index: the full audit of one profile. *)
Audited(p) ==
    LET kept == Without(EnsuredRows,
                    {i \in DOMAIN EnsuredRows : EnsuredRows[i].profile = p
                                                /\ i \notin DOMAIN entries})
        made == Materialized(files, entries, kept, {p})
        lost == {i \in DOMAIN made.entries \ DOMAIN made.rows : made.entries[i].profile = p}
    IN [entries |-> made.entries,
        rows    |-> Merge(made.rows, [i \in lost |->
                        [vec |-> HashOf(files, made.entries[i].chunk), profile |-> p]])]

(* The checks of a search: ready_search_profile. *)
Ready(p) ==
    /\ p \in profiles
    /\ p \in synced
    /\ Unmaterialized(files, entries, p) = {}
    /\ table = "current"

(* exact_vector_search joins the rows to their entries. *)
Served(p) ==
    {<<entries[i].chunk, rows[i].vec>> :
        i \in {j \in DOMAIN rows \cap DOMAIN entries : rows[j].profile = p}}

-----------------------------------------------------------------------------
(* The database and the index.                                             *)

(* rebuild_legacy_disposable_schema: the cache survives, every row derived   *)
(* from a snapshot goes, the virtual tables are emptied but kept.            *)
RebuildSchema ==
    /\ schema = "old"
    /\ schema' = "new"
    /\ files' = [f \in Files |-> None]
    /\ entries' = <<>>
    /\ rows' = <<>>
    /\ synced' = {}
    /\ UNCHANGED <<profiles, cache, table, passes, publications, faults>>

(* The one transaction of an index publication: the entries `gone` and their *)
(* rows are deleted, the files become fs, and when something was inserted    *)
(* materialize_cached_embeddings follows for every code profile.             *)
GoneRowsKept(gone, base) == base
GoneRows(gone, base) == Without(base, gone)

FillsNever(inserted) == FALSE
Fills(inserted) == inserted /\ profiles # {}

Publish(fs, gone, inserted) ==
    LET fills   == Fills(inserted)
        ensures == fills \/ gone # {}
        es      == Without(entries, gone)
        rs      == GoneRows(gone, IF ensures THEN EnsuredRows ELSE rows)
        made    == Materialized(fs, es, rs, profiles)
    IN /\ schema = "new"
       /\ publications < MaxPublications
       /\ publications' = publications + 1
       /\ files' = fs
       /\ entries' = IF fills THEN made.entries ELSE es
       /\ rows' = IF fills THEN made.rows ELSE rs
       /\ table' = IF ensures THEN "current" ELSE table
       /\ synced' = IF ensures THEN EnsuredSynced ELSE synced
       /\ UNCHANGED <<schema, profiles, cache, passes, faults>>

(* A full refresh: reset_snapshot_state empties the tables, then every file  *)
(* of the worktree is inserted again.                                        *)
FullRefresh(present, hash) ==
    LET rank(f) == Cardinality({g \in present : g <= f})
    IN Publish([f \in Files |-> IF f \in present
                                THEN [id |-> rank(f), hash |-> hash[f]] ELSE None],
               DOMAIN entries, present # {})

EntriesOf(f) == {i \in DOMAIN entries : files[f] # None /\ entries[i].chunk = files[f].id}

(* An incremental refresh: store::delete_file for the file that changed or   *)
(* went away, then its new chunk.                                            *)
RemoveFile(f) ==
    /\ files[f] # None
    /\ Publish([files EXCEPT ![f] = None], EntriesOf(f), FALSE)

ReplaceFile(f, h) ==
    /\ files[f] # None => files[f].hash # h
    /\ LET left == [files EXCEPT ![f] = None]
       IN Publish([left EXCEPT ![f] = [id |-> Fresh(ChunkIds(left)), hash |-> h]],
                  EntriesOf(f), TRUE)

-----------------------------------------------------------------------------
(* Embedding passes: embed_missing_for_selection_interruptible.            *)

Idle == [pc |-> "idle", todo |-> {}, repair |-> FALSE]

Missing(p, selection) ==
    {files[f].hash : f \in {g \in selection : files[g] # None
                                              /\ <<p, files[g].hash>> \notin cache}}

(* Resolve the profile and scan the selected chunks that have no vector. *)
StartPass(w, selection, repair) ==
    LET p == ProfileOf[w]
        todo == Missing(p, selection)
    IN /\ schema = "new"
       /\ passes[w].pc = "idle"
       /\ todo # {} \/ p \in profiles
       /\ repair => w \notin WatchPasses
       /\ passes' = [passes EXCEPT ![w] =
                        [pc |-> IF todo = {} THEN "sync" ELSE "embed",
                         todo |-> todo, repair |-> repair]]
       /\ UNCHANGED <<store, publications, faults>>

(* One batch: the provider answers for the contents that were scanned, the   *)
(* profile is created with the first answer, the vectors are committed.      *)
(* The code commits the profile, its table and the vectors one after the     *)
(* other; a pass that ends between them leaves a profile without vectors,    *)
(* which no search finds complete and the next pass takes up.                *)
EmbedBatch(w, h) ==
    LET p == ProfileOf[w]
        left == passes[w].todo \ {h}
        creates == p \notin profiles
    IN /\ passes[w].pc = "embed"
       /\ h \in passes[w].todo
       /\ profiles' = profiles \cup {p}
       /\ cache' = cache \cup {<<p, h>>}
       /\ rows' = IF creates THEN EnsuredRows ELSE rows
       /\ synced' = IF creates THEN EnsuredSynced ELSE synced
       /\ table' = IF creates THEN "current" ELSE table
       /\ passes' = [passes EXCEPT ![w].todo = left,
                                   ![w].pc = IF left = {} THEN "sync" ELSE "embed"]
       /\ UNCHANGED <<schema, files, entries, publications, faults>>

(* synchronize_vector_index.  Without a repair, a marker and a table mean    *)
(* that only the missing occurrences are added.                              *)
AuditsMissing(w) == passes[w].repair \/ table = "missing"
Audits(w) == passes[w].repair \/ ProfileOf[w] \notin synced \/ table = "missing"

SyncPass(w) ==
    LET p == ProfileOf[w]
        audits == Audits(w)
        made == IF audits THEN Audited(p) ELSE Materialized(files, entries, rows, {p})
    IN /\ passes[w].pc = "sync"
       /\ entries' = made.entries
       /\ rows' = made.rows
       /\ synced' = IF audits THEN EnsuredSynced \cup {p} ELSE synced
       /\ table' = IF audits THEN "current" ELSE table
       /\ passes' = [passes EXCEPT ![w] = Idle]
       /\ UNCHANGED <<schema, files, profiles, cache, publications, faults>>

(* The provider or the database fails, or the process dies, at any step; a   *)
(* pass of the watcher also ends when a newer snapshot supersedes it.        *)
EndPass(w) ==
    /\ passes[w].pc # "idle"
    /\ faults < MaxFaults
    /\ faults' = faults + 1
    /\ passes' = [passes EXCEPT ![w] = Idle]
    /\ UNCHANGED <<store, publications>>

-----------------------------------------------------------------------------
(* A database is new, or an older build left it: every vector materialised,  *)
(* in a table without the format partition.                                  *)
NewDatabase ==
    /\ schema = "new" /\ table = "missing"
    /\ files = [f \in Files |-> None]
    /\ profiles = {} /\ cache = {} /\ synced = {}
    /\ entries = <<>> /\ rows = <<>>

OldDatabase ==
    /\ schema = "old" /\ table = "obsolete"
    /\ files \in [Files -> {None}]
    /\ profiles = Profiles /\ synced = Profiles
    /\ cache = Profiles \X Hashes
    /\ entries = <<>> /\ rows = <<>>

Init ==
    /\ NewDatabase \/ OldDatabase
    /\ passes = [w \in Passes |-> Idle]
    /\ publications = 0 /\ faults = 0

Refresh ==
    \/ \E present \in SUBSET Files : \E hash \in [present -> Hashes] : FullRefresh(present, hash)
    \/ \E f \in Files : RemoveFile(f) \/ \E h \in Hashes : ReplaceFile(f, h)

Step(w) ==
    \/ \E selection \in Selections[w], repair \in BOOLEAN : StartPass(w, selection, repair)
    \/ \E h \in Hashes : EmbedBatch(w, h)
    \/ SyncPass(w)

Next ==
    \/ RebuildSchema
    \/ Refresh
    \/ \E w \in Passes : Step(w) \/ EndPass(w)

Spec == Init /\ [][Next]_vars

(* The watcher opens the database, and after every refresh it runs a pass to *)
(* its end unless a newer snapshot supersedes it.                            *)
Fairness ==
    /\ WF_vars(RebuildSchema)
    /\ \A w \in WatchPasses :
         /\ WF_vars(\E h \in Hashes : EmbedBatch(w, h))
         /\ WF_vars(SyncPass(w))
         /\ WF_vars(StartPass(w, Files, FALSE))
FairSpec == Spec /\ Fairness

-----------------------------------------------------------------------------
TypeOK ==
    /\ schema \in {"old", "new"} /\ table \in {"missing", "obsolete", "current"}
    /\ profiles \subseteq Profiles /\ synced \subseteq profiles
    /\ cache \subseteq profiles \X Hashes
    /\ \A w \in Passes : passes[w].pc \in {"idle", "embed", "sync"}

(* A row id names one chunk in both tables: every occurrence has its row,    *)
(* every row its occurrence, and the vector is that of the chunk's content.  *)
(* sqlite-vec rows have no foreign key and SQLite reuses ids, so a row that  *)
(* outlived its chunk would answer for another one.  (With the types.)       *)
RowsMatchChunks ==
    /\ TypeOK
    /\ DOMAIN rows = DOMAIN entries
    /\ \A i \in DOMAIN entries :
         /\ entries[i].chunk \in ChunkIds(files)
         /\ rows[i] = [vec |-> HashOf(files, entries[i].chunk),
                       profile |-> entries[i].profile]
         /\ <<rows[i].profile, rows[i].vec>> \in cache

(* A plane that reports itself ready serves every current chunk whose vector *)
(* is cached, exactly once, and nothing else: readiness is decided on the    *)
(* marker and the occurrences alone, never by reading the virtual rows.      *)
ReadyServesCache ==
    \A p \in Profiles : Ready(p) =>
        Served(p) = {<<c, HashOf(files, c)>> : c \in
                        {d \in ChunkIds(files) : <<p, HashOf(files, d)>> \in cache}}

(* What search may rely on.                                                  *)
SearchExact == RowsMatchChunks /\ ReadyServesCache

(* Publishing an index never takes a ready plane away: its cached vectors    *)
(* are materialised in the same transaction.                                 *)
PublicationKeepsSearch ==
    [][publications' # publications =>
         \A p \in Profiles : Ready(p) => Ready(p)']_vars

(* Whatever failed or was canceled, and however often the index was          *)
(* republished meanwhile, the watcher's profile ends up ready with every     *)
(* selected chunk embedded.                                                  *)
SearchRecovers ==
    \A w \in WatchPasses :
        <>[](\/ Indexed(files) = {}
             \/ /\ Ready(ProfileOf[w])
                /\ Missing(ProfileOf[w], Files) = {})
=============================================================================
