---------------------------- MODULE VectorProofs ----------------------------
(***************************************************************************)
(* The vector planes serve exactly what is current and cached, whatever    *)
(* failed, was canceled or was published between two steps of a pass.  For *)
(* any files, contents, artifacts, profiles, passes and failures.          *)
(***************************************************************************)
EXTENDS CodeVectors, SemanticVectors, FiniteSetTheorems, TLAPS

-----------------------------------------------------------------------------
(* Ranks: the members of a finite set, numbered along a strict total order.  *)

RankIn(S, R, q) == Cardinality({r \in S : <<r, q>> \in R})

Orders(R, S) ==
    /\ \A q \in S : <<q, q>> \notin R
    /\ \A q, r, t \in S : <<q, r>> \in R /\ <<r, t>> \in R => <<q, t>> \in R
    /\ \A q, r \in S : q # r => <<q, r>> \in R \/ <<r, q>> \in R

(* A smaller member has a smaller rank.                                      *)
LEMMA RankGrows ==
    ASSUME NEW S, IsFiniteSet(S), NEW R, Orders(R, S),
           NEW q \in S, NEW r \in S, <<q, r>> \in R
    PROVE  RankIn(S, R, q) < RankIn(S, R, r)
<1> DEFINE Q == {t \in S : <<t, q>> \in R}
           P == {t \in S : <<t, r>> \in R}
<1>1. Q \subseteq P /\ P \subseteq S /\ q \in P /\ q \notin Q
  BY DEF Orders
<1> HIDE DEF Q, P
<1>2. IsFiniteSet(P)
  BY <1>1, FS_Subset
<1>3. /\ IsFiniteSet(Q) /\ Cardinality(Q) <= Cardinality(P)
      /\ Cardinality(P) = Cardinality(Q) => P = Q
  BY <1>1, <1>2, FS_Subset
<1>4. Cardinality(Q) \in Nat /\ Cardinality(P) \in Nat
  BY <1>2, <1>3, FS_CardinalityType
<1>5. Cardinality(Q) < Cardinality(P)
  BY <1>1, <1>3, <1>4
<1> QED BY <1>5 DEF RankIn, Q, P

(* Each number below the size of the set is the rank of exactly one member.  *)
LEMMA RankNumbers ==
    ASSUME NEW S, IsFiniteSet(S), NEW R, Orders(R, S)
    PROVE  /\ Cardinality(S) \in Nat
           /\ \A q \in S : RankIn(S, R, q) \in 0 .. Cardinality(S) - 1
           /\ \A q, r \in S : RankIn(S, R, q) = RankIn(S, R, r) => q = r
           /\ \A k \in 0 .. Cardinality(S) - 1 : \E q \in S : RankIn(S, R, q) = k
<1> DEFINE n == Cardinality(S)
           T == 0 .. n - 1
           f == [q \in S |-> RankIn(S, R, q)]
<1>1. n \in Nat
  BY FS_CardinalityType
<1>2. ASSUME NEW q \in S
      PROVE  RankIn(S, R, q) \in T
  <2> DEFINE Q == {t \in S : <<t, q>> \in R}
  <2>1. Q \subseteq S /\ q \notin Q
    BY DEF Orders
  <2> HIDE DEF Q
  <2>2. /\ IsFiniteSet(Q) /\ Cardinality(Q) <= n
        /\ n = Cardinality(Q) => S = Q
    BY <2>1, FS_Subset
  <2>3. Cardinality(Q) \in Nat
    BY <2>2, FS_CardinalityType
  <2>4. Cardinality(Q) \in T
    BY <1>1, <2>1, <2>2, <2>3
  <2> QED BY <2>4 DEF RankIn, Q
<1>3. ASSUME NEW q \in S, NEW r \in S, RankIn(S, R, q) = RankIn(S, R, r)
      PROVE  q = r
  <2>1. RankIn(S, R, q) \in Nat /\ RankIn(S, R, r) \in Nat
    BY <1>1, <1>2
  <2>2. ~(<<q, r>> \in R) /\ ~(<<r, q>> \in R)
    BY <1>3, <2>1, RankGrows
  <2> QED BY <2>2 DEF Orders
<1>4. f \in Injection(S, T)
  BY <1>2, <1>3 DEF Injection, IsInjective
<1>5. IsFiniteSet(T) /\ Cardinality(T) = n
  <2>1. 0 \in Int /\ n - 1 \in Int
    BY <1>1
  <2>2. IsFiniteSet(0 .. n - 1) /\ Cardinality(0 .. n - 1) = IF 0 > n - 1 THEN 0 ELSE n - 1 - 0 + 1
    BY <2>1, FS_Interval
  <2> QED BY <1>1, <2>2
<1>6. f \in Surjection(S, T)
  BY <1>4, <1>5, FS_Injection
<1>7. \A k \in T : \E q \in S : f[q] = k
  BY <1>6 DEF Surjection
<1> QED BY <1>1, <1>2, <1>3, <1>7

(* The greatest of a finite set of numbers.                                  *)
LEMMA Greatest ==
    ASSUME NEW S, IsFiniteSet(S), S \subseteq Nat, S # {}
    PROVE  \E m \in S : \A j \in S : j <= m
<1> DEFINE R == {ss \in S \X S : ss[1] < ss[2]}
<1>1. Orders(R, S)
  BY DEF Orders
<1>2. \A j, m \in S : <<j, m>> \in R <=> j < m
  OBVIOUS
<1> HIDE DEF R
<1>3. Cardinality(S) \in Nat /\ Cardinality(S) # 0
  BY FS_CardinalityType, FS_EmptySet
<1>4. PICK m \in S : RankIn(S, R, m) = Cardinality(S) - 1
  BY <1>1, <1>3, RankNumbers
<1>5. ASSUME NEW j \in S, ~(j <= m)
      PROVE  FALSE
  <2>1. <<m, j>> \in R
    BY <1>2, <1>5
  <2>2. RankIn(S, R, m) < RankIn(S, R, j)
    BY <1>1, <2>1, RankGrows
  <2>3. RankIn(S, R, j) \in 0 .. Cardinality(S) - 1
    BY <1>1, RankNumbers
  <2> QED BY <1>3, <1>4, <2>2, <2>3
<1> QED BY <1>5

LEMMA FreshIsNew ==
    ASSUME NEW ids, IsFiniteSet(ids), ids \subseteq Nat
    PROVE  Fresh(ids) \in Nat \ {0} /\ \A j \in ids : j < Fresh(ids)
<1>1. CASE ids = {}
  BY <1>1 DEF Fresh
<1>2. CASE ids # {}
  <2>1. \E m \in ids : \A j \in ids : j <= m
    BY <1>2, Greatest
  <2> DEFINE m == CHOOSE i \in ids : \A j \in ids : j <= i
  <2>2. m \in ids /\ \A j \in ids : j <= m
    BY <2>1
  <2>3. Fresh(ids) = 1 + m
    BY <1>2 DEF Fresh
  <2> HIDE DEF m
  <2> QED BY <2>2, <2>3
<1> QED BY <1>1, <1>2

-----------------------------------------------------------------------------
(* The code plane.                                                           *)

FilesOK(fs) ==
    /\ DOMAIN fs = Files /\ fs = [f \in Files |-> fs[f]]
    /\ \A f \in Indexed(fs) : fs[f].id \in Nat /\ fs[f].hash \in Hashes
    /\ \A f, g \in Indexed(fs) : fs[f].id = fs[g].id => f = g

EntriesOK(fs, es) ==
    /\ IsFiniteSet(DOMAIN es) /\ DOMAIN es \subseteq Nat
    /\ \A i \in DOMAIN es : es[i].chunk \in ChunkIds(fs)

(* Every occurrence has its row, under the same id, with the vector of the   *)
(* content of its chunk, which is cached.                                    *)
RowsOK(fs, es, rs) ==
    /\ DOMAIN rs = DOMAIN es
    /\ \A i \in DOMAIN es :
         /\ rs[i] = [vec |-> HashOf(fs, es[i].chunk), profile |-> es[i].profile]
         /\ <<es[i].profile, HashOf(fs, es[i].chunk)>> \in cache

PassOK(x) ==
    /\ x = [f \in {"pc", "todo", "repair"} |-> x[f]]
    /\ x.pc \in {"idle", "embed", "sync"}
    /\ x.todo \subseteq Hashes

(* A table of an older layout holds no row, and no profile is marked in it   *)
(* once the schema is new: a marker is never set but with the table.         *)
CodeInv ==
    /\ schema \in {"old", "new"} /\ table \in {"missing", "obsolete", "current"}
    /\ profiles \subseteq Profiles /\ synced \subseteq profiles
    /\ cache \subseteq profiles \X Hashes
    /\ FilesOK(files) /\ EntriesOK(files, entries) /\ RowsOK(files, entries, rows)
    /\ table # "current" => DOMAIN entries = {}
    /\ schema = "new" /\ table # "current" => synced = {}
    /\ DOMAIN passes = Passes
    /\ \A w \in Passes :
         /\ PassOK(passes[w])
         /\ passes[w].pc = "sync" => ProfileOf[w] \in profiles
         /\ passes[w].pc # "idle" => schema = "new"

LEMMA HashIs ==
    ASSUME NEW fs, FilesOK(fs), NEW f \in Indexed(fs)
    PROVE  fs[f].id \in ChunkIds(fs) /\ HashOf(fs, fs[f].id) = fs[f].hash
<1>1. (CHOOSE g \in Indexed(fs) : fs[g].id = fs[f].id) = f
  BY DEF FilesOK
<1> QED BY <1>1 DEF HashOf, ChunkIds

LEMMA ChunksAreFinite ==
    ASSUME NEW fs, FilesOK(fs)
    PROVE  IsFiniteSet(ChunkIds(fs)) /\ ChunkIds(fs) \subseteq Nat
<1> DEFINE S == Indexed(fs)
           T == ChunkIds(fs)
           g == [f \in S |-> fs[f].id]
<1>1. IsFiniteSet(S)
  BY CodeVectorsAssumption, FS_Subset DEF Indexed
<1>2. g \in Surjection(S, T)
  BY DEF Surjection, ChunkIds
<1>3. T \subseteq Nat
  BY DEF FilesOK, ChunkIds
<1> HIDE DEF S, T, g
<1>4. IsFiniteSet(T)
  BY <1>1, <1>2, FS_Surjection
<1> QED BY <1>3, <1>4 DEF T

(* A chunk of a file that stays is the same chunk.                           *)
LEMMA ChunkStays ==
    ASSUME NEW fs, FilesOK(fs), NEW gs, FilesOK(gs), NEW c \in ChunkIds(fs),
           \A f \in Indexed(fs) : fs[f].id = c => gs[f] = fs[f]
    PROVE  c \in ChunkIds(gs) /\ HashOf(gs, c) = HashOf(fs, c)
<1>1. PICK f \in Indexed(fs) : fs[f].id = c
  BY DEF ChunkIds
<1>2. f \in Indexed(gs) /\ gs[f] = fs[f]
  BY <1>1 DEF Indexed
<1> QED BY <1>1, <1>2, HashIs

(* The new occurrences.                                                      *)
Pairs(fs, es, ps) ==
    UNION {{[chunk |-> c, profile |-> p] : c \in Unmaterialized(fs, es, p)} : p \in ps}

LEMMA PairsAre ==
    ASSUME NEW fs, FilesOK(fs), NEW es, NEW ps, ps \subseteq Profiles
    PROVE  /\ IsFiniteSet(Pairs(fs, es, ps))
           /\ \A q \in Pairs(fs, es, ps) :
                 /\ q.chunk \in Nat /\ q.profile \in Nat
                 /\ q = [chunk |-> q.chunk, profile |-> q.profile]
                 /\ q.chunk \in ChunkIds(fs) /\ q.profile \in ps
                 /\ <<q.profile, HashOf(fs, q.chunk)>> \in cache
<1> DEFINE P == Pairs(fs, es, ps)
           X == ps \X ChunkIds(fs)
           g == [x \in X |-> [chunk |-> x[2], profile |-> x[1]]]
           G == {[chunk |-> x[2], profile |-> x[1]] : x \in X}
<1>1. IsFiniteSet(X)
  <2>1. IsFiniteSet(ps)
    BY CodeVectorsAssumption, FS_Subset
  <2> QED BY <2>1, ChunksAreFinite, FS_Product
<1>2. g \in Surjection(X, G)
  BY DEF Surjection
<1>3. ASSUME NEW q \in P
      PROVE  /\ q = [chunk |-> q.chunk, profile |-> q.profile]
             /\ q.chunk \in ChunkIds(fs) /\ q.profile \in ps
             /\ <<q.profile, HashOf(fs, q.chunk)>> \in cache
             /\ q \in G
  <2>1. PICK p \in ps : \E c \in Unmaterialized(fs, es, p) : q = [chunk |-> c, profile |-> p]
    BY DEF Pairs
  <2>2. PICK c \in Unmaterialized(fs, es, p) : q = [chunk |-> c, profile |-> p]
    BY <2>1
  <2>3. c \in ChunkIds(fs) /\ <<p, HashOf(fs, c)>> \in cache
    BY DEF Unmaterialized
  <2>4. <<p, c>> \in X
    BY <2>3
  <2> QED BY <2>2, <2>3, <2>4
<1>4. P \subseteq G
  BY <1>3
<1>5. \A q \in P : q.chunk \in Nat /\ q.profile \in Nat
  BY <1>3, ChunksAreFinite, CodeVectorsAssumption
<1> HIDE DEF P, X, g, G
<1>6. IsFiniteSet(G)
  BY <1>1, <1>2, FS_Surjection
<1>7. IsFiniteSet(P)
  BY <1>4, <1>6, FS_Subset
<1> QED BY <1>3, <1>5, <1>7 DEF P

(* The numbers follow those in use and each new occurrence gets one.         *)
LEMMA NumbersFollow ==
    ASSUME NEW fs, FilesOK(fs), NEW es, EntriesOK(fs, es), NEW ps, ps \subseteq Profiles,
           NEW pairs, pairs = Pairs(fs, es, ps), NEW new, new = Numbered(es, pairs)
    PROVE  /\ IsFiniteSet(DOMAIN new) /\ DOMAIN new \subseteq Nat \ DOMAIN es
           /\ \A i \in DOMAIN new : new[i] \in pairs
           /\ \A q \in pairs : \E i \in DOMAIN new : new[i] = q
<1> DEFINE first == Fresh(DOMAIN es)
           n == Cardinality(pairs)
           R == {x \in pairs \X pairs : Before(x[1], x[2])}
           rank(q) == Cardinality({r \in pairs : Before(r, q)})
<1>1. /\ IsFiniteSet(pairs)
      /\ \A q \in pairs : /\ q.chunk \in Nat /\ q.profile \in Nat
                          /\ q = [chunk |-> q.chunk, profile |-> q.profile]
  BY PairsAre
<1>2. \A q, r \in pairs : <<q, r>> \in R <=> Before(q, r)
  OBVIOUS
<1>3. ASSUME NEW q \in pairs
      PROVE  rank(q) = RankIn(pairs, R, q)
  <2>1. {r \in pairs : <<r, q>> \in R} = {r \in pairs : Before(r, q)}
    BY <1>2
  <2> QED BY <2>1 DEF RankIn
<1>4. new = [i \in first .. first + n - 1 |-> CHOOSE q \in pairs : rank(q) = i - first]
  BY DEF Numbered
<1> HIDE DEF R, rank
<1>5. Orders(R, pairs)
  <2>1. \A q \in pairs : <<q, q>> \notin R
    BY <1>1, <1>2 DEF Before
  <2>2. \A q, r, t \in pairs : <<q, r>> \in R /\ <<r, t>> \in R => <<q, t>> \in R
    BY <1>1, <1>2 DEF Before
  <2>3. ASSUME NEW q \in pairs, NEW r \in pairs, q # r
        PROVE  <<q, r>> \in R \/ <<r, q>> \in R
    <3>1. q.profile # r.profile \/ q.chunk # r.chunk
      BY <1>1, <2>3
    <3> QED BY <1>1, <1>2, <3>1 DEF Before
  <2> QED BY <2>1, <2>2, <2>3 DEF Orders
<1>6. /\ n \in Nat
      /\ \A q \in pairs : rank(q) \in 0 .. n - 1
      /\ \A q, r \in pairs : rank(q) = rank(r) => q = r
      /\ \A k \in 0 .. n - 1 : \E q \in pairs : rank(q) = k
  BY <1>1, <1>3, <1>5, RankNumbers
<1>7. first \in Nat \ {0} /\ \A j \in DOMAIN es : j < first
  BY FreshIsNew DEF EntriesOK
<1> HIDE DEF n, first
<1>8. DOMAIN new = first .. first + n - 1
  BY <1>4
<1>9. ASSUME NEW i \in DOMAIN new
      PROVE  new[i] \in pairs /\ rank(new[i]) = i - first
  <2>1. i - first \in 0 .. n - 1
    BY <1>6, <1>7, <1>8
  <2>2. \E q \in pairs : rank(q) = i - first
    BY <1>6, <2>1
  <2> QED BY <1>4, <1>8, <2>2
<1>10. ASSUME NEW q \in pairs
      PROVE  \E i \in DOMAIN new : new[i] = q
  <2>1. PICK i : i = first + rank(q)
    OBVIOUS
  <2>2. i \in DOMAIN new /\ i - first = rank(q)
    BY <1>6, <1>7, <1>8, <2>1
  <2>3. new[i] \in pairs /\ rank(new[i]) = rank(q)
    BY <1>9, <2>2
  <2>4. new[i] = q
    BY <1>6, <2>3
  <2> QED BY <2>2, <2>4
<1>11. IsFiniteSet(DOMAIN new)
  <2>1. first \in Int /\ first + n - 1 \in Int
    BY <1>6, <1>7
  <2> QED BY <1>8, <2>1, FS_Interval
<1>12. DOMAIN new \subseteq Nat \ DOMAIN es
  BY <1>6, <1>7, <1>8
<1> QED BY <1>9, <1>10, <1>11, <1>12

(* Materialising keeps what is there and leaves no cached chunk of the       *)
(* profiles without an occurrence.                                           *)
LEMMA MaterializedIs ==
    ASSUME NEW fs, FilesOK(fs), NEW es, EntriesOK(fs, es), NEW rs, RowsOK(fs, es, rs),
           NEW ps, ps \subseteq Profiles, NEW made, made = Materialized(fs, es, rs, ps)
    PROVE  /\ EntriesOK(fs, made.entries) /\ RowsOK(fs, made.entries, made.rows)
           /\ \A p \in ps : Unmaterialized(fs, made.entries, p) = {}
<1> DEFINE pairs == Pairs(fs, es, ps)
           new == Numbered(es, pairs)
           nrows == [i \in DOMAIN new |-> [vec |-> HashOf(fs, new[i].chunk),
                                           profile |-> new[i].profile]]
           me == Merge(es, new)
           mr == Merge(rs, nrows)
<1>1. /\ IsFiniteSet(DOMAIN new) /\ DOMAIN new \subseteq Nat \ DOMAIN es
      /\ \A i \in DOMAIN new : new[i] \in pairs
      /\ \A q \in pairs : \E i \in DOMAIN new : new[i] = q
  BY NumbersFollow
<1>2. made.entries = me /\ made.rows = mr
  BY DEF Materialized, Pairs
<1>3. /\ DOMAIN me = DOMAIN es \cup DOMAIN new
      /\ \A i \in DOMAIN es : me[i] = es[i]
      /\ \A i \in DOMAIN new : me[i] = new[i]
  <2> HIDE DEF new
  <2> QED BY <1>1 DEF Merge
<1>4. /\ DOMAIN mr = DOMAIN es \cup DOMAIN new
      /\ \A i \in DOMAIN es : mr[i] = rs[i]
      /\ \A i \in DOMAIN new : mr[i] = [vec |-> HashOf(fs, new[i].chunk),
                                         profile |-> new[i].profile]
  <2> HIDE DEF new
  <2> QED BY <1>1 DEF Merge, RowsOK
<1> HIDE DEF me, mr, new
<1>5. \A q \in pairs : q.chunk \in ChunkIds(fs) /\ <<q.profile, HashOf(fs, q.chunk)>> \in cache
  BY PairsAre
<1>6. EntriesOK(fs, me)
  <2>1. IsFiniteSet(DOMAIN es \cup DOMAIN new)
    <3>1. IsFiniteSet(DOMAIN es)
      BY DEF EntriesOK
    <3> QED BY <1>1, <3>1, FS_Union
  <2> QED BY <1>1, <1>3, <1>5, <2>1 DEF EntriesOK
<1>7. RowsOK(fs, me, mr)
  BY <1>1, <1>3, <1>4, <1>5 DEF RowsOK
<1>8. ASSUME NEW p \in ps, NEW c \in Unmaterialized(fs, me, p)
      PROVE  FALSE
  <2>1. \A i \in DOMAIN es : es[i] # [chunk |-> c, profile |-> p]
    BY <1>3, <1>8 DEF Unmaterialized
  <2>2. c \in Unmaterialized(fs, es, p)
    BY <1>8, <2>1 DEF Unmaterialized
  <2>3. [chunk |-> c, profile |-> p] \in pairs
    BY <2>2 DEF Pairs
  <2>4. PICK i \in DOMAIN new : new[i] = [chunk |-> c, profile |-> p]
    BY <1>1, <2>3
  <2> QED BY <1>3, <1>8, <2>4 DEF Unmaterialized
<1> QED BY <1>2, <1>6, <1>7, <1>8

(* EnsuredRows and EnsuredSynced lose nothing: what they drop is empty.      *)
LEMMA Ensured ==
    ASSUME CodeInv
    PROVE  /\ RowsOK(files, entries, EnsuredRows)
           /\ EnsuredSynced \subseteq synced
           /\ schema = "new" => EnsuredSynced = synced
<1>1. DOMAIN <<>> = {}
  OBVIOUS
<1> QED BY <1>1 DEF CodeInv, RowsOK, EnsuredRows, EnsuredSynced

(* Without the rows under the given ids, the others match as before.         *)
LEMMA WithoutKeeps ==
    ASSUME NEW fs, NEW es, NEW rs, EntriesOK(fs, es), RowsOK(fs, es, rs), NEW gone
    PROVE  /\ EntriesOK(fs, Without(es, gone)) /\ RowsOK(fs, Without(es, gone), Without(rs, gone))
           /\ DOMAIN Without(es, gone) = DOMAIN es \ gone
           /\ \A i \in DOMAIN es \ gone : Without(es, gone)[i] = es[i]
<1>1. /\ DOMAIN Without(es, gone) = DOMAIN es \ gone
      /\ \A i \in DOMAIN es \ gone : Without(es, gone)[i] = es[i]
      /\ DOMAIN Without(rs, gone) = DOMAIN rs \ gone
      /\ \A i \in DOMAIN rs \ gone : Without(rs, gone)[i] = rs[i]
  BY DEF Without, Restrict
<1>2. IsFiniteSet(DOMAIN es \ gone)
  BY FS_Difference DEF EntriesOK
<1> QED BY <1>1, <1>2 DEF EntriesOK, RowsOK

(* The audit finds nothing to repair, and materialises.                      *)
LEMMA AuditedIs ==
    ASSUME CodeInv, NEW p \in Profiles, NEW made, made = Audited(p)
    PROVE  /\ EntriesOK(files, made.entries) /\ RowsOK(files, made.entries, made.rows)
           /\ Unmaterialized(files, made.entries, p) = {}
<1> DEFINE gone == {i \in DOMAIN EnsuredRows : EnsuredRows[i].profile = p /\ i \notin DOMAIN entries}
           kept == Without(EnsuredRows, gone)
           m == Materialized(files, entries, kept, {p})
           lost == {i \in DOMAIN m.entries \ DOMAIN m.rows : m.entries[i].profile = p}
           back == [i \in lost |-> [vec |-> HashOf(files, m.entries[i].chunk), profile |-> p]]
<1>1. made = [entries |-> m.entries, rows |-> Merge(m.rows, back)]
  BY DEF Audited
<1>2. RowsOK(files, entries, EnsuredRows)
  BY Ensured
<1>3. gone = {}
  BY <1>2 DEF RowsOK
<1>4. RowsOK(files, entries, kept)
  <2> HIDE DEF gone
  <2> QED BY <1>2, <1>3 DEF RowsOK, Without, Restrict
<1> HIDE DEF gone, kept
<1>5. /\ EntriesOK(files, m.entries) /\ RowsOK(files, m.entries, m.rows)
      /\ Unmaterialized(files, m.entries, p) = {}
  BY <1>4, MaterializedIs DEF CodeInv
<1> HIDE DEF m
<1>6. lost = {}
  BY <1>5 DEF RowsOK
<1>7. /\ DOMAIN Merge(m.rows, back) = DOMAIN m.rows
      /\ \A i \in DOMAIN m.rows : Merge(m.rows, back)[i] = m.rows[i]
  <2>1. DOMAIN back = {}
    BY <1>6
  <2> HIDE DEF back
  <2> QED BY <2>1 DEF Merge
<1>8. RowsOK(files, m.entries, Merge(m.rows, back))
  BY <1>5, <1>7 DEF RowsOK
<1> QED BY <1>1, <1>5, <1>8

(* A pass goes on; the rest of its state is that of the others.              *)
LEMMA PassGoesOn ==
    ASSUME CodeInv, NEW w \in Passes, NEW y, passes' = [passes EXCEPT ![w] = y],
           PassOK(y), y.pc = "sync" => ProfileOf[w] \in profiles',
           profiles \subseteq profiles', schema' = schema, schema = "new"
    PROVE  /\ DOMAIN passes' = Passes
           /\ \A v \in Passes :
                /\ PassOK(passes[v])'
                /\ passes'[v].pc = "sync" => ProfileOf[v] \in profiles'
                /\ passes'[v].pc # "idle" => schema' = "new"
<1>1. /\ DOMAIN passes' = Passes
      /\ \A v \in Passes : passes'[v] = IF v = w THEN y ELSE passes[v]
  BY DEF CodeInv
<1>2. ASSUME NEW v \in Passes
      PROVE  /\ PassOK(passes'[v])
             /\ passes'[v].pc = "sync" => ProfileOf[v] \in profiles'
  BY <1>1 DEF CodeInv
<1> QED BY <1>1, <1>2 DEF PassOK

(* The same facts, at the next state, of cached vectors that only grow.      *)
LEMMA RowsOn ==
    ASSUME NEW fs, NEW es, NEW rs, RowsOK(fs, es, rs), cache \subseteq cache'
    PROVE  RowsOK(fs, es, rs)'
BY DEF RowsOK, HashOf, Indexed

LEMMA StartPassKeeps ==
    ASSUME CodeInv, NEW w \in Passes, NEW selection, NEW repair \in BOOLEAN,
           selection \subseteq Files, StartPass(w, selection, repair)
    PROVE  CodeInv'
<1> DEFINE todo == Missing(ProfileOf[w], selection)
           y == [pc |-> IF todo = {} THEN "sync" ELSE "embed", todo |-> todo, repair |-> repair]
<1>1. /\ schema = "new" /\ UNCHANGED store
      /\ todo # {} \/ ProfileOf[w] \in profiles
      /\ passes' = [passes EXCEPT ![w] = y]
  BY DEF StartPass
<1>2. todo \subseteq Hashes
  <2>1. ASSUME NEW g \in selection, files[g] # None
        PROVE  files[g].hash \in Hashes
    BY <2>1 DEF CodeInv, FilesOK, Indexed
  <2> QED BY <2>1 DEF Missing
<1>3. PassOK(y) /\ (y.pc = "sync" => ProfileOf[w] \in profiles)
  BY <1>1, <1>2 DEF PassOK
<1> HIDE DEF y
<1>4. /\ DOMAIN passes' = Passes
      /\ \A v \in Passes :
           /\ PassOK(passes[v])'
           /\ passes'[v].pc = "sync" => ProfileOf[v] \in profiles'
           /\ passes'[v].pc # "idle" => schema' = "new"
  BY <1>1, <1>3, PassGoesOn DEF store
<1>5. FilesOK(files)' /\ EntriesOK(files, entries)' /\ RowsOK(files, entries, rows)'
  BY <1>1 DEF CodeInv, store, RowsOK
<1> QED BY <1>1, <1>4, <1>5 DEF CodeInv, store

LEMMA EmbedBatchKeeps ==
    ASSUME CodeInv, NEW w \in Passes, NEW h \in Hashes, EmbedBatch(w, h)
    PROVE  CodeInv'
<1> DEFINE p == ProfileOf[w]
           left == passes[w].todo \ {h}
           pc2 == IF left = {} THEN "sync" ELSE "embed"
           y == [passes[w] EXCEPT !.todo = left, !.pc = pc2]
           creates == p \notin profiles
<1>1. /\ schema = "new" /\ p \in Profiles
      /\ profiles' = profiles \cup {p} /\ cache' = cache \cup {<<p, h>>}
      /\ rows' = IF creates THEN EnsuredRows ELSE rows
      /\ synced' = IF creates THEN EnsuredSynced ELSE synced
      /\ table' = IF creates THEN "current" ELSE table
      /\ passes' = [passes EXCEPT ![w].todo = left, ![w].pc = pc2]
      /\ UNCHANGED <<schema, files, entries>>
  BY CodeVectorsAssumption DEF EmbedBatch, CodeInv
<1>2. PassOK(y) /\ passes' = [passes EXCEPT ![w] = y]
  <2>1. PassOK(passes[w])
    BY DEF CodeInv
  <2>2. pc2 \in {"sync", "embed"} /\ left \subseteq passes[w].todo
    OBVIOUS
  <2> HIDE DEF pc2, left
  <2> QED BY <1>1, <2>1, <2>2 DEF PassOK
<1> HIDE DEF y
<1>3. /\ DOMAIN passes' = Passes
      /\ \A v \in Passes :
           /\ PassOK(passes[v])'
           /\ passes'[v].pc = "sync" => ProfileOf[v] \in profiles'
           /\ passes'[v].pc # "idle" => schema' = "new"
  BY <1>1, <1>2, PassGoesOn
<1>4. RowsOK(files, entries, rows')
  BY <1>1, Ensured DEF CodeInv
<1>5. PICK rs : rs = rows'
  OBVIOUS
<1>6. RowsOK(files, entries, rs)'
  BY <1>1, <1>4, <1>5, RowsOn
<1>7. FilesOK(files)' /\ EntriesOK(files, entries)' /\ RowsOK(files, entries, rows)'
  BY <1>1, <1>5, <1>6 DEF CodeInv, RowsOK
<1>8. /\ synced' \subseteq synced
      /\ profiles' \subseteq Profiles /\ cache' \subseteq profiles' \X Hashes
      /\ schema' = "new" /\ table' \in {"missing", "obsolete", "current"}
      /\ table' # "current" => DOMAIN entries' = {}
      /\ table' # "current" => synced' = {}
  BY <1>1, Ensured DEF CodeInv
<1>9. synced' \subseteq profiles'
  BY <1>1, <1>8 DEF CodeInv
<1> QED BY <1>3, <1>7, <1>8, <1>9 DEF CodeInv

LEMMA SyncPassKeeps ==
    ASSUME CodeInv, NEW w \in Passes, SyncPass(w)
    PROVE  CodeInv'
<1> DEFINE p == ProfileOf[w]
<1>1. PICK made : made = IF Audits(w) THEN Audited(p) ELSE Materialized(files, entries, rows, {p})
  OBVIOUS
<1>2. /\ passes[w].pc = "sync"
      /\ entries' = made.entries /\ rows' = made.rows
      /\ synced' = IF Audits(w) THEN EnsuredSynced \cup {p} ELSE synced
      /\ table' = IF Audits(w) THEN "current" ELSE table
      /\ passes' = [passes EXCEPT ![w] = Idle]
      /\ UNCHANGED <<schema, files, profiles, cache>>
  BY <1>1 DEF SyncPass
<1>3. p \in Profiles /\ p \in profiles /\ schema = "new"
  BY <1>2, CodeVectorsAssumption DEF CodeInv
<1>4. EntriesOK(files, made.entries) /\ RowsOK(files, made.entries, made.rows)
  BY <1>1, <1>3, AuditedIs, MaterializedIs DEF CodeInv
<1>5. table' = "current"
  BY <1>2, <1>3 DEF Audits, CodeInv
<1>6. PassOK(Idle) /\ Idle.pc = "idle"
  BY DEF PassOK, Idle
<1>7. /\ DOMAIN passes' = Passes
      /\ \A v \in Passes :
           /\ PassOK(passes[v])'
           /\ passes'[v].pc = "sync" => ProfileOf[v] \in profiles'
           /\ passes'[v].pc # "idle" => schema' = "new"
  BY <1>2, <1>3, <1>6, PassGoesOn
<1>8. FilesOK(files)' /\ EntriesOK(files, entries)' /\ RowsOK(files, entries, rows)'
  BY <1>2, <1>4 DEF CodeInv, RowsOK
<1>9. synced' \subseteq profiles
  BY <1>2, <1>3, Ensured DEF CodeInv
<1> QED BY <1>2, <1>5, <1>7, <1>8, <1>9 DEF CodeInv

(* A publication, given what it does to the files and to the occurrences     *)
(* that are not gone.                                                        *)
LEMMA PublishKeeps ==
    ASSUME CodeInv, NEW fs, FilesOK(fs), NEW gone, NEW inserted,
           \A i \in DOMAIN entries \ gone :
               /\ entries[i].chunk \in ChunkIds(fs)
               /\ HashOf(fs, entries[i].chunk) = HashOf(files, entries[i].chunk),
           Publish(fs, gone, inserted)
    PROVE  /\ CodeInv'
           /\ Fills(inserted) => \A p \in profiles : Unmaterialized(files, entries, p)' = {}
<1> DEFINE fills == Fills(inserted)
           ensures == fills \/ gone # {}
           es == Without(entries, gone)
           base == IF ensures THEN EnsuredRows ELSE rows
           rs == Without(base, gone)
<1>1. PICK made : made = Materialized(fs, es, rs, profiles)
  OBVIOUS
<1>2. /\ schema = "new" /\ files' = fs
      /\ entries' = IF fills THEN made.entries ELSE es
      /\ rows' = IF fills THEN made.rows ELSE rs
      /\ table' = IF ensures THEN "current" ELSE table
      /\ synced' = IF ensures THEN EnsuredSynced ELSE synced
      /\ UNCHANGED <<schema, profiles, cache, passes>>
  BY <1>1 DEF Publish, GoneRows
<1>3. RowsOK(files, entries, base)
  BY Ensured DEF CodeInv
<1> HIDE DEF base
<1>4. /\ EntriesOK(files, es) /\ RowsOK(files, es, rs)
      /\ DOMAIN es = DOMAIN entries \ gone
      /\ \A i \in DOMAIN entries \ gone : es[i] = entries[i]
  <2>1. EntriesOK(files, entries)
    BY DEF CodeInv
  <2> QED BY <1>3, <2>1, WithoutKeeps
<1> HIDE DEF es, rs
<1>5. EntriesOK(fs, es) /\ RowsOK(fs, es, rs)
  BY <1>4 DEF EntriesOK, RowsOK
<1>6. /\ EntriesOK(fs, made.entries) /\ RowsOK(fs, made.entries, made.rows)
      /\ \A p \in profiles : Unmaterialized(fs, made.entries, p) = {}
  BY <1>1, <1>5, MaterializedIs DEF CodeInv
<1>7. EntriesOK(fs, entries') /\ RowsOK(fs, entries', rows')
  BY <1>2, <1>5, <1>6
<1>8. FilesOK(files)' /\ EntriesOK(files, entries)' /\ RowsOK(files, entries, rows)'
  BY <1>2, <1>7 DEF RowsOK
<1>9. /\ synced' \subseteq synced
      /\ table' # "current" => DOMAIN entries' = {} /\ synced' = {}
  BY <1>2, <1>4, Ensured DEF CodeInv
<1>10. \A v \in Passes : PassOK(passes[v])'
  BY <1>2 DEF CodeInv, PassOK
<1>11. CodeInv'
  BY <1>2, <1>8, <1>9, <1>10 DEF CodeInv
<1>12. fills => \A p \in profiles : Unmaterialized(files, entries, p)' = {}
  BY <1>2, <1>6 DEF Unmaterialized, ChunkIds, Indexed, HashOf
<1> QED BY <1>11, <1>12

(* What a refresh leaves of the files, and of the occurrences of the files   *)
(* it does not touch.                                                        *)
Refreshes(fs, gone) ==
    /\ FilesOK(fs)
    /\ \A i \in DOMAIN entries \ gone :
         /\ entries[i].chunk \in ChunkIds(fs)
         /\ HashOf(fs, entries[i].chunk) = HashOf(files, entries[i].chunk)

LEMMA FullRefreshIs ==
    ASSUME CodeInv, NEW present \in SUBSET Files, NEW hash \in [present -> Hashes],
           FullRefresh(present, hash)
    PROVE  \E fs : /\ Refreshes(fs, DOMAIN entries)
                   /\ Publish(fs, DOMAIN entries, present # {})
                   /\ present = {} => ChunkIds(fs) = {}
<1> DEFINE rank(f) == Cardinality({g \in present : g <= f})
           fs == [f \in Files |-> IF f \in present
                                  THEN [id |-> rank(f), hash |-> hash[f]] ELSE None]
<1>1. ASSUME NEW f \in present
      PROVE  IsFiniteSet({g \in present : g <= f}) /\ rank(f) \in Nat
  <2>1. IsFiniteSet({g \in present : g <= f})
    <3>1. {g \in present : g <= f} \in SUBSET Files
      OBVIOUS
    <3> QED BY <3>1, CodeVectorsAssumption, FS_Subset
  <2> QED BY <2>1, FS_CardinalityType
<1>2. ASSUME NEW f \in present, NEW g \in present, f < g
      PROVE  rank(f) # rank(g)
  <2> DEFINE F == {h \in present : h <= f}
             G == {h \in present : h <= g}
  <2>1. F \in SUBSET G /\ g \in G /\ g \notin F
    <3>1. \A h \in present : h \in Nat
      BY CodeVectorsAssumption
    <3> QED BY <1>2, <3>1
  <2>2. IsFiniteSet(G)
    BY <1>1
  <2> HIDE DEF F, G
  <2>3. Cardinality(G) # Cardinality(F)
    BY <2>1, <2>2, FS_Subset
  <2> QED BY <2>3 DEF F, G
<1> HIDE DEF rank
<1>3. \A f \in Indexed(fs) : f \in present /\ fs[f] = [id |-> rank(f), hash |-> hash[f]]
  BY DEF Indexed
<1>4. FilesOK(fs)
  <2>1. ASSUME NEW f \in Indexed(fs), NEW g \in Indexed(fs), fs[f].id = fs[g].id
        PROVE  f = g
    <3>1. f \in present /\ g \in present /\ rank(f) = rank(g)
      BY <1>3, <2>1
    <3>2. f \in Nat /\ g \in Nat
      BY <3>1, CodeVectorsAssumption
    <3> QED BY <1>2, <3>1, <3>2
  <2>2. DOMAIN fs = Files /\ fs = [f \in Files |-> fs[f]]
    OBVIOUS
  <2>3. \A f \in Indexed(fs) : fs[f].id \in Nat /\ fs[f].hash \in Hashes
    BY <1>1, <1>3
  <2> HIDE DEF fs
  <2> QED BY <2>1, <2>2, <2>3 DEF FilesOK
<1>5. Publish(fs, DOMAIN entries, present # {})
  BY DEF FullRefresh, rank
<1>6. present = {} => ChunkIds(fs) = {}
  BY <1>3 DEF ChunkIds
<1> HIDE DEF fs
<1> QED BY <1>4, <1>5, <1>6 DEF Refreshes

(* Without one file, the chunks of the others are what they were.            *)
LEMMA FileGone ==
    ASSUME CodeInv, NEW f \in Files, NEW fs, fs = [files EXCEPT ![f] = None]
    PROVE  /\ Refreshes(fs, EntriesOf(f))
           /\ \A c \in ChunkIds(fs) : /\ c \in ChunkIds(files)
                                      /\ HashOf(fs, c) = HashOf(files, c)
                                      /\ files[f] # None => c # files[f].id
<1>1. /\ FilesOK(files) /\ DOMAIN fs = Files /\ fs = [g \in Files |-> fs[g]]
      /\ \A g \in Files : fs[g] = IF g = f THEN None ELSE files[g]
      /\ EntriesOK(files, entries)
  BY DEF CodeInv, FilesOK
<1>2. Indexed(fs) = Indexed(files) \ {f} /\ \A g \in Indexed(fs) : fs[g] = files[g]
  BY <1>1 DEF Indexed
<1>3. FilesOK(fs)
  BY <1>1, <1>2 DEF FilesOK
<1>4. ASSUME NEW i \in DOMAIN entries \ EntriesOf(f)
      PROVE  /\ entries[i].chunk \in ChunkIds(fs)
             /\ HashOf(fs, entries[i].chunk) = HashOf(files, entries[i].chunk)
  <2>1. PICK c : c = entries[i].chunk
    OBVIOUS
  <2>2. c \in ChunkIds(files)
    BY <1>1, <2>1 DEF EntriesOK
  <2>3. files[f] # None => c # files[f].id
    BY <2>1 DEF EntriesOf
  <2>4. ASSUME NEW g \in Indexed(files), files[g].id = c
        PROVE  fs[g] = files[g]
    BY <1>1, <2>3, <2>4 DEF Indexed
  <2>5. PICK g \in Indexed(files) : files[g].id = c
    BY <2>2 DEF ChunkIds
  <2>6. g \in Indexed(fs) /\ fs[g] = files[g]
    BY <2>4, <2>5 DEF Indexed
  <2>7. HashOf(files, c) = files[g].hash
    BY <1>1, <2>5, HashIs
  <2>8. c \in ChunkIds(fs) /\ HashOf(fs, c) = fs[g].hash
    BY <1>3, <2>5, <2>6, HashIs
  <2> QED BY <2>1, <2>6, <2>7, <2>8
<1>5. ASSUME NEW c \in ChunkIds(fs)
      PROVE  /\ c \in ChunkIds(files) /\ HashOf(fs, c) = HashOf(files, c)
             /\ files[f] # None => c # files[f].id
  <2>1. PICK g \in Indexed(fs) : fs[g].id = c
    BY DEF ChunkIds
  <2>2. g \in Indexed(files) /\ g # f /\ files[g].id = c /\ files[g] = fs[g]
    BY <1>2, <2>1
  <2>3. files[f] # None => c # files[f].id
    BY <1>1, <2>2 DEF FilesOK, Indexed
  <2>4. HashOf(fs, c) = fs[g].hash
    BY <1>3, <2>1, HashIs
  <2>5. c \in ChunkIds(files) /\ HashOf(files, c) = files[g].hash
    BY <1>1, <2>2, HashIs
  <2> QED BY <2>2, <2>3, <2>4, <2>5
<1> QED BY <1>3, <1>4, <1>5 DEF Refreshes

LEMMA RemoveFileIs ==
    ASSUME CodeInv, NEW f \in Files, RemoveFile(f)
    PROVE  \E fs : /\ Refreshes(fs, EntriesOf(f)) /\ Publish(fs, EntriesOf(f), FALSE)
                   /\ \A c \in ChunkIds(fs) : /\ c \in ChunkIds(files)
                                              /\ HashOf(fs, c) = HashOf(files, c)
                                              /\ files[f] # None => c # files[f].id
<1>1. PICK fs : fs = [files EXCEPT ![f] = None]
  OBVIOUS
<1>2. Publish(fs, EntriesOf(f), FALSE)
  BY <1>1 DEF RemoveFile
<1>3. /\ Refreshes(fs, EntriesOf(f))
      /\ \A c \in ChunkIds(fs) : /\ c \in ChunkIds(files)
                                 /\ HashOf(fs, c) = HashOf(files, c)
                                 /\ files[f] # None => c # files[f].id
  BY <1>1, FileGone
<1> QED BY <1>2, <1>3

LEMMA ReplaceFileIs ==
    ASSUME CodeInv, NEW f \in Files, NEW h \in Hashes, ReplaceFile(f, h)
    PROVE  \E fs : Refreshes(fs, EntriesOf(f)) /\ Publish(fs, EntriesOf(f), TRUE)
<1> DEFINE left == [files EXCEPT ![f] = None]
           row == [id |-> Fresh(ChunkIds(left)), hash |-> h]
           fs == [left EXCEPT ![f] = row]
<1>1. Publish(fs, EntriesOf(f), TRUE)
  BY DEF ReplaceFile
<1>2. Refreshes(left, EntriesOf(f))
  BY FileGone
<1>3. FilesOK(left) /\ left[f] = None
  BY <1>2 DEF Refreshes, CodeInv, FilesOK
<1>4. row.id \in Nat /\ row.id \notin ChunkIds(left) /\ row.hash = h
  BY <1>3, ChunksAreFinite, FreshIsNew
<1> HIDE DEF left, row
<1>5. /\ DOMAIN fs = Files /\ fs = [g \in Files |-> fs[g]]
      /\ \A g \in Files : fs[g] = IF g = f THEN row ELSE left[g]
  BY <1>3 DEF FilesOK
<1> HIDE DEF fs
<1>6. \A g \in Indexed(fs) : g = f \/ (g \in Indexed(left) /\ fs[g] = left[g])
  BY <1>5 DEF Indexed
<1>7. \A g \in Indexed(left) : g # f /\ fs[g] = left[g] /\ left[g].id # row.id
  BY <1>3, <1>4, <1>5 DEF Indexed, ChunkIds
<1>8. FilesOK(fs)
  <2>1. fs[f] = row
    BY <1>5
  <2>2. \A g \in Indexed(fs) : fs[g].id \in Nat /\ fs[g].hash \in Hashes
    BY <1>3, <1>4, <1>6, <2>1 DEF FilesOK
  <2>3. ASSUME NEW g \in Indexed(fs), NEW k \in Indexed(fs), fs[g].id = fs[k].id
        PROVE  g = k
    BY <1>3, <1>6, <1>7, <2>1, <2>3 DEF FilesOK
  <2> QED BY <1>5, <2>2, <2>3 DEF FilesOK
<1>9. ASSUME NEW c \in ChunkIds(left)
      PROVE  c \in ChunkIds(fs) /\ HashOf(fs, c) = HashOf(left, c)
  BY <1>3, <1>7, <1>8, <1>9, ChunkStays
<1>10. Refreshes(fs, EntriesOf(f))
  BY <1>2, <1>8, <1>9 DEF Refreshes
<1> QED BY <1>1, <1>10

LEMMA EndPassKeeps ==
    ASSUME CodeInv, NEW w \in Passes, EndPass(w)
    PROVE  CodeInv'
<1>1. PassOK(Idle) /\ Idle.pc = "idle"
  BY DEF PassOK, Idle
<1>2. /\ passes' = [passes EXCEPT ![w] = Idle] /\ UNCHANGED store
      /\ schema = "new"
  BY DEF EndPass, CodeInv
<1>3. /\ DOMAIN passes' = Passes
      /\ \A v \in Passes :
           /\ PassOK(passes[v])'
           /\ passes'[v].pc = "sync" => ProfileOf[v] \in profiles'
           /\ passes'[v].pc # "idle" => schema' = "new"
  BY <1>1, <1>2, PassGoesOn DEF store
<1>4. FilesOK(files)' /\ EntriesOK(files, entries)' /\ RowsOK(files, entries, rows)'
  BY <1>2 DEF CodeInv, store, RowsOK
<1> QED BY <1>2, <1>3, <1>4 DEF CodeInv, store

LEMMA RebuildSchemaKeeps ==
    ASSUME CodeInv, RebuildSchema
    PROVE  CodeInv'
<1>1. /\ files' = [f \in Files |-> None] /\ entries' = <<>> /\ rows' = <<>>
      /\ schema' = "new" /\ synced' = {}
      /\ UNCHANGED <<profiles, cache, table, passes>>
  BY DEF RebuildSchema
<1>2. DOMAIN entries' = {} /\ DOMAIN rows' = {} /\ IsFiniteSet({})
  BY <1>1, FS_EmptySet
<1>3. Indexed(files') = {}
  BY <1>1 DEF Indexed
<1>4. FilesOK(files') /\ EntriesOK(files', entries')
  BY <1>1, <1>2, <1>3 DEF FilesOK, EntriesOK
<1>5. RowsOK(files, entries, rows)'
  BY <1>2 DEF RowsOK
<1>6. \A w \in Passes : PassOK(passes[w])'
  BY <1>1 DEF CodeInv, PassOK
<1> QED BY <1>1, <1>2, <1>4, <1>5, <1>6 DEF CodeInv

LEMMA CodeInit == Init => CodeInv
<1> SUFFICES ASSUME Init PROVE CodeInv
  OBVIOUS
<1>1. /\ files = [f \in Files |-> None] /\ entries = <<>> /\ rows = <<>>
      /\ passes = [w \in Passes |-> Idle]
      /\ schema \in {"old", "new"} /\ table \in {"missing", "obsolete"}
      /\ profiles \subseteq Profiles /\ synced \subseteq profiles
      /\ cache \subseteq profiles \X Hashes
      /\ schema = "new" => synced = {}
  BY DEF Init, NewDatabase, OldDatabase
<1>2. DOMAIN entries = {} /\ DOMAIN rows = {} /\ IsFiniteSet({})
  BY <1>1, FS_EmptySet
<1>3. Indexed(files) = {}
  BY <1>1 DEF Indexed
<1>4. FilesOK(files) /\ EntriesOK(files, entries)
  BY <1>1, <1>2, <1>3 DEF FilesOK, EntriesOK
<1>5. RowsOK(files, entries, rows)
  BY <1>2 DEF RowsOK
<1>6. \A w \in Passes : PassOK(passes[w]) /\ passes[w].pc = "idle"
  BY <1>1 DEF PassOK, Idle
<1> QED BY <1>1, <1>2, <1>4, <1>5, <1>6 DEF CodeInv

LEMMA CodeNext == CodeInv /\ [Next]_vars => CodeInv'
<1> SUFFICES ASSUME CodeInv, [Next]_vars PROVE CodeInv'
  OBVIOUS
<1>1. CASE RebuildSchema
  BY <1>1, RebuildSchemaKeeps
<1>2. CASE Refresh
  <2>1. \E fs, gone, inserted : Refreshes(fs, gone) /\ Publish(fs, gone, inserted)
    <3>1. ASSUME NEW present \in SUBSET Files, NEW hash \in [present -> Hashes],
                 FullRefresh(present, hash)
          PROVE  \E fs, gone, inserted : Refreshes(fs, gone) /\ Publish(fs, gone, inserted)
      BY <3>1, FullRefreshIs
    <3>2. ASSUME NEW f \in Files, RemoveFile(f)
          PROVE  \E fs, gone, inserted : Refreshes(fs, gone) /\ Publish(fs, gone, inserted)
      BY <3>2, RemoveFileIs
    <3>3. ASSUME NEW f \in Files, NEW h \in Hashes, ReplaceFile(f, h)
          PROVE  \E fs, gone, inserted : Refreshes(fs, gone) /\ Publish(fs, gone, inserted)
      BY <3>3, ReplaceFileIs
    <3> QED BY <1>2, <3>1, <3>2, <3>3 DEF Refresh
  <2>2. PICK fs, gone, inserted : Refreshes(fs, gone) /\ Publish(fs, gone, inserted)
    BY <2>1
  <2> QED BY <2>2, PublishKeeps DEF Refreshes
<1>3. ASSUME NEW w \in Passes, Step(w)
      PROVE  CodeInv'
  <2>1. ASSUME NEW selection \in Selections[w], NEW repair \in BOOLEAN,
               StartPass(w, selection, repair)
        PROVE  CodeInv'
    <3>1. selection \subseteq Files
      BY CodeVectorsAssumption
    <3> QED BY <2>1, <3>1, StartPassKeeps
  <2>2. ASSUME NEW h \in Hashes, EmbedBatch(w, h)
        PROVE  CodeInv'
    BY <2>2, EmbedBatchKeeps
  <2>3. CASE SyncPass(w)
    BY <2>3, SyncPassKeeps
  <2> QED BY <1>3, <2>1, <2>2, <2>3 DEF Step
<1>4. ASSUME NEW w \in Passes, EndPass(w)
      PROVE  CodeInv'
  BY <1>4, EndPassKeeps
<1>5. CASE UNCHANGED vars
  <2>1. FilesOK(files)' /\ EntriesOK(files, entries)' /\ RowsOK(files, entries, rows)'
    BY <1>5 DEF CodeInv, vars, RowsOK
  <2>2. \A w \in Passes : PassOK(passes[w])'
    BY <1>5 DEF CodeInv, vars, PassOK
  <2> QED BY <1>5, <2>1, <2>2 DEF CodeInv, vars
<1> QED BY <1>1, <1>2, <1>3, <1>4, <1>5 DEF Next

LEMMA CodeHolds == Spec => []CodeInv
BY CodeInit, CodeNext, PTL DEF Spec

(* A row id names one chunk in both tables, and a ready plane serves every   *)
(* current chunk whose vector is cached and nothing else (ready_search_      *)
(* profile, exact_vector_search, materialize_profile, delete_file).          *)
THEOREM CodeSearchIsExact == Spec => []SearchExact
<1>1. ASSUME CodeInv
      PROVE  RowsMatchChunks
  <2>1. TypeOK
    BY <1>1 DEF CodeInv, TypeOK, PassOK
  <2>2. EntriesOK(files, entries) /\ RowsOK(files, entries, rows)
    BY <1>1 DEF CodeInv
  <2>3. ASSUME NEW i \in DOMAIN entries
        PROVE  /\ entries[i].chunk \in ChunkIds(files)
               /\ rows[i] = [vec |-> HashOf(files, entries[i].chunk),
                             profile |-> entries[i].profile]
               /\ <<rows[i].profile, rows[i].vec>> \in cache
    <3>1. /\ entries[i].chunk \in ChunkIds(files)
          /\ rows[i] = [vec |-> HashOf(files, entries[i].chunk), profile |-> entries[i].profile]
          /\ <<entries[i].profile, HashOf(files, entries[i].chunk)>> \in cache
      BY <2>2 DEF EntriesOK, RowsOK
    <3>2. rows[i].profile = entries[i].profile /\ rows[i].vec = HashOf(files, entries[i].chunk)
      BY <3>1
    <3> QED BY <3>1, <3>2
  <2> QED BY <2>1, <2>2, <2>3 DEF RowsMatchChunks, RowsOK
<1>2. ASSUME CodeInv, NEW p \in Profiles, Ready(p)
      PROVE  Served(p) = {<<c, HashOf(files, c)>> : c \in
                            {d \in ChunkIds(files) : <<p, HashOf(files, d)>> \in cache}}
  <2> DEFINE Wanted == {d \in ChunkIds(files) : <<p, HashOf(files, d)>> \in cache}
             Rows == {j \in DOMAIN rows \cap DOMAIN entries : rows[j].profile = p}
  <2>1. \A i \in DOMAIN entries :
           /\ i \in DOMAIN rows /\ entries[i].chunk \in ChunkIds(files)
           /\ rows[i].vec = HashOf(files, entries[i].chunk)
           /\ rows[i].profile = entries[i].profile
           /\ <<entries[i].profile, HashOf(files, entries[i].chunk)>> \in cache
    BY <1>2 DEF CodeInv, EntriesOK, RowsOK
  <2>2. ASSUME NEW i \in Rows
        PROVE  entries[i].chunk \in Wanted /\ rows[i].vec = HashOf(files, entries[i].chunk)
    BY <2>1
  <2>3. ASSUME NEW c \in Wanted
        PROVE  \E i \in Rows : entries[i].chunk = c /\ rows[i].vec = HashOf(files, c)
    <3>1. c \notin Unmaterialized(files, entries, p)
      BY <1>2 DEF Ready
    <3>2. PICK i \in DOMAIN entries : entries[i] = [chunk |-> c, profile |-> p]
      BY <3>1 DEF Unmaterialized
    <3> QED BY <2>1, <3>2
  <2> HIDE DEF Wanted, Rows
  <2>4. {<<entries[i].chunk, rows[i].vec>> : i \in Rows} = {<<c, HashOf(files, c)>> : c \in Wanted}
    BY <2>2, <2>3
  <2> QED BY <2>4 DEF Served, Rows, Wanted
<1>3. CodeInv => SearchExact
  BY <1>1, <1>2 DEF SearchExact, ReadyServesCache
<1> QED BY <1>3, CodeHolds, PTL

(* An index publication never takes a ready plane away: what it inserts is   *)
(* materialised in the same transaction (materialize_cached_embeddings).     *)
THEOREM CodePublicationKeepsSearch == Spec => PublicationKeepsSearch
<1>1. ASSUME CodeInv, Next, publications' # publications, NEW p \in Profiles, Ready(p)
      PROVE  Ready(p)'
  <2>1. Refresh
    BY <1>1 DEF Next, RebuildSchema, Step, StartPass, EmbedBatch, SyncPass, EndPass, store
  <2>2. ASSUME NEW fs, NEW gone, NEW inserted, Refreshes(fs, gone), Publish(fs, gone, inserted),
               ~Fills(inserted) => Unmaterialized(fs, Without(entries, gone), p) = {}
        PROVE  Ready(p)'
    <3>1. /\ profiles' = profiles /\ synced' = synced /\ table' = "current"
          /\ files' = fs /\ cache' = cache
          /\ ~Fills(inserted) => entries' = Without(entries, gone)
      BY <1>1, <2>2 DEF Publish, Ready, EnsuredSynced
    <3>2. Unmaterialized(files, entries, p)' = {}
      <4>1. CASE Fills(inserted)
        BY <1>1, <2>2, <4>1, PublishKeeps DEF Refreshes, Ready
      <4>2. CASE ~Fills(inserted)
        BY <2>2, <3>1, <4>2 DEF Unmaterialized
      <4> QED BY <4>1, <4>2
    <3> QED BY <1>1, <3>1, <3>2 DEF Ready
  <2>3. profiles # {}
    BY <1>1 DEF Ready
  <2>4. ASSUME NEW present \in SUBSET Files, NEW hash \in [present -> Hashes],
               FullRefresh(present, hash)
        PROVE  Ready(p)'
    <3>1. PICK fs : /\ Refreshes(fs, DOMAIN entries)
                    /\ Publish(fs, DOMAIN entries, present # {})
                    /\ present = {} => ChunkIds(fs) = {}
      BY <1>1, <2>4, FullRefreshIs
    <3>2. ASSUME ~Fills(present # {})
          PROVE  Unmaterialized(fs, Without(entries, DOMAIN entries), p) = {}
      BY <2>3, <3>1, <3>2 DEF Fills, Unmaterialized
    <3> QED BY <2>2, <3>1, <3>2
  <2>5. ASSUME NEW f \in Files, RemoveFile(f)
        PROVE  Ready(p)'
    <3>1. PICK fs : /\ Refreshes(fs, EntriesOf(f)) /\ Publish(fs, EntriesOf(f), FALSE)
                    /\ \A c \in ChunkIds(fs) : /\ c \in ChunkIds(files)
                                               /\ HashOf(fs, c) = HashOf(files, c)
                                               /\ files[f] # None => c # files[f].id
      BY <1>1, <2>5, RemoveFileIs
    <3>2. ASSUME NEW c \in Unmaterialized(fs, Without(entries, EntriesOf(f)), p)
          PROVE  FALSE
      <4>1. c \in ChunkIds(fs) /\ <<p, HashOf(fs, c)>> \in cache
        BY <3>2 DEF Unmaterialized
      <4>2. /\ c \in ChunkIds(files) /\ HashOf(fs, c) = HashOf(files, c)
            /\ files[f] # None => c # files[f].id
        BY <3>1, <4>1
      <4>3. c \notin Unmaterialized(files, entries, p)
        BY <1>1 DEF Ready
      <4>4. PICK i \in DOMAIN entries : entries[i] = [chunk |-> c, profile |-> p]
        BY <4>1, <4>2, <4>3 DEF Unmaterialized
      <4>5. i \notin EntriesOf(f)
        BY <4>2, <4>4 DEF EntriesOf
      <4>6. /\ i \in DOMAIN Without(entries, EntriesOf(f))
            /\ Without(entries, EntriesOf(f))[i] = entries[i]
        BY <4>5 DEF Without, Restrict
      <4> QED BY <3>2, <4>4, <4>6 DEF Unmaterialized
    <3> QED BY <2>2, <3>1, <3>2
  <2>6. ASSUME NEW f \in Files, NEW h \in Hashes, ReplaceFile(f, h)
        PROVE  Ready(p)'
    <3>1. PICK fs : Refreshes(fs, EntriesOf(f)) /\ Publish(fs, EntriesOf(f), TRUE)
      BY <1>1, <2>6, ReplaceFileIs
    <3> QED BY <2>2, <2>3, <3>1 DEF Fills
  <2> QED BY <2>1, <2>4, <2>5, <2>6 DEF Refresh
<1>2. ASSUME CodeInv, [Next]_vars, publications' # publications
      PROVE  \A p \in Profiles : Ready(p) => Ready(p)'
  BY <1>1, <1>2 DEF vars
<1>3. CodeInv /\ [Next]_vars =>
        [publications' # publications => \A p \in Profiles : Ready(p) => Ready(p)']_vars
  BY <1>2
<1> QED BY <1>3, CodeHolds, PTL DEF Spec, PublicationKeepsSearch

-----------------------------------------------------------------------------
(* The semantic plane.                                                       *)

ArtifactsOK ==
    artifacts \in Seq([doc : Docs, supersedes : {None} \cup Nat])

(* A list taken at some moment holds whatever was published by then and is   *)
(* still current.                                                            *)
ListedOnce(list) ==
    \E n \in 0 .. Len(artifacts) :
        /\ list \subseteq 1 .. n
        /\ \A a \in Current : a <= n => a \in list

WorkerFields == {"pc", "preflight", "artifact", "listed", "todo"}

(* A pass carries such a list; what of it has no vector is still to do.      *)
WorkerOK(x) ==
    /\ x = [f \in WorkerFields |-> x[f]]
    /\ x.pc \in {"idle", "write", "list", "embed", "sync"}
    /\ x.preflight \in {"ready", "stale"}
    /\ x.artifact \in {None} \cup DOMAIN artifacts
    /\ x.listed \subseteq DOMAIN artifacts
    /\ x.pc \in {"embed", "sync"} =>
         /\ ListedOnce(x.listed)
         /\ Documents(x.listed) \subseteq vectors \cup x.todo
         /\ x.artifact # None => x.artifact \in x.listed \/ Superseded(x.artifact)
    /\ x.pc = "sync" => x.todo = {}

OccurrencesOK(es, rs) ==
    /\ IsFiniteSet(DOMAIN es) /\ DOMAIN es \subseteq Nat /\ DOMAIN rs = DOMAIN es
    /\ \A i \in DOMAIN es : /\ es[i] \in DOMAIN artifacts
                            /\ rs[i] = artifacts[es[i]].doc
                            /\ rs[i] \in vectors
    /\ \A i, j \in DOMAIN es : es[i] = es[j] => i = j
    /\ ListedOnce({es[i] : i \in DOMAIN es})

Answers == {None, "stale", "degraded", "active"}

SemanticInv ==
    /\ ArtifactsOK /\ Len(artifacts) <= MaxArtifacts
    /\ answers \in Seq(Answers) /\ Len(answers) = Len(artifacts)
    /\ vectors \subseteq Docs /\ profile \in BOOLEAN /\ complete \in BOOLEAN
    /\ DOMAIN workers = Workers
    /\ \A w \in Workers : WorkerOK(workers[w])
    /\ OccurrencesOK(indexed, ranked)

LEMMA ArtifactsAre ==
    ASSUME ArtifactsOK
    PROVE  /\ Len(artifacts) \in Nat /\ DOMAIN artifacts = 1 .. Len(artifacts)
           /\ \A a \in DOMAIN artifacts : artifacts[a].doc \in Docs
           /\ Current \subseteq DOMAIN artifacts
<1>1. Len(artifacts) \in Nat /\ DOMAIN artifacts = 1 .. Len(artifacts)
  BY DEF ArtifactsOK
<1>2. ASSUME NEW a \in DOMAIN artifacts
      PROVE  artifacts[a].doc \in Docs
  <2> DEFINE S == [doc : Docs, supersedes : {None} \cup Nat]
  <2>1. artifacts \in Seq(S)
    BY DEF ArtifactsOK
  <2> HIDE DEF S
  <2>2. artifacts[a] \in S
    BY <2>1
  <2> QED BY <2>2 DEF S
<1> QED BY <1>1, <1>2 DEF Current

(* The current artifacts are such a list.                                    *)
LEMMA CurrentIsListed ==
    ASSUME ArtifactsOK
    PROVE  ListedOnce(Current)
<1>1. Len(artifacts) \in 0 .. Len(artifacts) /\ Current \subseteq 1 .. Len(artifacts)
  BY ArtifactsAre
<1> QED BY <1>1 DEF ListedOnce

(* Artifacts are only added.                                                 *)
LEMMA ArtifactsGrow ==
    ASSUME ArtifactsOK, NEW r, r \in [doc : Docs, supersedes : {None} \cup Nat],
           artifacts' = Append(artifacts, r)
    PROVE  /\ ArtifactsOK' /\ Len(artifacts') = Len(artifacts) + 1
           /\ Len(artifacts') \in DOMAIN artifacts'
           /\ DOMAIN artifacts \subseteq DOMAIN artifacts'
           /\ \A a \in DOMAIN artifacts : artifacts'[a] = artifacts[a]
           /\ \A a : Superseded(a) => Superseded(a)'
           /\ \A list : ListedOnce(list) => ListedOnce(list)'
           /\ \A list : list \subseteq DOMAIN artifacts =>
                 Documents(list)' = Documents(list)
<1>1. /\ Len(artifacts) \in Nat /\ DOMAIN artifacts = 1 .. Len(artifacts)
      /\ Len(artifacts') = Len(artifacts) + 1
      /\ DOMAIN artifacts' = 1 .. Len(artifacts) + 1
      /\ \A a \in DOMAIN artifacts : artifacts'[a] = artifacts[a]
      /\ ArtifactsOK'
  BY DEF ArtifactsOK
<1>2. DOMAIN artifacts \subseteq DOMAIN artifacts' /\ Len(artifacts') \in DOMAIN artifacts'
  BY <1>1
<1>3. \A a : Superseded(a) => Superseded(a)'
  BY <1>1, <1>2 DEF Superseded
<1>4. \A a \in DOMAIN artifacts : a \in Current' => a \in Current
  BY <1>3 DEF Current
<1>5. ASSUME NEW list, ListedOnce(list)
      PROVE  ListedOnce(list)'
  <2>1. PICK n \in 0 .. Len(artifacts) :
           list \subseteq 1 .. n /\ \A a \in Current : a <= n => a \in list
    BY <1>5 DEF ListedOnce
  <2>2. n \in 0 .. Len(artifacts')
    BY <1>1
  <2>3. ASSUME NEW a \in Current', a <= n
        PROVE  a \in list
    <3>1. a \in DOMAIN artifacts'
      BY DEF Current
    <3>2. a \in DOMAIN artifacts
      BY <1>1, <2>3, <3>1
    <3> QED BY <1>4, <2>1, <2>3, <3>2
  <2> QED BY <2>1, <2>2, <2>3 DEF ListedOnce
<1>6. ASSUME NEW list, list \subseteq DOMAIN artifacts
      PROVE  Documents(list)' = Documents(list)
  <2>1. \A a \in list : artifacts'[a].doc = artifacts[a].doc
    BY <1>1, <1>6
  <2> QED BY <2>1 DEF Documents
<1> QED BY <1>1, <1>2, <1>3, <1>5, <1>6

(* The occurrences of a list: exactly one for each, numbered after those     *)
(* that are kept.                                                            *)
LEMMA OccurrencesAre ==
    ASSUME ArtifactsOK, OccurrencesOK(indexed, ranked), NEW list, list \subseteq DOMAIN artifacts,
           NEW occ, occ = Occurrences(list)
    PROVE  /\ IsFiniteSet(DOMAIN occ) /\ DOMAIN occ \subseteq Nat
           /\ \A i \in DOMAIN occ : occ[i] \in list
           /\ \A i \in KeptEntries(list) : i \in DOMAIN occ /\ occ[i] = indexed[i]
           /\ \A i, j \in DOMAIN occ : occ[i] = occ[j] => i = j
           /\ \A a \in list : \E i \in DOMAIN occ : occ[i] = a
<1> DEFINE kept == KeptEntries(list)
           new == list \ {indexed[i] : i \in kept}
           first == Fresh(kept)
           n == Cardinality(new)
           rank(a) == Cardinality({b \in new : b < a})
           R == {x \in new \X new : x[1] < x[2]}
<1>1. /\ kept \subseteq DOMAIN indexed
      /\ \A i \in kept : indexed[i] \in list
      /\ \A i, j \in kept : indexed[i] = indexed[j] => i = j
  BY DEF KeptEntries, OccurrencesOK
<1>2. IsFiniteSet(kept) /\ kept \subseteq Nat
  BY <1>1, FS_Subset DEF OccurrencesOK
<1>3. IsFiniteSet(new) /\ new \subseteq Nat /\ new \subseteq list
  <2>1. new \in SUBSET (1 .. Len(artifacts)) /\ Len(artifacts) \in Nat
    BY ArtifactsAre
  <2> HIDE DEF new
  <2>2. IsFiniteSet(1 .. Len(artifacts))
    BY <2>1, FS_Interval
  <2>3. IsFiniteSet(new)
    BY <2>1, <2>2, FS_Subset
  <2> QED BY <2>1, <2>3 DEF new
<1>4. occ = [i \in kept \cup first .. first + n - 1 |->
                IF i \in kept THEN indexed[i] ELSE CHOOSE a \in new : rank(a) = i - first]
  BY DEF Occurrences
<1>5. \A a \in list \ new : \E i \in kept : indexed[i] = a
  OBVIOUS
<1>6. \A i \in kept : indexed[i] \notin new
  OBVIOUS
<1>7. \A a, b \in new : <<b, a>> \in R <=> b < a
  OBVIOUS
<1>8. first \in Nat \ {0} /\ \A i \in kept : i < first
  BY <1>2, FreshIsNew DEF Fresh, Fresh
<1> HIDE DEF kept, new, first, R
<1>9. Orders(R, new)
  <2>1. \A a \in new : a \in Nat
    BY <1>3
  <2> QED BY <1>7, <2>1 DEF Orders
<1>10. ASSUME NEW a \in new
       PROVE  rank(a) = RankIn(new, R, a)
  <2>1. {b \in new : <<b, a>> \in R} = {b \in new : b < a}
    BY <1>7
  <2> QED BY <2>1 DEF RankIn
<1> HIDE DEF rank
<1>11. /\ n \in Nat
       /\ \A a \in new : rank(a) \in 0 .. n - 1
       /\ \A a, b \in new : rank(a) = rank(b) => a = b
       /\ \A k \in 0 .. n - 1 : \E a \in new : rank(a) = k
  <2>1. /\ Cardinality(new) \in Nat
        /\ \A a \in new : RankIn(new, R, a) \in 0 .. Cardinality(new) - 1
        /\ \A a, b \in new : RankIn(new, R, a) = RankIn(new, R, b) => a = b
        /\ \A k \in 0 .. Cardinality(new) - 1 : \E a \in new : RankIn(new, R, a) = k
    <3>1. IsFiniteSet(new)
      BY <1>3
    <3> QED BY ONLY <1>9, <3>1, RankNumbers
  <2>2. n = Cardinality(new)
    OBVIOUS
  <2> HIDE DEF n
  <2> QED BY <1>10, <2>1, <2>2
<1> HIDE DEF n
<1> DEFINE fresh == first .. first + n - 1
<1>12. DOMAIN occ = kept \cup fresh /\ \A i \in fresh : i \notin kept
  BY <1>2, <1>4, <1>8, <1>11
<1>13. \A i \in kept : occ[i] = indexed[i]
  BY <1>4
<1>14. ASSUME NEW i \in fresh
       PROVE  occ[i] \in new /\ rank(occ[i]) = i - first
  <2>1. i - first \in 0 .. n - 1
    BY <1>8, <1>11
  <2>2. \E a \in new : rank(a) = i - first
    BY <1>11, <2>1
  <2>3. occ[i] = CHOOSE a \in new : rank(a) = i - first
    BY <1>4, <1>12
  <2> QED BY <2>2, <2>3
<1>15. IsFiniteSet(DOMAIN occ) /\ DOMAIN occ \subseteq Nat
  <2>1. first \in Int /\ first + n - 1 \in Int
    BY <1>8, <1>11
  <2>2. IsFiniteSet(fresh)
    BY <2>1, FS_Interval
  <2>3. IsFiniteSet(kept \cup fresh)
    BY <1>2, <2>2, FS_Union
  <2>4. fresh \subseteq Nat
    BY <1>8, <1>11
  <2> QED BY <1>2, <1>12, <2>3, <2>4
<1>16. \A i \in DOMAIN occ : occ[i] \in list
  BY <1>1, <1>3, <1>12, <1>13, <1>14
<1>17. ASSUME NEW i \in DOMAIN occ, NEW j \in DOMAIN occ, occ[i] = occ[j]
       PROVE  i = j
  <2>1. CASE i \in kept /\ j \in kept
    BY <1>1, <1>13, <1>17, <2>1
  <2>2. CASE i \in fresh /\ j \in fresh
    <3>1. i - first = j - first
      BY <1>14, <1>17, <2>2
    <3> QED BY <1>8, <1>11, <2>2, <3>1
  <2>3. CASE (i \in kept /\ j \in fresh) \/ (i \in fresh /\ j \in kept)
    BY <1>6, <1>13, <1>14, <1>17, <2>3
  <2> QED BY <1>12, <2>1, <2>2, <2>3
<1>18. ASSUME NEW a \in list
       PROVE  \E i \in DOMAIN occ : occ[i] = a
  <2>1. CASE a \in new
    <3>1. PICK i : i = first + rank(a)
      OBVIOUS
    <3>2. i \in fresh /\ i - first = rank(a)
      BY <1>8, <1>11, <2>1, <3>1
    <3>3. occ[i] \in new /\ rank(occ[i]) = rank(a)
      BY <1>14, <3>2
    <3>4. occ[i] = a
      BY <1>11, <2>1, <3>3
    <3> QED BY <1>12, <3>2, <3>4
  <2>2. CASE a \notin new
    BY <1>5, <1>12, <1>13, <2>2
  <2> QED BY <2>1, <2>2
<1>19. \A i \in kept : i \in DOMAIN occ /\ occ[i] = indexed[i]
  BY <1>12, <1>13
<1> QED BY <1>15, <1>16, <1>17, <1>18, <1>19 DEF kept

(* What a worker has and what the occurrences are stay as they are while     *)
(* vectors are only added.                                                   *)
LEMMA CacheGrows ==
    ASSUME artifacts' = artifacts, vectors \subseteq vectors'
    PROVE  /\ ArtifactsOK => ArtifactsOK'
           /\ \A x : WorkerOK(x) => WorkerOK(x)'
           /\ \A es, rs : OccurrencesOK(es, rs) => OccurrencesOK(es, rs)'
<1>1. /\ \A list : ListedOnce(list) => ListedOnce(list)'
      /\ \A list : Documents(list)' = Documents(list)
      /\ \A a : Superseded(a)' = Superseded(a)
  BY DEF ListedOnce, Current, Superseded, Documents
<1>2. \A x : WorkerOK(x) => WorkerOK(x)'
  BY <1>1 DEF WorkerOK
<1>3. \A es, rs : OccurrencesOK(es, rs) => OccurrencesOK(es, rs)'
  BY <1>1 DEF OccurrencesOK
<1> QED BY <1>2, <1>3 DEF ArtifactsOK

(* ... and while an artifact is added.                                       *)
LEMMA ArtifactAdded ==
    ASSUME ArtifactsOK, NEW r, r \in [doc : Docs, supersedes : {None} \cup Nat],
           artifacts' = Append(artifacts, r), vectors' = vectors
    PROVE  /\ \A x : WorkerOK(x) => WorkerOK(x)'
           /\ \A es, rs : OccurrencesOK(es, rs) => OccurrencesOK(es, rs)'
<1>1. /\ DOMAIN artifacts \subseteq DOMAIN artifacts'
      /\ \A a \in DOMAIN artifacts : artifacts'[a] = artifacts[a]
      /\ \A a : Superseded(a) => Superseded(a)'
      /\ \A list : ListedOnce(list) => ListedOnce(list)'
      /\ \A list : list \subseteq DOMAIN artifacts =>
            Documents(list)' = Documents(list)
  BY ArtifactsGrow
<1>2. ASSUME NEW x, WorkerOK(x)
      PROVE  WorkerOK(x)'
  <2>1. Documents(x.listed)' = Documents(x.listed)
    BY <1>1, <1>2 DEF WorkerOK
  <2> QED BY <1>1, <1>2, <2>1 DEF WorkerOK
<1>3. ASSUME NEW es, NEW rs, OccurrencesOK(es, rs)
      PROVE  OccurrencesOK(es, rs)'
  BY <1>1, <1>3 DEF OccurrencesOK
<1> QED BY <1>2, <1>3

(* The occurrences rest.                                                     *)
LEMMA OccurrencesRest ==
    ASSUME OccurrencesOK(indexed, ranked), UNCHANGED <<indexed, ranked>>,
           \A es, rs : OccurrencesOK(es, rs) => OccurrencesOK(es, rs)'
    PROVE  OccurrencesOK(indexed, ranked)'
<1>1. PICK es : es = indexed
  OBVIOUS
<1>2. PICK rs : rs = ranked
  OBVIOUS
<1>3. OccurrencesOK(es, rs)'
  BY <1>1, <1>2
<1>4. es = indexed' /\ rs = ranked'
  BY <1>1, <1>2
<1> QED BY <1>3, <1>4 DEF OccurrencesOK, ListedOnce

(* One worker goes on.                                                       *)
LEMMA WorkerGoesOn ==
    ASSUME SemanticInv, NEW w \in Workers, NEW y, WorkerOK(y)',
           workers' = [workers EXCEPT ![w] = y], \A x : WorkerOK(x) => WorkerOK(x)'
    PROVE  /\ DOMAIN workers' = Workers
           /\ \A v \in Workers : WorkerOK(workers[v])'
<1>1. /\ DOMAIN workers' = Workers
      /\ \A v \in Workers : workers'[v] = IF v = w THEN y ELSE workers[v]
  BY DEF SemanticInv
<1>2. ASSUME NEW v \in Workers, NEW x, x = workers'[v]
      PROVE  WorkerOK(x)'
  <2>1. CASE v = w
    BY <1>1, <1>2, <2>1
  <2>2. CASE v # w
    <3>1. WorkerOK(x)
      BY <1>1, <1>2, <2>2 DEF SemanticInv
    <3> QED BY <3>1
  <2> QED BY <2>1, <2>2
<1>3. \A v \in Workers : WorkerOK(workers[v])'
  BY <1>2 DEF WorkerOK
<1> QED BY <1>1, <1>3

LEMMA IdleIsOK == WorkerOK(SemanticIdle)
BY ArtifactsAre DEF WorkerOK, WorkerFields, SemanticIdle

(* The answer of an annotation.                                              *)
LEMMA AnsweredOK ==
    ASSUME SemanticInv, NEW w, NEW answer \in Answers,
           answers' = Answered(w, answer)
    PROVE  answers' \in Seq(Answers) /\ Len(answers') = Len(answers)
<1>1. Len(answers) \in Nat /\ DOMAIN answers = 1 .. Len(answers)
      /\ \A a \in DOMAIN answers : answers[a] \in Answers
  BY DEF SemanticInv
<1> DEFINE F(a) == IF a = workers[w].artifact THEN answer ELSE answers[a]
<1>2. answers' = [a \in 1 .. Len(answers) |-> F(a)]
  BY <1>1 DEF Answered
<1>3. \A a \in 1 .. Len(answers) : F(a) \in Answers
  BY <1>1
<1> HIDE DEF F
<1> QED BY <1>1, <1>2, <1>3

LEMMA PreflightKeeps ==
    ASSUME SemanticInv, NEW w \in Workers, NEW configured \in BOOLEAN,
           Preflight(w, configured)
    PROVE  SemanticInv'
<1> DEFINE pre == IF configured /\ SemanticReady THEN "ready" ELSE "stale"
           y == [workers[w] EXCEPT !.pc = "write", !.preflight = pre]
<1>1. /\ workers' = [workers EXCEPT ![w].pc = "write", ![w].preflight = pre]
      /\ UNCHANGED <<artifacts, profile, vectors, indexed, ranked, complete, answers>>
  BY DEF Preflight, plane
<1>2. pre \in {"ready", "stale"}
  OBVIOUS
<1> HIDE DEF pre
<1>3. WorkerOK(workers[w])
  BY DEF SemanticInv
<1>4. workers' = [workers EXCEPT ![w] = y]
  BY <1>1
<1>5. WorkerOK(y)
  BY <1>2, <1>3 DEF WorkerOK, WorkerFields
<1> HIDE DEF y
<1>6. PICK x : x = y
  OBVIOUS
<1>7. WorkerOK(x)'
  BY <1>1, <1>5, <1>6, CacheGrows
<1>8. /\ DOMAIN workers' = Workers
      /\ \A v \in Workers : WorkerOK(workers[v])'
  BY <1>1, <1>4, <1>6, <1>7, CacheGrows, WorkerGoesOn
<1>9. ArtifactsOK' /\ OccurrencesOK(indexed, ranked)'
  BY <1>1, CacheGrows, OccurrencesRest DEF SemanticInv
<1> QED BY <1>1, <1>8, <1>9 DEF SemanticInv

LEMMA PublishesKeep ==
    ASSUME SemanticInv, MaxArtifacts \in Nat, NEW w \in Workers, NEW doc \in Docs,
           NEW supersedes \in {None} \cup Current,
           PublishArtifact(w, doc, supersedes)
    PROVE  SemanticInv'
<1> DEFINE r == [doc |-> doc, supersedes |-> supersedes]
           refresh == workers[w].preflight = "ready"
           listing == [SemanticIdle EXCEPT !.pc = "list", !.artifact = Len(artifacts')]
           y == IF refresh THEN listing ELSE SemanticIdle
           answer == IF refresh THEN None ELSE workers[w].preflight
<1>1. /\ Len(artifacts) < MaxArtifacts
      /\ artifacts' = Append(artifacts, r)
      /\ complete' = FALSE
      /\ workers' = [workers EXCEPT ![w] = y]
      /\ answers' = Append(answers, answer)
      /\ UNCHANGED <<profile, vectors, indexed, ranked>>
  BY DEF PublishArtifact, MarkStale
<1>2. ArtifactsOK /\ WorkerOK(workers[w]) /\ OccurrencesOK(indexed, ranked)
  BY DEF SemanticInv
<1>3. r \in [doc : Docs, supersedes : {None} \cup Nat]
  BY <1>2, ArtifactsAre
<1> HIDE DEF r
<1>4. /\ ArtifactsOK' /\ Len(artifacts') = Len(artifacts) + 1
      /\ Len(artifacts') \in DOMAIN artifacts'
  BY <1>1, <1>2, <1>3, ArtifactsGrow
<1>5. /\ \A x : WorkerOK(x) => WorkerOK(x)'
      /\ \A es, rs : OccurrencesOK(es, rs) => OccurrencesOK(es, rs)'
  BY <1>1, <1>2, <1>3, ArtifactAdded
<1>6. PICK x : x = y
  OBVIOUS
<1>7. WorkerOK(x)'
  <2>1. CASE refresh
    <3>1. PICK n : n = Len(artifacts')
      OBVIOUS
    <3> DEFINE z == [SemanticIdle EXCEPT !.pc = "list", !.artifact = n]
    <3>2. x = z
      BY <1>6, <2>1, <3>1
    <3>3. /\ z = [f \in WorkerFields |-> z[f]] /\ z.pc = "list" /\ z.artifact = n
          /\ z.preflight = "stale" /\ z.listed = {} /\ z.todo = {}
      BY DEF WorkerFields, SemanticIdle
    <3> HIDE DEF z
    <3>4. n \in DOMAIN artifacts'
      BY <1>4, <3>1
    <3> QED BY <3>2, <3>3, <3>4 DEF WorkerOK
  <2>2. CASE ~refresh
    <3>1. PICK z : z = SemanticIdle
      OBVIOUS
    <3>2. WorkerOK(z)'
      BY <1>5, <3>1, IdleIsOK
    <3> QED BY <1>6, <2>2, <3>1, <3>2
  <2> QED BY <2>1, <2>2
<1>8. /\ DOMAIN workers' = Workers
      /\ \A v \in Workers : WorkerOK(workers[v])'
  BY <1>1, <1>5, <1>6, <1>7, WorkerGoesOn
<1>9. OccurrencesOK(indexed, ranked)'
  BY <1>1, <1>2, <1>5, OccurrencesRest
<1>10. answers' \in Seq(Answers) /\ Len(answers') = Len(artifacts')
  <2>1. answer \in Answers
    BY <1>2 DEF WorkerOK, Answers
  <2> HIDE DEF answer
  <2> QED BY <1>1, <1>4, <2>1 DEF SemanticInv
<1>11. Len(artifacts') <= MaxArtifacts
  BY <1>1, <1>2, <1>4, ArtifactsAre
<1> QED BY <1>1, <1>4, <1>8, <1>9, <1>10, <1>11 DEF SemanticInv

LEMMA StartsKeep ==
    ASSUME SemanticInv, NEW w \in Workers, StartSemanticPass(w)
    PROVE  SemanticInv'
<1> DEFINE todo == Documents(Current) \ vectors
           pc2 == IF todo = {} THEN "sync" ELSE "embed"
           y == [workers[w] EXCEPT !.pc = pc2, !.listed = Current, !.todo = todo]
<1>1. /\ workers' = [workers EXCEPT ![w].pc = pc2, ![w].listed = Current,
                                    ![w].todo = todo]
      /\ UNCHANGED <<artifacts, profile, vectors, indexed, ranked, complete, answers>>
  BY DEF StartSemanticPass, Listed, plane
<1>2. ArtifactsOK /\ WorkerOK(workers[w]) /\ OccurrencesOK(indexed, ranked)
  BY DEF SemanticInv
<1>3. workers' = [workers EXCEPT ![w] = y]
  BY <1>1
<1>4. /\ pc2 \in {"sync", "embed"} /\ (pc2 = "sync" => todo = {})
      /\ Documents(Current) \subseteq vectors \cup todo
  OBVIOUS
<1> HIDE DEF todo, pc2
<1>5. /\ y = [f \in WorkerFields |-> y[f]] /\ y.pc = pc2 /\ y.listed = Current
      /\ y.todo = todo /\ y.artifact = workers[w].artifact
      /\ y.preflight = workers[w].preflight
  BY <1>2 DEF WorkerOK, WorkerFields
<1> HIDE DEF y
<1>6. y.artifact # None => y.artifact \in Current \/ Superseded(y.artifact)
  BY <1>2, <1>5 DEF WorkerOK, Current
<1>7. WorkerOK(y)
  <2>1. ListedOnce(Current) /\ Current \subseteq DOMAIN artifacts
    BY <1>2, CurrentIsListed, ArtifactsAre
  <2>2. /\ y.pc \in {"idle", "write", "list", "embed", "sync"}
        /\ y.preflight \in {"ready", "stale"}
        /\ y.artifact \in {None} \cup DOMAIN artifacts
        /\ y.listed \subseteq DOMAIN artifacts
        /\ y.pc = "sync" => y.todo = {}
    BY <1>2, <1>4, <1>5, <2>1 DEF WorkerOK
  <2>3. /\ ListedOnce(y.listed)
        /\ Documents(y.listed) \subseteq vectors \cup y.todo
        /\ y.artifact # None => y.artifact \in y.listed \/ Superseded(y.artifact)
    BY <1>4, <1>5, <1>6, <2>1
  <2> QED BY <1>5, <2>2, <2>3 DEF WorkerOK
<1>8. PICK x : x = y
  OBVIOUS
<1>9. WorkerOK(x)'
  BY <1>1, <1>7, <1>8, CacheGrows
<1>10. /\ DOMAIN workers' = Workers
       /\ \A v \in Workers : WorkerOK(workers[v])'
  BY <1>1, <1>3, <1>8, <1>9, CacheGrows, WorkerGoesOn
<1>11. ArtifactsOK' /\ OccurrencesOK(indexed, ranked)'
  BY <1>1, <1>2, CacheGrows, OccurrencesRest
<1> QED BY <1>1, <1>10, <1>11 DEF SemanticInv

LEMMA EmbedsKeep ==
    ASSUME SemanticInv, NEW w \in Workers, NEW doc \in Docs, EmbedSemanticBatch(w, doc)
    PROVE  SemanticInv'
<1> DEFINE left == workers[w].todo \ {doc}
           pc2 == IF left = {} THEN "sync" ELSE "embed"
           y == [workers[w] EXCEPT !.todo = left, !.pc = pc2]
<1>1. /\ workers[w].pc = "embed" /\ profile' = TRUE /\ vectors' = vectors \cup {doc}
      /\ workers' = [workers EXCEPT ![w].todo = left, ![w].pc = pc2]
      /\ UNCHANGED <<artifacts, indexed, ranked, complete, answers>>
  BY DEF EmbedSemanticBatch
<1>2. ArtifactsOK /\ WorkerOK(workers[w]) /\ OccurrencesOK(indexed, ranked)
  BY DEF SemanticInv
<1>3. workers' = [workers EXCEPT ![w] = y]
  BY <1>1
<1>4. pc2 \in {"sync", "embed"} /\ (pc2 = "sync" => left = {})
      /\ workers[w].todo \subseteq {doc} \cup left
  OBVIOUS
<1> HIDE DEF left, pc2
<1>5. /\ y = [f \in WorkerFields |-> y[f]] /\ y.pc = pc2 /\ y.listed = workers[w].listed
      /\ y.todo = left /\ y.artifact = workers[w].artifact
      /\ y.preflight = workers[w].preflight
  BY <1>2 DEF WorkerOK, WorkerFields
<1> HIDE DEF y
<1>6. PICK x : x = y
  OBVIOUS
<1>7. PICK v : v = workers[w]
  OBVIOUS
<1>8. WorkerOK(v)' /\ WorkerOK(v) /\ v.pc = "embed"
  BY <1>1, <1>2, <1>7, CacheGrows
<1>9. WorkerOK(x)'
  <2>1. Documents(v.listed)' \subseteq vectors' \cup x.todo
    <3>1. Documents(v.listed)' = Documents(v.listed)
      BY <1>1 DEF Documents
    <3>2. Documents(v.listed) \subseteq vectors \cup v.todo
      BY <1>8 DEF WorkerOK
    <3> QED BY <1>1, <1>4, <1>5, <1>6, <1>7, <3>1, <3>2
  <2> QED BY <1>4, <1>5, <1>6, <1>7, <1>8, <2>1 DEF WorkerOK
<1>10. /\ DOMAIN workers' = Workers
       /\ \A u \in Workers : WorkerOK(workers[u])'
  BY <1>1, <1>3, <1>6, <1>9, CacheGrows, WorkerGoesOn
<1>11. ArtifactsOK' /\ OccurrencesOK(indexed, ranked)'
  BY <1>1, <1>2, CacheGrows, OccurrencesRest
<1> QED BY <1>1, <1>10, <1>11 DEF SemanticInv

(* What the synchronization publishes.                                       *)
LEMMA SyncIs ==
    ASSUME SemanticInv, NEW w \in Workers, SyncSemanticPass(w),
           NEW list, list = workers[w].listed
    PROVE  /\ OccurrencesOK(indexed', ranked')
           /\ {indexed'[i] : i \in DOMAIN indexed'} = list
<1>1. PICK occ : occ = Occurrences(list)
  OBVIOUS
<1>2. /\ workers[w].pc = "sync" /\ Documents(list) \subseteq vectors
      /\ indexed' = occ
      /\ ranked' = [i \in DOMAIN occ |->
                     IF i \in KeptRows(list) THEN ranked[i] ELSE artifacts[occ[i]].doc]
  BY <1>1 DEF SyncSemanticPass
<1>3. ArtifactsOK /\ WorkerOK(workers[w]) /\ OccurrencesOK(indexed, ranked)
  BY DEF SemanticInv
<1>4. list \subseteq DOMAIN artifacts /\ ListedOnce(list)
  BY <1>2, <1>3 DEF WorkerOK
<1>5. /\ IsFiniteSet(DOMAIN occ) /\ DOMAIN occ \subseteq Nat
      /\ \A i \in DOMAIN occ : occ[i] \in list
      /\ \A i \in KeptEntries(list) : i \in DOMAIN occ /\ occ[i] = indexed[i]
      /\ \A i, j \in DOMAIN occ : occ[i] = occ[j] => i = j
      /\ \A a \in list : \E i \in DOMAIN occ : occ[i] = a
  BY <1>1, <1>3, <1>4, OccurrencesAre
<1>6. ASSUME NEW i \in DOMAIN occ
      PROVE  ranked'[i] = artifacts[occ[i]].doc /\ ranked'[i] \in vectors
  <2>1. artifacts[occ[i]].doc \in vectors
    BY <1>2, <1>5 DEF Documents
  <2>2. CASE i \in KeptRows(list)
    <3>1. i \in KeptEntries(list) /\ i \in DOMAIN indexed
      BY <2>2 DEF KeptRows, KeptEntries
    <3>2. ranked[i] = artifacts[indexed[i]].doc
      BY <1>3, <3>1 DEF OccurrencesOK
    <3> QED BY <1>2, <1>5, <2>1, <2>2, <3>1, <3>2
  <2>3. CASE i \notin KeptRows(list)
    BY <1>2, <2>1, <2>3
  <2> QED BY <2>2, <2>3
<1>7. {occ[i] : i \in DOMAIN occ} = list
  BY <1>5
<1>8. DOMAIN ranked' = DOMAIN occ
  BY <1>2
<1>9. OccurrencesOK(occ, ranked')
  BY <1>4, <1>5, <1>6, <1>7, <1>8 DEF OccurrencesOK
<1> QED BY <1>2, <1>7, <1>9

LEMMA SyncsKeep ==
    ASSUME SemanticInv, NEW w \in Workers, SyncSemanticPass(w)
    PROVE  SemanticInv'
<1>1. /\ complete' = TRUE /\ answers' = Answered(w, "active")
      /\ workers' = [workers EXCEPT ![w] = SemanticIdle]
      /\ UNCHANGED <<artifacts, profile, vectors>>
  BY DEF SyncSemanticPass
<1>2. PICK z : z = SemanticIdle
  OBVIOUS
<1>3. WorkerOK(z)'
  BY <1>1, <1>2, IdleIsOK, CacheGrows
<1>4. /\ DOMAIN workers' = Workers
      /\ \A v \in Workers : WorkerOK(workers[v])'
  BY <1>1, <1>2, <1>3, CacheGrows, WorkerGoesOn
<1>5. PICK es : es = indexed'
  OBVIOUS
<1>6. PICK rs : rs = ranked'
  OBVIOUS
<1>7. OccurrencesOK(es, rs)
  BY <1>5, <1>6, SyncIs
<1>8. OccurrencesOK(es, rs)'
  BY <1>1, <1>7, CacheGrows
<1>9. OccurrencesOK(indexed, ranked)'
  BY <1>5, <1>6, <1>8 DEF OccurrencesOK, ListedOnce
<1>10. answers' \in Seq(Answers) /\ Len(answers') = Len(answers)
  BY <1>1, AnsweredOK DEF Answers
<1>11. ArtifactsOK'
  BY <1>1 DEF SemanticInv, ArtifactsOK
<1> QED BY <1>1, <1>4, <1>9, <1>10, <1>11 DEF SemanticInv

LEMMA EndsKeep ==
    ASSUME SemanticInv, NEW w \in Workers, EndSemanticPass(w)
    PROVE  SemanticInv'
<1>1. PICK answer \in {"degraded", None} : answers' = Answered(w, answer)
  BY DEF EndSemanticPass
<1>2. /\ workers' = [workers EXCEPT ![w] = SemanticIdle]
      /\ UNCHANGED <<artifacts, profile, vectors, indexed, ranked, complete>>
  BY DEF EndSemanticPass, plane
<1>3. PICK z : z = SemanticIdle
  OBVIOUS
<1>4. WorkerOK(z)'
  BY <1>2, <1>3, IdleIsOK, CacheGrows
<1>5. /\ DOMAIN workers' = Workers
      /\ \A v \in Workers : WorkerOK(workers[v])'
  BY <1>2, <1>3, <1>4, CacheGrows, WorkerGoesOn
<1>6. ArtifactsOK' /\ OccurrencesOK(indexed, ranked)'
  BY <1>2, CacheGrows, OccurrencesRest DEF SemanticInv
<1>7. answers' \in Seq(Answers) /\ Len(answers') = Len(answers)
  BY <1>1, AnsweredOK DEF Answers
<1> QED BY <1>2, <1>5, <1>6, <1>7 DEF SemanticInv

LEMMA SemanticInvInit ==
    ASSUME MaxArtifacts \in Nat, SemanticInit
    PROVE  SemanticInv
<1>1. /\ artifacts = <<>> /\ profile = FALSE /\ vectors = {}
      /\ indexed = <<>> /\ ranked = <<>> /\ complete = FALSE
      /\ workers = [w \in Workers |-> SemanticIdle] /\ answers = <<>>
  BY DEF SemanticInit
<1>2. /\ ArtifactsOK /\ Len(artifacts) = 0 /\ answers \in Seq(Answers) /\ Len(answers) = 0
      /\ DOMAIN indexed = {} /\ DOMAIN ranked = {}
  BY <1>1 DEF ArtifactsOK
<1>3. ListedOnce({})
  <2>1. 0 \in 0 .. Len(artifacts) /\ Current \subseteq 1 .. 0
    BY <1>2, ArtifactsAre
  <2> QED BY <2>1 DEF ListedOnce
<1>4. OccurrencesOK(indexed, ranked)
  <2>1. IsFiniteSet({}) /\ {indexed[i] : i \in DOMAIN indexed} = {}
    BY <1>2, FS_EmptySet
  <2> QED BY <1>2, <1>3, <2>1 DEF OccurrencesOK
<1>5. /\ DOMAIN workers = Workers
      /\ \A w \in Workers : WorkerOK(workers[w])
  BY <1>1, IdleIsOK
<1>6. Len(artifacts) <= MaxArtifacts /\ Len(answers) = Len(artifacts)
  BY <1>2
<1>7. vectors \subseteq Docs /\ profile \in BOOLEAN /\ complete \in BOOLEAN
  BY <1>1
<1> QED BY <1>2, <1>4, <1>5, <1>6, <1>7, Zenon DEF SemanticInv

LEMMA SemanticInvNext ==
    ASSUME MaxArtifacts \in Nat, SemanticInv, [SemanticNext]_semantic_vars
    PROVE  SemanticInv'
<1>1. Agents \subseteq Workers
  BY DEF Workers
<1>2. CASE \E w \in Agents : Annotate(w)
  BY <1>1, <1>2, PreflightKeeps, PublishesKeep DEF Annotate
<1>3. CASE \E w \in Workers : Pass(w) \/ EndSemanticPass(w)
  BY <1>3, StartsKeep, SyncsKeep, EmbedsKeep, EndsKeep DEF Pass
<1>4. CASE UNCHANGED semantic_vars
  <2>1. UNCHANGED <<artifacts, profile, vectors, indexed, ranked, complete, workers, answers>>
    BY <1>4 DEF semantic_vars
  <2>2. \A x : WorkerOK(x) => WorkerOK(x)'
    BY <2>1, CacheGrows
  <2>3. ASSUME NEW v \in Workers, NEW x, x = workers[v]
        PROVE  WorkerOK(x)'
    BY <2>2, <2>3 DEF SemanticInv
  <2>4. \A v \in Workers : WorkerOK(workers[v])'
    BY <2>1, <2>3 DEF WorkerOK
  <2>5. ArtifactsOK' /\ OccurrencesOK(indexed, ranked)'
    BY <2>1, CacheGrows, OccurrencesRest DEF SemanticInv
  <2> QED BY <2>1, <2>4, <2>5 DEF SemanticInv
<1> QED BY <1>2, <1>3, <1>4 DEF SemanticNext

LEMMA SemanticInvHolds ==
    ASSUME MaxArtifacts \in Nat
    PROVE  SemanticSpec => []SemanticInv
<1>1. SemanticInit => SemanticInv
  BY SemanticInvInit
<1>2. SemanticInv /\ [SemanticNext]_semantic_vars => SemanticInv'
  BY SemanticInvNext
<1> QED BY <1>1, <1>2, PTL DEF SemanticSpec

(* Each row is the vector of its own artifact's document, no artifact has    *)
(* two, a pass that synchronises finds every listed document cached, and a   *)
(* ready plane leaves out the newest artifacts only (embed_semantic_missing_ *)
(* interruptible, sync_semantic_vector_index, ready_semantic_search_profile). *)
THEOREM SemanticPlaneIsSound ==
    ASSUME MaxArtifacts \in Nat
    PROVE  SemanticSpec => []PlaneSound
<1>1. ASSUME SemanticInv
      PROVE  SemanticTypeOK
  <2>1. Len(artifacts) \in Nat /\ DOMAIN artifacts = 1 .. Len(artifacts)
    BY <1>1, ArtifactsAre DEF SemanticInv
  <2>2. /\ DOMAIN answers = DOMAIN artifacts
        /\ \A a \in DOMAIN answers : answers[a] \in Answers
    BY <1>1, <2>1 DEF SemanticInv
  <2>3. DOMAIN artifacts \subseteq 1 .. MaxArtifacts
    BY <1>1, <2>1 DEF SemanticInv
  <2>4. \A w \in Workers : WorkerOK(workers[w])
    BY <1>1 DEF SemanticInv
  <2> QED BY <1>1, <2>2, <2>3, <2>4 DEF SemanticInv, SemanticTypeOK, Answers, WorkerOK
<1>2. ASSUME SemanticInv
      PROVE  VectorsMatch
  BY <1>1, <1>2 DEF SemanticInv, OccurrencesOK, VectorsMatch
<1>3. ASSUME SemanticInv
      PROVE  SyncFindsVectors
  BY <1>3 DEF SemanticInv, WorkerOK, SyncFindsVectors
<1>4. ASSUME SemanticInv, NEW a \in Current, NEW b \in Current,
             a < b, b \in SemanticServed
      PROVE  a \in SemanticServed
  <2> DEFINE served == {indexed[i] : i \in DOMAIN indexed}
  <2>1. SemanticServed = served \cap Current
    BY <1>4 DEF SemanticInv, OccurrencesOK, SemanticServed
  <2>2. ListedOnce(served)
    BY <1>4 DEF SemanticInv, OccurrencesOK
  <2> HIDE DEF served
  <2>3. PICK n \in 0 .. Len(artifacts) :
           served \subseteq 1 .. n /\ \A c \in Current : c <= n => c \in served
    BY <2>2 DEF ListedOnce
  <2>4. Len(artifacts) \in Nat /\ Current \subseteq 1 .. Len(artifacts)
    BY <1>4, ArtifactsAre DEF SemanticInv
  <2>5. a \in Nat /\ b \in Nat /\ n \in Nat
    BY <1>4, <2>3, <2>4
  <2>6. b <= n
    BY <1>4, <2>1, <2>3
  <2>7. a <= n
    BY <1>4, <2>5, <2>6
  <2> QED BY <1>4, <2>1, <2>3, <2>7
<1>5. SemanticInv => PlaneSound
  BY <1>2, <1>3, <1>4 DEF PlaneSound, ReadyServesPrefix
<1> QED BY <1>5, SemanticInvHolds, PTL

(* An annotation that is answered "active" is served then, unless another    *)
(* agent superseded it while its pass went on (annotate_request_with_        *)
(* provider and the pass it starts).                                         *)
THEOREM SemanticActiveIsServed ==
    ASSUME MaxArtifacts \in Nat, None \notin Nat, None # "active"
    PROVE  SemanticSpec => ActiveIsServed
<1>1. ASSUME SemanticInv, [SemanticNext]_semantic_vars, NEW a \in DOMAIN answers,
             answers'[a] = "active", answers[a] # "active"
      PROVE  a \in SemanticServed' \/ Superseded(a)'
  <2>1. /\ Len(artifacts) \in Nat /\ DOMAIN artifacts = 1 .. Len(artifacts)
        /\ DOMAIN answers = 1 .. Len(artifacts)
    BY <1>1, ArtifactsAre DEF SemanticInv
  <2>2. answers' # answers
    BY <1>1
  <2>3. ASSUME NEW w \in Workers, NEW doc, NEW supersedes,
               PublishArtifact(w, doc, supersedes)
        PROVE  FALSE
    <3>1. PICK answer : answers' = Append(answers, answer)
      BY <2>3 DEF PublishArtifact
    <3> QED BY <1>1, <3>1 DEF SemanticInv
  <2>4. ASSUME NEW w \in Workers, EndSemanticPass(w)
        PROVE  FALSE
    <3>1. PICK answer \in {"degraded", None} : answers' = Answered(w, answer)
      BY <2>4 DEF EndSemanticPass
    <3>2. answers'[a] = IF a = workers[w].artifact THEN answer ELSE answers[a]
      BY <3>1 DEF Answered
    <3> QED BY <1>1, <3>1, <3>2
  <2>5. PICK w \in Workers : SyncSemanticPass(w)
    <3>1. Agents \subseteq Workers
      BY DEF Workers
    <3>2. ~UNCHANGED semantic_vars
      BY <2>2 DEF semantic_vars
    <3>3. \A w \in Agents : ~Annotate(w)
      BY <2>2, <2>3, <3>1 DEF Annotate, Preflight
    <3>4. PICK w \in Workers : Pass(w)
      BY <1>1, <2>4, <3>2, <3>3 DEF SemanticNext
    <3> QED BY <2>2, <3>4 DEF Pass, StartSemanticPass, EmbedSemanticBatch
  <2>6. a = workers[w].artifact
    <3>1. answers' = Answered(w, "active")
      BY <2>5 DEF SyncSemanticPass
    <3> QED BY <1>1, <3>1 DEF Answered
  <2>7. PICK list : list = workers[w].listed
    OBVIOUS
  <2>8. a \in list \/ Superseded(a)
    <3>1. WorkerOK(workers[w]) /\ workers[w].pc = "sync"
      BY <1>1, <2>5 DEF SemanticInv, SyncSemanticPass
    <3>2. a # None
      BY <2>1
    <3> QED BY <2>6, <2>7, <3>1, <3>2 DEF WorkerOK
  <2>9. artifacts' = artifacts
    BY <2>5 DEF SyncSemanticPass
  <2>10. Superseded(a)' <=> Superseded(a)
    BY <2>9 DEF Superseded
  <2>11. ASSUME a \in list, ~Superseded(a)
         PROVE  a \in SemanticServed'
    <3>1. a \in {indexed'[i] : i \in DOMAIN indexed'} /\ DOMAIN ranked' = DOMAIN indexed'
      BY <1>1, <2>5, <2>7, <2>11, SyncIs DEF OccurrencesOK
    <3>2. a \in Current'
      BY <2>1, <2>9, <2>10, <2>11 DEF Current
    <3> QED BY <3>1, <3>2 DEF SemanticServed
  <2> QED BY <2>8, <2>10, <2>11
<1>2. SemanticInv /\ [SemanticNext]_semantic_vars =>
        [\A a \in DOMAIN answers :
            (answers'[a] = "active" /\ answers[a] # "active")
                => (a \in SemanticServed' \/ Superseded(a)')]_semantic_vars
  BY <1>1
<1> QED BY <1>2, SemanticInvHolds, PTL DEF SemanticSpec, ActiveIsServed
=============================================================================
