--------------------------- MODULE ScoutingProofs ---------------------------
(***************************************************************************)
(* For any number of scouting processes, commands, files and subjects: one *)
(* current artifact per subject, a ledger that agrees with the artifacts,  *)
(* the refinement of the register of every subject, and what a command     *)
(* leaves behind.                                                          *)
(*                                                                         *)
(* Inv says that whatever a process carries from one transaction to the    *)
(* next (targets, items, claimed runs) names rows of the subject it works  *)
(* on; rows are only appended and a row's subject never changes, so it     *)
(* stays true while other processes publish.  FreshInv adds that the       *)
(* children of a carried item exist and quote the code it was planned at,  *)
(* that an artifact's children are older than it (so that every artifact   *)
(* has its label), and that a tracked run in progress is still to be       *)
(* finished by its process.                                                *)
(***************************************************************************)
EXTENDS Scouting, SequenceTheorems, FiniteSetTheorems, WellFoundedInduction, TLAPS

(* A sequence of whatever it holds. *)
IsSeq(q) == q \in Seq({q[i] : i \in DOMAIN q})

Statuses == {"running", "completed", "superseded", "failed", "incomplete"}
Live(row) == row.status \in {"running", "completed"}

RowOK(row) ==
    /\ row = [subject |-> row.subject, input |-> row.input, status |-> row.status]
    /\ row.status \in Statuses
    /\ row.input[1] = row.subject

RunsOK(rs) ==
    /\ IsSeq(rs)
    /\ \A r \in DOMAIN rs : RowOK(rs[r])
    /\ \A q, r \in DOMAIN rs :
         q # r /\ rs[q].input = rs[r].input /\ Live(rs[q]) => ~Live(rs[r])

ArtifactsOK(as) ==
    /\ IsSeq(as)
    /\ \A i \in DOMAIN as : /\ as[i].subject \in Subjects
                            /\ as[i].run \in Nat
                            /\ as[i].replaces \in 0 .. Len(as)

(* An artifact's run has its subject and has completed; a completed run has *)
(* its artifact, one.                                                       *)
LinksOK(rs, as) ==
    /\ \A i \in DOMAIN as : as[i].run # 0 =>
         /\ as[i].run \in DOMAIN rs
         /\ rs[as[i].run].subject = as[i].subject
         /\ rs[as[i].run].status \in {"completed", "superseded"}
    /\ \A r \in DOMAIN rs : rs[r].status = "completed" =>
         \E i \in DOMAIN as :
            as[i].run = r /\ \A j \in DOMAIN as : as[j].run = r => j = i

Ledger(rs, as) == RunsOK(rs) /\ ArtifactsOK(as) /\ LinksOK(rs, as)

OneCurrent ==
    \A s \in Subjects : KindOf[s] # "workflow" =>
       \A i, j \in CurrentOf(s) : i = j

(* A row of this subject, or none. *)
Names(id, s) == id = 0 \/ (id \in ArtifactIds /\ artifacts[id].subject = s)

ItemOK(it) ==
    /\ it = [subject |-> it.subject, input |-> it.input, snapshot |-> it.snapshot,
             links |-> it.links, children |-> it.children, replaces |-> it.replaces,
             lineage |-> it.lineage]
    /\ it.subject \in Subjects
    /\ it.input[1] = it.subject
    /\ Names(it.replaces, it.subject)

WorkOK(w) ==
    /\ w = [it |-> w.it, run |-> w.run, replaces |-> w.replaces, context |-> w.context]
    /\ ItemOK(w.it)
    /\ w.run \in RunIds /\ runs[w.run].subject = w.it.subject
    /\ Names(w.replaces, w.it.subject)

Shapes ==
    /\ pc = [p \in Proc |-> pc[p]] /\ item = [p \in Proc |-> item[p]]
    /\ targets = [p \in Proc |-> targets[p]] /\ pending = [p \in Proc |-> pending[p]]
    /\ wave = [p \in Proc |-> wave[p]]

Held(p) ==
    /\ targets[p] \subseteq ArtifactIds
    /\ \A it \in pending[p] : ItemOK(it)
    /\ pc[p] = "claim" => ItemOK(item[p])
    /\ pc[p] = "publish" => WorkOK(item[p])
    /\ \A w \in wave[p] : WorkOK(w)

CommandOK == Shapes /\ \A p \in Proc : Held(p)

Inv == Ledger(runs, artifacts) /\ OneCurrent /\ CommandOK

-----------------------------------------------------------------------------
(* Sequences.                                                              *)

LEMMA SeqFacts ==
    ASSUME NEW q, IsSeq(q)
    PROVE  Len(q) \in Nat /\ DOMAIN q = 1 .. Len(q)
BY LenProperties DEF IsSeq

LEMMA FunctionSeq ==
    ASSUME NEW q, NEW n \in Nat, DOMAIN q = 1 .. n, q = [i \in 1 .. n |-> q[i]]
    PROVE  IsSeq(q) /\ Len(q) = n
<1> DEFINE R == {q[i] : i \in DOMAIN q}
<1>1. q \in [1 .. n -> R]
  OBVIOUS
<1>2. q \in UNION {[1 .. k -> R] : k \in Nat}
  BY <1>1
<1>3. q \in Seq(R)
  BY <1>2, SeqDef
<1>4. Len(q) \in Nat /\ DOMAIN q = 1 .. Len(q)
  BY <1>3, LenProperties
<1>5. Len(q) = n
  BY <1>4
<1> QED BY <1>3, <1>5 DEF IsSeq

LEMMA AppendSeq ==
    ASSUME NEW q, IsSeq(q), NEW e
    PROVE  /\ IsSeq(Append(q, e))
           /\ DOMAIN Append(q, e) = 1 .. Len(q) + 1
           /\ Len(Append(q, e)) = Len(q) + 1
           /\ \A i \in DOMAIN q : i \in DOMAIN Append(q, e) /\ Append(q, e)[i] = q[i]
           /\ Append(q, e)[Len(q) + 1] = e
<1> DEFINE T == {q[i] : i \in DOMAIN q} \cup {e}
           a == Append(q, e)
<1>1. q \in Seq(T) /\ e \in T
  BY SeqMonotonic DEF IsSeq
<1>2. /\ a \in Seq(T) /\ Len(a) = Len(q) + 1
      /\ \A i \in 1 .. Len(q) : a[i] = q[i]
      /\ a[Len(q) + 1] = e
  BY <1>1, AppendProperties
<1>3. DOMAIN a = 1 .. Len(q) + 1 /\ a \in [1 .. Len(q) + 1 -> T] /\ Len(q) \in Nat
  BY <1>1, <1>2, LenProperties
<1> HIDE DEF a, T
<1>4. a = [i \in 1 .. Len(q) + 1 |-> a[i]] /\ Len(q) + 1 \in Nat
  BY <1>3
<1>5. IsSeq(a)
  BY <1>3, <1>4, FunctionSeq
<1>6. DOMAIN q = 1 .. Len(q)
  BY SeqFacts
<1> QED BY <1>2, <1>3, <1>5, <1>6 DEF a

LEMMA IntervalEnds ==
    ASSUME NEW m \in Nat, NEW n \in Nat, 1 .. m = 1 .. n
    PROVE  m = n
<1>1. m = 0 \/ m \in 1 .. m
  OBVIOUS
<1>2. n = 0 \/ n \in 1 .. n
  OBVIOUS
<1>3. \A k \in 1 .. m : k <= n
  OBVIOUS
<1>4. \A k \in 1 .. n : k <= m
  OBVIOUS
<1> QED BY <1>1, <1>2, <1>3, <1>4

LEMMA NewestIsMember ==
    ASSUME NEW S
    PROVE  Newest(S) \in S \/ Newest(S) = 0
BY DEF Newest

LEMMA NewestOfOne ==
    ASSUME NEW S, S \subseteq Nat, \A i, j \in S : i = j
    PROVE  \/ S = {} /\ Newest(S) = 0
           \/ S = {Newest(S)}
<1>1. CASE S = {}
  BY <1>1 DEF Newest
<1>2. CASE S # {}
  <2>1. PICK x \in S : TRUE
    BY <1>2
  <2>2. S = {x} /\ x \in Nat
    BY <2>1
  <2>3. Newest(S) = CHOOSE i \in S : \A j \in S : j <= i
    BY <2>2 DEF Newest
  <2>4. Newest(S) = x
    BY <2>2, <2>3
  <2> QED BY <2>2, <2>4
<1> QED BY <1>1, <1>2

-----------------------------------------------------------------------------
(* The ledger.                                                             *)

LEMMA MarkShape ==
    ASSUME RunsOK(runs), NEW ids, NEW status \in Statuses
    PROVE  /\ IsSeq(Mark(ids, status))
           /\ DOMAIN Mark(ids, status) = RunIds
           /\ \A r \in RunIds :
                /\ RowOK(Mark(ids, status)[r])
                /\ Mark(ids, status)[r].subject = runs[r].subject
                /\ Mark(ids, status)[r].input = runs[r].input
                /\ Mark(ids, status)[r].status = IF r \in ids THEN status ELSE runs[r].status
<1> DEFINE m == Mark(ids, status)
<1>1. Len(runs) \in Nat /\ RunIds = 1 .. Len(runs)
  BY SeqFacts DEF RunsOK, RunIds
<1>2. DOMAIN m = 1 .. Len(runs) /\ m = [i \in 1 .. Len(runs) |-> m[i]]
  BY <1>1 DEF Mark
<1>3. IsSeq(m)
  BY <1>1, <1>2, FunctionSeq
<1>4. ASSUME NEW r \in RunIds
      PROVE  /\ RowOK(m[r])
             /\ m[r].subject = runs[r].subject
             /\ m[r].input = runs[r].input
             /\ m[r].status = IF r \in ids THEN status ELSE runs[r].status
  <2>1. RowOK(runs[r])
    BY DEF RunsOK, RunIds
  <2>2. m[r] = IF r \in ids THEN [runs[r] EXCEPT !.status = status] ELSE runs[r]
    BY DEF Mark
  <2>3. CASE r \notin ids
    BY <2>1, <2>2, <2>3
  <2>4. CASE r \in ids
    <3>1. [runs[r] EXCEPT !.status = status]
            = [subject |-> runs[r].subject, input |-> runs[r].input, status |-> status]
      BY <2>1 DEF RowOK
    <3> QED BY <2>1, <2>2, <2>4, <3>1 DEF RowOK
  <2> QED BY <2>3, <2>4
<1> QED BY <1>1, <1>2, <1>3, <1>4

(* Only running rows fail and only completed rows are superseded. *)
Demotes(ids, status) ==
    /\ status \in {"failed", "incomplete", "superseded"}
    /\ \A r \in ids \cap RunIds :
         IF status = "superseded" THEN Completed(r) ELSE Running(r)

LEMMA MarkKeepsLedger ==
    ASSUME Ledger(runs, artifacts), NEW ids, NEW status, Demotes(ids, status)
    PROVE  /\ Ledger(Mark(ids, status), artifacts)
           /\ DOMAIN Mark(ids, status) = RunIds
           /\ \A r \in RunIds : Mark(ids, status)[r].subject = runs[r].subject
<1> DEFINE m == Mark(ids, status)
<1>1. status \in Statuses
  BY DEF Demotes, Statuses
<1>2. /\ IsSeq(m) /\ DOMAIN m = RunIds
      /\ \A r \in RunIds : /\ RowOK(m[r])
                           /\ m[r].subject = runs[r].subject
                           /\ m[r].input = runs[r].input
                           /\ m[r].status = IF r \in ids THEN status ELSE runs[r].status
  BY <1>1, MarkShape DEF Ledger
<1> HIDE DEF m
<1>3. \A r \in RunIds : Live(m[r]) => Live(runs[r]) /\ r \notin ids
  BY <1>2 DEF Live, Demotes
<1>4. RunsOK(m)
  BY <1>2, <1>3 DEF RunsOK, Ledger, RunIds
<1>5. \A r \in RunIds : runs[r].status \in {"completed", "superseded"}
                          => m[r].status \in {"completed", "superseded"}
  BY <1>2 DEF Demotes, Running, Completed
<1>6. \A r \in RunIds : m[r].status = "completed" => runs[r].status = "completed"
  BY <1>2 DEF Demotes
<1>7. LinksOK(m, artifacts)
  BY <1>2, <1>5, <1>6 DEF LinksOK, Ledger, RunIds
<1> QED BY <1>2, <1>4, <1>7 DEF Ledger, m

LEMMA AppendKeepsLedger ==
    ASSUME NEW rs, NEW as, Ledger(rs, as), NEW row, RowOK(row),
           row.status \in {"running", "incomplete"},
           Live(row) => \A r \in DOMAIN rs : rs[r].input = row.input => ~Live(rs[r])
    PROVE  /\ Ledger(Append(rs, row), as)
           /\ DOMAIN Append(rs, row) = 1 .. Len(rs) + 1
           /\ DOMAIN rs = 1 .. Len(rs) /\ Len(rs) \in Nat
           /\ Append(rs, row)[Len(rs) + 1] = row
           /\ \A r \in DOMAIN rs : Append(rs, row)[r] = rs[r]
<1> DEFINE a == Append(rs, row)
<1>1. Len(rs) \in Nat /\ DOMAIN rs = 1 .. Len(rs)
  BY SeqFacts DEF Ledger, RunsOK
<1>2. /\ IsSeq(a) /\ DOMAIN a = 1 .. Len(rs) + 1
      /\ \A i \in DOMAIN rs : a[i] = rs[i]
      /\ a[Len(rs) + 1] = row
  BY AppendSeq DEF Ledger, RunsOK
<1> HIDE DEF a
<1>3. \A r \in DOMAIN a : r \in DOMAIN rs \/ r = Len(rs) + 1
  BY <1>1, <1>2
<1>4. \A r \in DOMAIN rs : r \in DOMAIN a
  BY <1>1, <1>2
<1>5. \A r \in DOMAIN a : RowOK(a[r])
  BY <1>2, <1>3 DEF Ledger, RunsOK
<1>6. \A q, r \in DOMAIN a : q # r /\ a[q].input = a[r].input /\ Live(a[q]) => ~Live(a[r])
  BY <1>2, <1>3 DEF Ledger, RunsOK
<1>7. LinksOK(a, as)
  <2>1. \A i \in DOMAIN as : as[i].run # 0 =>
          /\ as[i].run \in DOMAIN a
          /\ a[as[i].run].subject = as[i].subject
          /\ a[as[i].run].status \in {"completed", "superseded"}
    BY <1>2, <1>4 DEF Ledger, LinksOK
  <2>2. \A r \in DOMAIN a : a[r].status = "completed" => r \in DOMAIN rs /\ a[r] = rs[r]
    BY <1>2, <1>3
  <2> QED BY <2>1, <2>2 DEF Ledger, LinksOK
<1> QED BY <1>1, <1>2, <1>5, <1>6, <1>7 DEF Ledger, RunsOK, a

(* A run publishes: its row completes, the generating run of its            *)
(* predecessor is superseded, and the artifact is appended.                 *)
LEMMA PublishKeepsLedger ==
    ASSUME Ledger(runs, artifacts), NEW run \in RunIds, runs[run].status = "running",
           NEW pred \in 0 .. Len(artifacts), NEW a,
           a.subject = runs[run].subject, a.subject \in Subjects, a.run = run, run \in Nat,
           a.replaces = pred,
           runs' = [Mark(GeneratingRun(pred), "superseded")
                      EXCEPT ![run].status = "completed"]
    PROVE  /\ Ledger(runs', Append(artifacts, a))
           /\ DOMAIN runs' = RunIds
           /\ \A r \in RunIds : runs'[r].subject = runs[r].subject
<1> DEFINE g == GeneratingRun(pred)
           m == Mark(g, "superseded")
           b == Append(artifacts, a)
           n == Len(artifacts) + 1
<1>1. Demotes(g, "superseded") /\ run \notin g
  BY DEF Demotes, GeneratingRun, Completed
<1>2. /\ Ledger(m, artifacts) /\ DOMAIN m = RunIds
      /\ \A r \in RunIds : m[r].subject = runs[r].subject
  BY <1>1, MarkKeepsLedger
<1>3. m[run] = runs[run]
  BY <1>1 DEF Mark
<1>4. RowOK(m[run]) /\ m[run].status = "running"
  BY <1>3 DEF Ledger, RunsOK, RunIds
<1> HIDE DEF m, g
<1>5. [m[run] EXCEPT !.status = "completed"]
        = [subject |-> m[run].subject, input |-> m[run].input, status |-> "completed"]
  BY <1>4 DEF RowOK
<1>6. runs' = [m EXCEPT ![run] = [m[run] EXCEPT !.status = "completed"]]
  BY DEF m, g
<1>7. /\ Len(m) \in Nat /\ DOMAIN m = 1 .. Len(m)
      /\ m = [r \in 1 .. Len(m) |-> m[r]]
  <2>1. Len(m) \in Nat /\ DOMAIN m = 1 .. Len(m) /\ m \in Seq({m[i] : i \in DOMAIN m})
    BY <1>2, SeqFacts DEF Ledger, RunsOK, IsSeq
  <2> QED BY <2>1, LenProperties
<1>8. /\ DOMAIN runs' = DOMAIN m
      /\ \A r \in DOMAIN m : r # run => runs'[r] = m[r]
      /\ runs'[run] = [subject |-> m[run].subject, input |-> m[run].input, status |-> "completed"]
      /\ runs' = [r \in DOMAIN m |-> runs'[r]]
  BY <1>2, <1>5, <1>6, <1>7
<1>9. IsSeq(runs')
  <2>1. DOMAIN m = 1 .. Len(m) /\ Len(m) \in Nat
    BY <1>7
  <2>2. DOMAIN runs' = 1 .. Len(m) /\ runs' = [r \in 1 .. Len(m) |-> runs'[r]]
    BY <1>8, <2>1, Zenon
  <2>3. ASSUME NEW q, DOMAIN q = 1 .. Len(m), q = [r \in 1 .. Len(m) |-> q[r]]
        PROVE  IsSeq(q)
    BY ONLY <2>1, <2>3, FunctionSeq
  <2> QED BY ONLY <2>2, <2>3
<1>10. \A r \in DOMAIN runs' : RowOK(runs'[r])
  BY <1>2, <1>4, <1>8 DEF Ledger, RunsOK, RowOK, Statuses
<1>11. \A r \in DOMAIN runs' : /\ runs'[r].input = m[r].input /\ runs'[r].subject = m[r].subject
                            /\ Live(runs'[r]) <=> Live(m[r])
  BY <1>4, <1>8 DEF Live
<1>12. RunsOK(runs')
  BY <1>2, <1>8, <1>9, <1>10, <1>11 DEF Ledger, RunsOK
<1>13. /\ IsSeq(b) /\ DOMAIN b = 1 .. n /\ Len(b) = n
       /\ \A i \in DOMAIN artifacts : i \in DOMAIN b /\ b[i] = artifacts[i]
       /\ b[n] = a /\ Len(artifacts) \in Nat
       /\ DOMAIN artifacts = 1 .. Len(artifacts)
  BY AppendSeq, SeqFacts DEF Ledger, ArtifactsOK
<1> HIDE DEF b
<1>14. \A i \in DOMAIN b : i \in DOMAIN artifacts \/ i = n
  BY <1>13
<1>15. ArtifactsOK(b)
  <2>1. \A i \in DOMAIN artifacts : artifacts[i].replaces \in 0 .. n
    BY <1>13 DEF Ledger, ArtifactsOK
  <2>2. pred \in 0 .. n
    BY <1>13
  <2>3. ASSUME NEW i \in DOMAIN b
        PROVE  b[i].subject \in Subjects /\ b[i].run \in Nat /\ b[i].replaces \in 0 .. n
    BY <1>13, <1>14, <2>1, <2>2 DEF Ledger, ArtifactsOK
  <2> QED BY <1>13, <2>3 DEF ArtifactsOK
<1>16. \A i \in DOMAIN artifacts : artifacts[i].run # run \/ run = 0
  BY DEF Ledger, LinksOK
<1>17. run # 0
  <2>1. RunIds = 1 .. Len(runs) /\ Len(runs) \in Nat
    BY SeqFacts DEF Ledger, RunsOK, RunIds
  <2> QED BY <2>1
<1>18. ASSUME NEW i \in DOMAIN b, b[i].run # 0
       PROVE  /\ b[i].run \in DOMAIN runs'
              /\ runs'[b[i].run].subject = b[i].subject
              /\ runs'[b[i].run].status \in {"completed", "superseded"}
  <2>1. CASE i = n
    BY <1>2, <1>8, <1>13, <2>1
  <2>2. CASE i \in DOMAIN artifacts
    BY <1>2, <1>8, <1>11, <1>13, <1>16, <1>18, <2>2 DEF Ledger, LinksOK
  <2> QED BY <1>14, <2>1, <2>2
<1>19. ASSUME NEW r \in DOMAIN runs', runs'[r].status = "completed"
       PROVE  \E i \in DOMAIN b :
                 b[i].run = r /\ \A j \in DOMAIN b : b[j].run = r => j = i
  <2>1. CASE r = run
    <3>1. n \in DOMAIN b /\ b[n].run = r
      BY <1>13, <2>1
    <3>2. \A j \in DOMAIN b : b[j].run = r => j = n
      BY <1>13, <1>14, <1>16, <1>17, <2>1
    <3> QED BY <3>1, <3>2
  <2>2. CASE r # run
    <3>1. r \in DOMAIN m /\ m[r].status = "completed"
      BY <1>8, <1>19, <2>2
    <3>2. PICK i \in DOMAIN artifacts :
             artifacts[i].run = r /\ \A j \in DOMAIN artifacts : artifacts[j].run = r => j = i
      BY <1>2, <3>1 DEF Ledger, LinksOK
    <3>3. i \in DOMAIN b /\ b[i].run = r
      BY <1>13, <3>2
    <3>4. \A j \in DOMAIN b : b[j].run = r => j = i
      BY <1>13, <1>14, <2>2, <3>2
    <3> QED BY <3>3, <3>4
  <2> QED BY <2>1, <2>2
<1>20. LinksOK(runs', b)
  BY <1>18, <1>19 DEF LinksOK
<1> QED BY <1>2, <1>8, <1>11, <1>12, <1>15, <1>20 DEF Ledger, b

LEMMA AnnotateKeepsLedger ==
    ASSUME Ledger(runs, artifacts), NEW pred \in 0 .. Len(artifacts), NEW a,
           a.subject \in Subjects, a.run = 0, a.replaces = pred
    PROVE  Ledger(runs, Append(artifacts, a))
<1> DEFINE b == Append(artifacts, a)
           n == Len(artifacts) + 1
<1>1. /\ IsSeq(b) /\ DOMAIN b = 1 .. n /\ Len(b) = n
      /\ \A i \in DOMAIN artifacts : i \in DOMAIN b /\ b[i] = artifacts[i]
      /\ b[n] = a /\ Len(artifacts) \in Nat
      /\ DOMAIN artifacts = 1 .. Len(artifacts)
  BY AppendSeq, SeqFacts DEF Ledger, ArtifactsOK
<1> HIDE DEF b
<1>2. \A i \in DOMAIN b : i \in DOMAIN artifacts \/ i = n
  BY <1>1
<1>3. ArtifactsOK(b)
  <2>1. \A i \in DOMAIN artifacts : artifacts[i].replaces \in 0 .. n
    BY <1>1 DEF Ledger, ArtifactsOK
  <2>2. pred \in 0 .. n
    BY <1>1
  <2>3. ASSUME NEW i \in DOMAIN b
        PROVE  b[i].subject \in Subjects /\ b[i].run \in Nat /\ b[i].replaces \in 0 .. n
    BY <1>1, <1>2, <2>1, <2>2 DEF Ledger, ArtifactsOK
  <2> QED BY <1>1, <2>3 DEF ArtifactsOK
<1>4. RunIds = 1 .. Len(runs) /\ Len(runs) \in Nat
  BY SeqFacts DEF Ledger, RunsOK, RunIds
<1>5. ASSUME NEW r \in RunIds, runs[r].status = "completed"
      PROVE  \E i \in DOMAIN b :
                b[i].run = r /\ \A j \in DOMAIN b : b[j].run = r => j = i
  <2>1. PICK i \in DOMAIN artifacts :
           artifacts[i].run = r /\ \A j \in DOMAIN artifacts : artifacts[j].run = r => j = i
    BY <1>5 DEF Ledger, LinksOK, RunIds
  <2>2. i \in DOMAIN b /\ b[i].run = r /\ r # 0
    BY <1>1, <1>4, <2>1
  <2>3. \A j \in DOMAIN b : b[j].run = r => j = i
    BY <1>1, <1>2, <2>1, <2>2
  <2> QED BY <2>2, <2>3
<1>6. LinksOK(runs, b)
  BY <1>1, <1>2, <1>5 DEF LinksOK, Ledger, RunIds
<1> QED BY <1>3, <1>6 DEF Ledger, b

-----------------------------------------------------------------------------
(* Current artifacts.                                                      *)

LEMMA CurrentIds ==
    ASSUME Ledger(runs, artifacts)
    PROVE  /\ ArtifactIds = 1 .. Len(artifacts) /\ Len(artifacts) \in Nat
           /\ \A s \in Subjects : CurrentOf(s) \subseteq ArtifactIds /\ CurrentOf(s) \subseteq Nat
<1>1. ArtifactIds = 1 .. Len(artifacts) /\ Len(artifacts) \in Nat
  BY SeqFacts DEF Ledger, ArtifactsOK, ArtifactIds
<1> QED BY <1>1 DEF CurrentOf, Current

(* A new row takes the place of its predecessor in the register of its       *)
(* subject.                                                                  *)
LEMMA AppendCurrent ==
    ASSUME Ledger(runs, artifacts), NEW a, NEW s \in Subjects,
           a.replaces \in 0 .. Len(artifacts),
           artifacts' = Append(artifacts, a)
    PROVE  CurrentOf(s)' = (CurrentOf(s) \ {a.replaces})
                             \cup (IF a.subject = s THEN {Len(artifacts) + 1} ELSE {})
<1> DEFINE n == Len(artifacts) + 1
<1>1. /\ DOMAIN artifacts' = 1 .. n
      /\ \A i \in DOMAIN artifacts : i \in DOMAIN artifacts' /\ artifacts'[i] = artifacts[i]
      /\ artifacts'[n] = a /\ Len(artifacts) \in Nat
      /\ DOMAIN artifacts = 1 .. Len(artifacts)
  BY AppendSeq, SeqFacts DEF Ledger, ArtifactsOK
<1>2. \A i \in DOMAIN artifacts' : i \in DOMAIN artifacts \/ i = n
  BY <1>1
<1>3. n \in DOMAIN artifacts' /\ n \notin DOMAIN artifacts /\ n # a.replaces
  BY <1>1
<1>4. \A i \in DOMAIN artifacts : HasSuccessor(i)' <=> HasSuccessor(i) \/ i = a.replaces
  BY <1>1, <1>2, <1>3 DEF HasSuccessor, ArtifactIds
<1>5. ~\E j \in DOMAIN artifacts' : artifacts'[j].replaces = n
  <2>1. \A j \in DOMAIN artifacts : artifacts[j].replaces # n
    BY <1>1 DEF Ledger, ArtifactsOK
  <2> QED BY <1>1, <1>2, <1>3, <2>1
<1>6. Current' = (Current \ {a.replaces}) \cup {n}
  <2>1. ASSUME NEW i
        PROVE  i \in Current' <=> i \in (Current \ {a.replaces}) \cup {n}
    <3>1. CASE i \in DOMAIN artifacts
      BY <1>1, <1>3, <1>4, <3>1 DEF Current, ArtifactIds
    <3>2. CASE i = n
      BY <1>1, <1>3, <1>5, <3>2 DEF Current, ArtifactIds, HasSuccessor
    <3>3. CASE i \notin DOMAIN artifacts /\ i # n
      BY <1>2, <3>3 DEF Current, ArtifactIds
    <3> QED BY <3>1, <3>2, <3>3
  <2> QED BY <2>1
<1>7. \A i \in Current : i \in DOMAIN artifacts
  BY DEF Current, ArtifactIds
<1> HIDE DEF n
<1>8. ASSUME NEW i
      PROVE  i \in CurrentOf(s)' <=>
               \/ i \in CurrentOf(s) /\ i # a.replaces
               \/ i = n /\ a.subject = s
  BY <1>1, <1>3, <1>6, <1>7 DEF CurrentOf
<1> QED BY <1>8 DEF n

-----------------------------------------------------------------------------
(* What a process holds stays true while rows are appended.                *)

Kept ==
    /\ RunIds \subseteq RunIds'
    /\ \A r \in RunIds : runs'[r].subject = runs[r].subject
    /\ ArtifactIds \subseteq ArtifactIds'
    /\ \A i \in ArtifactIds : artifacts'[i] = artifacts[i]

LEMMA HeldKept ==
    ASSUME Kept
    PROVE  /\ \A id, s : Names(id, s) => Names(id, s)'
           /\ \A it : ItemOK(it) => ItemOK(it)'
           /\ \A w : WorkOK(w) => WorkOK(w)'
<1>1. \A id, s : Names(id, s) => Names(id, s)'
  BY DEF Kept, Names
<1>2. \A it : ItemOK(it) => ItemOK(it)'
  BY <1>1 DEF ItemOK
<1>3. \A w : WorkOK(w) => WorkOK(w)'
  BY <1>1, <1>2 DEF WorkOK, Kept
<1> QED BY <1>1, <1>2, <1>3

LEMMA SameStore ==
    ASSUME runs' = runs, artifacts' = artifacts
    PROVE  Kept
BY DEF Kept, RunIds, ArtifactIds

LEMMA SameArtifacts ==
    ASSUME artifacts' = artifacts, OneCurrent
    PROVE  OneCurrent' /\ \A s : CurrentOf(s)' = CurrentOf(s)
BY DEF OneCurrent, CurrentOf, Current, HasSuccessor, ArtifactIds

(* The register of a subject moves on to the new row. *)
Moves(s, id) ==
    /\ CurrentOf(s)' = {id}
    /\ id \notin ArtifactIds
    /\ \A t \in Subjects : KindOf[t] # "workflow" /\ t # s => CurrentOf(t)' = CurrentOf(t)

RegisterStep ==
    \/ \A t \in Subjects : KindOf[t] # "workflow" => CurrentOf(t)' = CurrentOf(t)
    \/ \E s \in Subjects : KindOf[s] # "workflow" /\ Moves(s, Len(artifacts) + 1)

LEMMA PredecessorIsCurrent ==
    ASSUME Ledger(runs, artifacts), OneCurrent, NEW w, WorkOK(w),
           RecheckPasses(w), Insertable(w)
    PROVE  LET pred == PublishedPredecessor(w) IN
           /\ Names(pred, w.it.subject)
           /\ KindOf[w.it.subject] # "workflow" => CurrentOf(w.it.subject) \subseteq {pred}
<1> DEFINE s == w.it.subject
           pred == PublishedPredecessor(w)
<1>1. s \in Subjects /\ KindOf[s] \in Kinds
  BY SemanticAssumption DEF WorkOK, ItemOK
<1>2. /\ ArtifactIds = 1 .. Len(artifacts) /\ Len(artifacts) \in Nat
      /\ CurrentOf(s) \subseteq ArtifactIds /\ CurrentOf(s) \subseteq Nat
  BY <1>1, CurrentIds
<1>3. Names(Newest(CurrentOf(s)), s)
  BY <1>2, NewestIsMember DEF Names, CurrentOf
<1>4. Names(w.replaces, s)
  BY DEF WorkOK
<1>5. KindOf[s] # "workflow" => \A i, j \in CurrentOf(s) : i = j
  BY <1>1 DEF OneCurrent
<1>6. KindOf[s] # "workflow" => CurrentOf(s) \subseteq {Newest(CurrentOf(s))}
  BY <1>2, <1>5, NewestOfOne
<1>7. pred \in {w.replaces, Newest(CurrentOf(s))}
  <2>1. KindOf[s] = "concept" => w.it.lineage = Newest(CurrentOf(s))
    BY DEF RecheckPasses, ConceptUnchanged
  <2>2. KindOf[s] = "workflow" \/ KindOf[s] = "card" \/ KindOf[s] \in Summaries
          \/ KindOf[s] = "concept"
    BY <1>1 DEF Kinds, Grounded
  <2> QED BY <2>1, <2>2 DEF PublishedPredecessor, WorkflowPredecessor, CardPredecessor,
                 SummaryPredecessor, Summaries
<1>8. pred = w.replaces /\ w.replaces # 0 => w.replaces \in CurrentOf(s)
  BY <1>4 DEF Insertable, Names, CurrentOf, Current
<1>9. KindOf[s] # "workflow" /\ w.replaces = 0 => pred = Newest(CurrentOf(s))
  <2>1. KindOf[s] = "concept" => w.it.lineage = Newest(CurrentOf(s))
    BY DEF RecheckPasses, ConceptUnchanged
  <2>2. KindOf[s] = "workflow" \/ KindOf[s] = "card" \/ KindOf[s] \in Summaries
          \/ KindOf[s] = "concept"
    BY <1>1 DEF Kinds, Grounded
  <2> QED BY <2>1, <2>2 DEF PublishedPredecessor, WorkflowPredecessor, CardPredecessor,
                 SummaryPredecessor, Summaries
<1> HIDE DEF pred
<1>10. Names(pred, s)
  BY <1>3, <1>4, <1>7
<1>11. KindOf[s] # "workflow" => CurrentOf(s) \subseteq {pred}
  BY <1>5, <1>6, <1>7, <1>8, <1>9
<1> QED BY <1>10, <1>11 DEF pred

LEMMA PublishStep ==
    ASSUME Ledger(runs, artifacts), OneCurrent, NEW w, WorkOK(w), NEW body \in Bodies,
           RecheckPasses(w), Insertable(w), StillOwned(w), PublishArtifact(w, body)
    PROVE  Ledger(runs, artifacts)' /\ OneCurrent' /\ Kept /\ RegisterStep
<1> DEFINE s == w.it.subject
           pred == PublishedPredecessor(w)
           n == Len(artifacts) + 1
           a == Artifact(s, w.run, pred, w.it.snapshot, w.context, w.it.children, body)
<1>1. /\ artifacts' = Append(artifacts, a)
      /\ runs' = [Mark(GeneratingRun(pred), "superseded") EXCEPT ![w.run].status = "completed"]
  BY DEF PublishArtifact
<1>2. /\ a.subject = s /\ a.run = w.run /\ a.replaces = pred
  BY DEF Artifact
<1>3. /\ Names(pred, s)
      /\ KindOf[s] # "workflow" => CurrentOf(s) \subseteq {pred}
  BY PredecessorIsCurrent
<1>4. /\ s \in Subjects /\ w.run \in RunIds /\ runs[w.run].subject = s
      /\ runs[w.run].status = "running"
  BY DEF WorkOK, ItemOK, StillOwned, Running
<1>5. /\ ArtifactIds = 1 .. Len(artifacts) /\ Len(artifacts) \in Nat
      /\ \A t \in Subjects : CurrentOf(t) \subseteq ArtifactIds
  BY CurrentIds
<1>6. RunIds = 1 .. Len(runs) /\ Len(runs) \in Nat
  BY SeqFacts DEF Ledger, RunsOK, RunIds
<1> HIDE DEF a, pred, s
<1>7. pred \in 0 .. Len(artifacts)
  BY <1>3, <1>5 DEF Names
<1>8. /\ Ledger(runs', artifacts') /\ DOMAIN runs' = RunIds
      /\ \A r \in RunIds : runs'[r].subject = runs[r].subject
  <2>1. a.subject = runs[w.run].subject /\ a.subject \in Subjects /\ w.run \in Nat
    BY <1>2, <1>4, <1>6
  <2>2. /\ Ledger(runs', Append(artifacts, a)) /\ DOMAIN runs' = RunIds
        /\ \A r \in RunIds : runs'[r].subject = runs[r].subject
    BY ONLY Ledger(runs, artifacts), <1>1, <1>2, <1>4, <1>7, <2>1, PublishKeepsLedger
  <2> QED BY <1>1, <2>2
<1>9. /\ DOMAIN artifacts' = 1 .. n
      /\ \A i \in DOMAIN artifacts : artifacts'[i] = artifacts[i]
  BY <1>1, AppendSeq DEF Ledger, ArtifactsOK
<1>10. Kept
  BY <1>5, <1>8, <1>9 DEF Kept, RunIds, ArtifactIds
<1>11. \A t \in Subjects :
          CurrentOf(t)' = (CurrentOf(t) \ {pred}) \cup (IF s = t THEN {n} ELSE {})
  BY <1>1, <1>2, <1>7, AppendCurrent
<1>12. \A t \in Subjects : t # s => pred \notin CurrentOf(t)
  BY <1>3, <1>5 DEF Names, CurrentOf
<1>13. \A t \in Subjects : t # s => CurrentOf(t)' = CurrentOf(t)
  BY <1>11, <1>12
<1>14. KindOf[s] # "workflow" => CurrentOf(s)' = {n}
  BY <1>3, <1>4, <1>11
<1>15. OneCurrent'
  BY <1>4, <1>13, <1>14 DEF OneCurrent
<1>16. RegisterStep
  <2>1. n \notin ArtifactIds
    BY <1>5
  <2>2. CASE KindOf[s] = "workflow"
    BY <1>13, <2>2 DEF RegisterStep
  <2>3. CASE KindOf[s] # "workflow"
    BY <1>4, <1>13, <1>14, <2>1, <2>3 DEF RegisterStep, Moves
  <2> QED BY <2>2, <2>3
<1> QED BY <1>8, <1>10, <1>15, <1>16

LEMMA AnnotateStep ==
    ASSUME Ledger(runs, artifacts), OneCurrent, NEW s \in Subjects, NEW body \in Bodies,
           NEW id \in ArtifactIds \cup {0}, Annotate(s, body, id)
    PROVE  Ledger(runs, artifacts)' /\ OneCurrent' /\ Kept /\ RegisterStep
<1> DEFINE n == Len(artifacts) + 1
           a == Artifact(s, 0, id, code, ContextOf(s), {}, body)
<1>1. artifacts' = Append(artifacts, a) /\ runs' = runs /\ KindOf[s] = "workflow"
  BY DEF Annotate
<1>2. a.subject = s /\ a.run = 0 /\ a.replaces = id
  BY DEF Artifact
<1>3. \/ id = 0
      \/ id \in Current /\ KindOf[artifacts[id].subject] = "workflow"
  BY DEF Annotate
<1>4. /\ ArtifactIds = 1 .. Len(artifacts) /\ Len(artifacts) \in Nat
      /\ \A t \in Subjects : CurrentOf(t) \subseteq ArtifactIds
  BY CurrentIds
<1> HIDE DEF a
<1>5. id \in 0 .. Len(artifacts)
  BY <1>4
<1>6. Ledger(runs', artifacts')
  BY <1>1, <1>2, <1>5, AnnotateKeepsLedger
<1>7. /\ DOMAIN artifacts' = 1 .. n
      /\ \A i \in DOMAIN artifacts : artifacts'[i] = artifacts[i]
  BY <1>1, AppendSeq DEF Ledger, ArtifactsOK
<1>8. Kept
  BY <1>1, <1>4, <1>7 DEF Kept, RunIds, ArtifactIds
<1>9. \A t \in Subjects :
          CurrentOf(t)' = (CurrentOf(t) \ {id}) \cup (IF s = t THEN {n} ELSE {})
  BY <1>1, <1>2, <1>5, AppendCurrent
<1>10. \A t \in Subjects : KindOf[t] # "workflow" => id \notin CurrentOf(t)
  BY <1>3, <1>4 DEF CurrentOf
<1>11. \A t \in Subjects : KindOf[t] # "workflow" => CurrentOf(t)' = CurrentOf(t)
  BY <1>1, <1>9, <1>10
<1> QED BY <1>6, <1>8, <1>11 DEF OneCurrent, RegisterStep

-----------------------------------------------------------------------------
(* Steps.                                                                  *)

StoreStep == Ledger(runs, artifacts)' /\ OneCurrent' /\ Kept /\ RegisterStep

LEMMA MarkStep ==
    ASSUME Ledger(runs, artifacts), OneCurrent, NEW ids, NEW status, Demotes(ids, status),
           runs' = Mark(ids, status), artifacts' = artifacts
    PROVE  StoreStep
<1>1. /\ Ledger(runs', artifacts') /\ DOMAIN runs' = RunIds
      /\ \A r \in RunIds : runs'[r].subject = runs[r].subject
  BY MarkKeepsLedger
<1>2. Kept
  BY <1>1 DEF Kept, RunIds, ArtifactIds
<1> QED BY <1>1, <1>2, SameArtifacts DEF StoreStep, RegisterStep

LEMMA SameStep ==
    ASSUME Ledger(runs, artifacts), OneCurrent, runs' = runs, artifacts' = artifacts
    PROVE  StoreStep
BY SameArtifacts, SameStore DEF StoreStep, RegisterStep

LEMMA FinishStep ==
    ASSUME Ledger(runs, artifacts), OneCurrent, NEW r, NEW status \in {"failed", "incomplete"},
           FinishRun(r, status), artifacts' = artifacts
    PROVE  StoreStep
<1>1. CASE Running(r)
  <2>1. Demotes({r}, status)
    BY <1>1 DEF Demotes
  <2> QED BY <1>1, <2>1, MarkStep DEF FinishRun
<1>2. CASE ~Running(r)
  BY <1>2, SameStep DEF FinishRun
<1> QED BY <1>1, <1>2

(* Process p moves: the others hold what they held. *)
Only(p) ==
    /\ Shapes'
    /\ \A q \in Proc \ {p} :
         /\ pc'[q] = pc[q] /\ item'[q] = item[q] /\ targets'[q] = targets[q]
         /\ pending'[q] = pending[q] /\ wave'[q] = wave[q]

LEMMA OthersHeld ==
    ASSUME CommandOK, Kept, NEW p \in Proc, Only(p), Held(p)'
    PROVE  CommandOK'
<1>1. ASSUME NEW q \in Proc \ {p}
      PROVE  Held(q)'
  <2>1. Held(q)
    BY DEF CommandOK
  <2>2. /\ pc'[q] = pc[q] /\ item'[q] = item[q] /\ targets'[q] = targets[q]
        /\ pending'[q] = pending[q] /\ wave'[q] = wave[q]
    BY DEF Only
  <2>3. ArtifactIds \subseteq ArtifactIds'
    BY DEF Kept
  <2>4. /\ \A it : ItemOK(it) => ItemOK(it)'
        /\ \A w : WorkOK(w) => WorkOK(w)'
    BY HeldKept
  <2>5. \A it \in pending[q] : ItemOK(it)'
    BY <2>1, <2>4 DEF Held
  <2>6. \A w \in wave[q] : WorkOK(w)'
    BY <2>1, <2>4 DEF Held
  <2>7. pc[q] = "claim" => ItemOK(item[q])'
    <3>1. ASSUME pc[q] = "claim" PROVE ItemOK(item[q])
      BY <2>1, <3>1 DEF Held
    <3>2. DEFINE x == item[q]
    <3> QED BY <2>2, <2>4, <3>1 DEF ItemOK, Names
  <2>8. pc[q] = "publish" => WorkOK(item[q])'
    <3>1. ASSUME pc[q] = "publish" PROVE WorkOK(item[q])
      BY <2>1, <3>1 DEF Held
    <3> QED BY <2>2, <2>4, <3>1 DEF WorkOK, ItemOK, Names
  <2> QED BY <2>1, <2>2, <2>3, <2>5, <2>6, <2>7, <2>8 DEF Held
<1> QED BY <1>1 DEF CommandOK, Only

LEMMA ItemsAreOK ==
    ASSUME NEW s \in Subjects, NEW id, Names(id, s)
    PROVE  ItemOK(Item(s, id))
<1>1. InputOf(s)[1] = s
  BY DEF InputOf
<1> QED BY <1>1 DEF Item, ItemOK

LEMMA PinnedIsOK ==
    ASSUME NEW it, ItemOK(it)
    PROVE  ItemOK(Pinned(it))
<1> DEFINE l == Newest(CurrentOf(it.subject))
<1>1. CASE KindOf[it.subject] = "concept"
  <2>1. Pinned(it) = [it EXCEPT !.lineage = l]
    BY <1>1 DEF Pinned
  <2> HIDE DEF l
  <2>2. [it EXCEPT !.lineage = l]
           = [subject |-> it.subject, input |-> it.input, snapshot |-> it.snapshot,
              links |-> it.links, children |-> it.children, replaces |-> it.replaces,
              lineage |-> l]
    BY DEF ItemOK
  <2> QED BY <2>1, <2>2 DEF ItemOK
<1>2. CASE KindOf[it.subject] # "concept"
  BY <1>2 DEF Pinned
<1> QED BY <1>1, <1>2

LEMMA StartStep ==
    ASSUME Inv, NEW p \in Proc, NEW job, NEW old \in SUBSET {r \in RunIds : Running(r)},
           Start(p, job, old)
    PROVE  StoreStep /\ CommandOK'
<1>1. Demotes(old, "failed")
  BY DEF Demotes
<1>2. StoreStep
  BY <1>1, MarkStep DEF Start, SweepOrphanedRuns, Inv
<1>3. Only(p)
  BY DEF Only, Shapes, Start, Go, Inv, CommandOK
<1>4. /\ targets'[p] \in {Selected, {}} /\ pending'[p] = pending[p] /\ wave'[p] = wave[p]
      /\ pc'[p] = "plan"
  BY DEF Shapes, Start, Go, Inv, CommandOK
<1>5. Selected \subseteq ArtifactIds
  BY DEF Selected, Current
<1>6. Held(p)'
  BY <1>2, <1>4, <1>5, HeldKept DEF StoreStep, Kept, Held, Inv, CommandOK
<1> QED BY <1>2, <1>3, <1>6, OthersHeld DEF StoreStep, Inv

LEMMA PlanStep ==
    ASSUME Inv, NEW p \in Proc, PlanStage(p)
    PROVE  StoreStep /\ CommandOK'
<1>1. StoreStep
  BY SameStep DEF PlanStage, store, Inv
<1>2. Only(p)
  BY DEF Only, Shapes, PlanStage, Go, Inv, CommandOK
<1>3. /\ pending'[p] \subseteq Prepared(p) /\ targets'[p] = targets[p]
      /\ wave'[p] = wave[p] /\ pc'[p] = "wave"
  BY DEF Shapes, PlanStage, Go, Inv, CommandOK
<1>4. \A it \in Prepared(p) : ItemOK(it)
  <2>1. ASSUME NEW kinds, NEW it \in PlannedItems(kinds)
        PROVE  ItemOK(it)
    <3>1. PICK s \in Subjects : it = Item(s, 0)
      BY DEF PlannedItems
    <3> QED BY <3>1, ItemsAreOK DEF Names
  <2>2. ASSUME NEW kinds, NEW it \in RefreshItems(kinds, targets[p])
        PROVE  ItemOK(it)
    <3>1. PICK t \in targets[p] : it = Item(artifacts[t].subject, t)
      BY DEF RefreshItems
    <3>2. t \in ArtifactIds
      BY DEF Inv, CommandOK, Held
    <3>3. artifacts[t].subject \in Subjects /\ Names(t, artifacts[t].subject)
      BY <3>2 DEF Inv, Ledger, ArtifactsOK, ArtifactIds, Names
    <3> QED BY <3>1, <3>3, ItemsAreOK
  <2> QED BY <2>1, <2>2 DEF Prepared
<1>5. Held(p)'
  <2>1. \A it \in pending'[p] : ItemOK(it)'
    BY <1>1, <1>3, <1>4, HeldKept DEF StoreStep
  <2> QED BY <1>1, <1>3, <2>1, HeldKept DEF StoreStep, Kept, Held, Inv, CommandOK
<1> QED BY <1>1, <1>2, <1>5, OthersHeld DEF StoreStep, Inv

(* A command that ends holds nothing. *)
LEMMA ResetStep ==
    ASSUME CommandOK, NEW p \in Proc, Reset(p), Kept
    PROVE  CommandOK'
<1>1. Only(p)
  BY DEF Only, Shapes, Reset, Go, CommandOK
<1>2. /\ pc'[p] = "idle" /\ targets'[p] = {} /\ pending'[p] = {} /\ wave'[p] = {}
  BY DEF Shapes, Reset, Go, CommandOK
<1>3. Held(p)'
  BY <1>2 DEF Held
<1> QED BY <1>1, <1>3, OthersHeld

LEMMA TakeStep ==
    ASSUME Inv, NEW p \in Proc, NEW it \in pending[p], TakeItem(p, it)
    PROVE  StoreStep /\ CommandOK'
<1>1. StoreStep
  BY SameStep DEF TakeItem, store, Inv
<1>2. Only(p)
  BY DEF Only, Shapes, TakeItem, Go, Inv, CommandOK
<1>3. /\ pending'[p] = pending[p] \ {it} /\ targets'[p] = targets[p] /\ wave'[p] = wave[p]
      /\ \/ pc'[p] = "wave"
         \/ pc'[p] = "claim" /\ item'[p] = Pinned(it)
  BY DEF Shapes, TakeItem, Go, Inv, CommandOK
<1>4. ItemOK(it)
  BY DEF Inv, CommandOK, Held
<1>5. ItemOK(Pinned(it))
  BY <1>4, PinnedIsOK
<1>6. pc'[p] = "claim" => ItemOK(item[p])'
  <2>1. \A x : ItemOK(x) => ItemOK(x)'
    BY <1>1, HeldKept DEF StoreStep
  <2>2. ASSUME NEW x, ItemOK(x), item'[p] = x
        PROVE  ItemOK(item[p])'
    BY <2>1, <2>2 DEF ItemOK, Names
  <2> QED BY <1>3, <1>5, <2>2
<1>7. Held(p)'
  BY <1>1, <1>3, <1>6, HeldKept DEF StoreStep, Kept, Held, Inv, CommandOK
<1> QED BY <1>1, <1>2, <1>7, OthersHeld DEF StoreStep, Inv

LEMMA FinishedStep ==
    ASSUME Inv, NEW p \in Proc, Finished(p) \/ Crash(p)
    PROVE  StoreStep /\ CommandOK'
<1>1. StoreStep
  BY SameStep DEF Finished, Crash, store, Inv
<1> QED BY <1>1, ResetStep DEF Finished, Crash, StoreStep, Inv

LEMMA AbortStep ==
    ASSUME Inv, NEW p \in Proc, Abort(p)
    PROVE  StoreStep /\ CommandOK'
<1>1. Demotes({r \in tracked[p] : Running(r)}, "failed")
  BY DEF Demotes
<1>2. StoreStep
  BY <1>1, MarkStep DEF Abort, Inv
<1> QED BY <1>2, ResetStep DEF Abort, StoreStep, Inv

LEMMA WaveStep ==
    ASSUME Inv, NEW p \in Proc, Dispatch(p) \/ EndWave(p)
    PROVE  StoreStep /\ CommandOK'
<1>1. StoreStep
  BY SameStep DEF Dispatch, EndWave, store, Inv
<1>2. Only(p)
  BY DEF Only, Shapes, Dispatch, EndWave, Go, Inv, CommandOK
<1>3. /\ pc'[p] \in {"finish", "abort", "plan", "wave"}
      /\ targets'[p] = targets[p] /\ pending'[p] = pending[p] /\ wave'[p] = wave[p]
  BY DEF Shapes, Dispatch, EndWave, Go, Inv, CommandOK
<1>4. Held(p)'
  BY <1>1, <1>3, HeldKept DEF StoreStep, Kept, Held, Inv, CommandOK
<1> QED BY <1>1, <1>2, <1>4, OthersHeld DEF StoreStep, Inv

(* Retiring supersedes completed rows; a row that is not occupied by its     *)
(* inputs may be claimed.                                                    *)
LEMMA ClaimStore ==
    ASSUME Inv, NEW p \in Proc, NEW row, RowOK(row), row.input = item[p].input,
           row.status \in {"running", "incomplete"}, ~Occupied(item[p].input, Retired(p)),
           runs' = Append(Mark(Retired(p), "superseded"), row), artifacts' = artifacts
    PROVE  /\ StoreStep
           /\ Len(runs) + 1 \in RunIds' /\ runs'[Len(runs) + 1] = row
<1> DEFINE ids == Retired(p)
           m == Mark(ids, "superseded")
<1>1. Demotes(ids, "superseded")
  BY DEF Demotes, Retired, CompletedFor, OutdatedFor
<1>2. /\ Ledger(m, artifacts) /\ DOMAIN m = RunIds
      /\ \A r \in RunIds : m[r].subject = runs[r].subject
  BY <1>1, MarkKeepsLedger DEF Inv
<1>3. \A r \in RunIds : /\ m[r].input = runs[r].input
                        /\ m[r].status = IF r \in ids THEN "superseded" ELSE runs[r].status
  BY MarkShape DEF Inv, Ledger, Statuses
<1>4. \A r \in DOMAIN m : m[r].input = row.input => ~Live(m[r])
  BY <1>2, <1>3 DEF Occupied, Live, Running, Completed
<1> HIDE DEF m, ids
<1>5. /\ Ledger(Append(m, row), artifacts)
      /\ DOMAIN Append(m, row) = 1 .. Len(m) + 1
      /\ DOMAIN m = 1 .. Len(m) /\ Len(m) \in Nat
      /\ Append(m, row)[Len(m) + 1] = row
      /\ \A r \in DOMAIN m : Append(m, row)[r] = m[r]
  BY <1>2, <1>4, AppendKeepsLedger
<1>6. RunIds = 1 .. Len(runs) /\ Len(runs) \in Nat
  BY SeqFacts DEF Inv, Ledger, RunsOK, RunIds
<1>7. Len(m) = Len(runs)
  BY <1>2, <1>5, <1>6, IntervalEnds
<1>8. runs' = Append(m, row)
  BY DEF m, ids
<1>9. Kept
  BY <1>2, <1>5, <1>7, <1>8 DEF Kept, RunIds, ArtifactIds
<1>10. Ledger(runs', artifacts')
  BY <1>5, <1>8
<1>11. StoreStep
  BY <1>9, <1>10, SameArtifacts DEF StoreStep, RegisterStep, Inv
<1>12. Len(runs) + 1 \in RunIds' /\ runs'[Len(runs) + 1] = row
  <2>1. DOMAIN runs' = 1 .. Len(m) + 1 /\ runs'[Len(m) + 1] = row
    BY <1>5, <1>8
  <2> QED BY <1>6, <1>7, <2>1 DEF RunIds
<1> QED BY <1>11, <1>12

LEMMA ReplacedNames ==
    ASSUME Inv, NEW it, ItemOK(it)
    PROVE  Names(Replaced(it), it.subject)
<1>1. CASE it.replaces # 0
  BY <1>1 DEF Replaced, ItemOK
<1>2. CASE it.replaces = 0
  <2> DEFINE S == {i \in Current : /\ artifacts[i].run # 0
                                   /\ runs[artifacts[i].run].input = it.input}
  <2>1. Newest(S) \in S \/ Newest(S) = 0
    BY NewestIsMember
  <2>2. \A i \in S : i \in ArtifactIds /\ artifacts[i].subject = it.subject
    BY DEF Inv, Ledger, LinksOK, RunsOK, RowOK, ItemOK, Current, ArtifactIds
  <2>3. Replaced(it) = Newest(S)
    BY <1>2 DEF Replaced, CurrentForInput
  <2> HIDE DEF S
  <2> QED BY <2>1, <2>2, <2>3 DEF Names
<1> QED BY <1>1, <1>2

LEMMA ClaimStep ==
    ASSUME Inv, NEW p \in Proc, ClaimRun(p)
    PROVE  StoreStep /\ CommandOK'
<1> DEFINE it == item[p]
<1>1. ItemOK(it) /\ artifacts' = artifacts
  BY DEF ClaimRun, Inv, CommandOK, Held
<1>2. Only(p)
  BY DEF Only, Shapes, ClaimRun, ClaimReused, ClaimRefused, ClaimGranted, Go, Inv, CommandOK
<1>3. pc'[p] \in {"abort", "wave"} /\ targets'[p] = targets[p] /\ pending'[p] = pending[p]
  BY DEF ClaimRun, ClaimReused, ClaimRefused, ClaimGranted, Go, Inv, CommandOK, Shapes
<1>4. StoreStep /\ \A w \in wave'[p] : w \in wave[p] \/ WorkOK(w)'
  <2>1. CASE LineageBroken(it) \/ ClaimRefused(p)
    <3>1. runs' = runs /\ wave' = wave
      BY <2>1 DEF ClaimRun, ClaimReused, ClaimRefused, ClaimGranted, Go
    <3> QED BY <1>1, <3>1, SameStep DEF Inv
  <2>2. CASE ClaimReused(p)
    <3>1. Demotes(Retired(p), "superseded")
      BY DEF Demotes, Retired, CompletedFor, OutdatedFor
    <3> QED BY <1>1, <2>2, <3>1, MarkStep DEF ClaimReused, Inv
  <2>3. CASE ClaimGranted(p)
    <3>1. RowOK(NewRun(it)) /\ NewRun(it).input = it.input /\ NewRun(it).status = "running"
      BY <1>1 DEF NewRun, RowOK, Statuses, ItemOK
    <3>2. CASE LineageMoved(it)
      <4>1. [NewRun(it) EXCEPT !.status = "incomplete"]
              = [subject |-> it.subject, input |-> it.input, status |-> "incomplete"]
        BY DEF NewRun
      <4> DEFINE row == [subject |-> it.subject, input |-> it.input, status |-> "incomplete"]
      <4>2. RowOK(row) /\ row.input = it.input /\ row.status = "incomplete"
        BY <1>1 DEF RowOK, Statuses, ItemOK
      <4>3. runs' = Append(Mark(Retired(p), "superseded"), row) /\ wave' = wave
        BY <2>3, <3>2, <4>1 DEF ClaimGranted
      <4>4. ~Occupied(it.input, Retired(p))
        BY <2>3 DEF ClaimGranted
      <4> HIDE DEF row
      <4> QED BY <1>1, <4>2, <4>3, <4>4, ClaimStore
    <3>3. CASE ~LineageMoved(it)
      <4> DEFINE row == NewRun(it)
                 n == Len(runs) + 1
                 new == [it |-> it, run |-> n, replaces |-> Replaced(it), context |-> None]
      <4>1. /\ runs' = Append(Mark(Retired(p), "superseded"), row)
            /\ wave' = [wave EXCEPT ![p] = @ \cup {new}]
            /\ ~Occupied(it.input, Retired(p))
        BY <2>3, <3>3 DEF ClaimGranted
      <4>2. row.subject = it.subject
        BY DEF NewRun
      <4> HIDE DEF row
      <4>3. StoreStep /\ n \in RunIds' /\ runs'[n] = row
        BY <1>1, <3>1, <4>1, ClaimStore DEF row
      <4>4. wave'[p] = wave[p] \cup {new}
        BY <4>1 DEF Inv, CommandOK, Shapes
      <4>5. /\ new.it = it /\ new.run = n /\ new.replaces = Replaced(it)
            /\ new = [it |-> new.it, run |-> new.run, replaces |-> new.replaces,
                      context |-> new.context]
        OBVIOUS
      <4>6. ItemOK(it) /\ Names(Replaced(it), it.subject)
        BY <1>1, ReplacedNames
      <4> HIDE DEF new, n, it
      <4>7. ASSUME NEW w, w = new
            PROVE  WorkOK(w)'
        <5>1. w.it = it /\ w.run = n /\ w.replaces = Replaced(it)
          BY <4>5, <4>7
        <5>2. ItemOK(w.it) /\ Names(w.replaces, w.it.subject)
          BY <4>6, <5>1
        <5>3. \A x : ItemOK(x) => ItemOK(x)'
          BY <4>3, HeldKept DEF StoreStep
        <5>4. \A id, s : Names(id, s) => Names(id, s)'
          BY <4>3, HeldKept DEF StoreStep
        <5>5. w.run \in RunIds' /\ runs'[w.run].subject = w.it.subject
          BY <4>2, <4>3, <5>1
        <5>6. w = [it |-> w.it, run |-> w.run, replaces |-> w.replaces, context |-> w.context]
          BY <4>5, <4>7
        <5> QED BY <5>2, <5>3, <5>4, <5>5, <5>6 DEF WorkOK
      <4> QED BY <4>3, <4>4, <4>7
    <3> QED BY <3>2, <3>3
  <2> QED BY <2>1, <2>2, <2>3 DEF ClaimRun
<1>5. Held(p)'
  <2>1. \A w \in wave'[p] : WorkOK(w)'
    BY <1>4, HeldKept DEF StoreStep, Inv, CommandOK, Held
  <2> QED BY <1>3, <1>4, <2>1, HeldKept DEF StoreStep, Kept, Held, Inv, CommandOK
<1> QED BY <1>2, <1>4, <1>5, OthersHeld DEF StoreStep, Inv

(* Validation adds the context hashes and nothing else. *)
LEMMA ValidatedIsOK ==
    ASSUME NEW w, WorkOK(w), NEW c
    PROVE  /\ [w EXCEPT !.context = c].it = w.it
           /\ [w EXCEPT !.context = c].run = w.run
           /\ WorkOK([w EXCEPT !.context = c])
<1> DEFINE v == [it |-> w.it, run |-> w.run, replaces |-> w.replaces, context |-> c]
<1>1. [w EXCEPT !.context = c] = v
  BY DEF WorkOK
<1>2. /\ v.it = w.it /\ v.run = w.run /\ v.replaces = w.replaces
      /\ v = [it |-> v.it, run |-> v.run, replaces |-> v.replaces, context |-> v.context]
  OBVIOUS
<1> HIDE DEF v
<1>3. WorkOK(v)
  BY <1>2 DEF WorkOK
<1> QED BY <1>1, <1>2, <1>3

LEMMA FinishingStep ==
    ASSUME Inv, NEW p \in Proc, NEW w \in wave[p], Finish(p, w)
    PROVE  StoreStep /\ CommandOK'
<1>1. Only(p)
  BY DEF Only, Shapes, Finish, SubjectFails, GatewayFails, InputsChanged, InputsValid,
         Go, Inv, CommandOK
<1>2. /\ wave'[p] = wave[p] \ {w} /\ targets'[p] = targets[p] /\ pending'[p] = pending[p]
      /\ \/ pc'[p] = "finish"
         \/ /\ pc'[p] = "publish"
            /\ item'[p] = [w EXCEPT !.context = ContextOf(w.it.subject)]
      /\ artifacts' = artifacts
  BY DEF Finish, SubjectFails, GatewayFails, InputsChanged, InputsValid, Go, Inv,
         CommandOK, Shapes
<1>3. StoreStep
  <2>1. CASE \E status \in {"failed", "incomplete"} : FinishRun(w.run, status)
    BY <1>2, <2>1, FinishStep DEF Inv
  <2>2. CASE runs' = runs
    BY <1>2, <2>2, SameStep DEF Inv
  <2> QED BY <2>1, <2>2 DEF Finish, SubjectFails, GatewayFails, InputsChanged, InputsValid
<1>4. WorkOK(w)
  BY DEF Inv, CommandOK, Held
<1>5. pc'[p] = "publish" => WorkOK(item[p])'
  <2>1. \A x : WorkOK(x) => WorkOK(x)'
    BY <1>3, HeldKept DEF StoreStep
  <2>2. ASSUME NEW v, WorkOK(v), item'[p] = v
        PROVE  WorkOK(item[p])'
    BY <2>1, <2>2 DEF WorkOK, ItemOK, Names
  <2> QED BY <1>2, <1>4, <2>2, ValidatedIsOK
<1>6. Held(p)'
  BY <1>2, <1>3, <1>5, HeldKept DEF StoreStep, Kept, Held, Inv, CommandOK
<1> QED BY <1>1, <1>3, <1>6, OthersHeld DEF StoreStep, Inv

LEMMA PublicationStep ==
    ASSUME Inv, NEW p \in Proc, Publish(p)
    PROVE  StoreStep /\ CommandOK'
<1> DEFINE w == item[p]
<1>1. Only(p)
  BY DEF Only, Shapes, Publish, Go, Inv, CommandOK
<1>2. /\ wave'[p] = wave[p] /\ targets'[p] = targets[p] /\ pending'[p] = pending[p]
      /\ pc'[p] = "finish"
  BY DEF Publish, Go, Inv, CommandOK, Shapes
<1>3. WorkOK(w)
  BY DEF Publish, Inv, CommandOK, Held
<1>4. StoreStep
  <2>1. CASE RecheckPasses(w) /\ Insertable(w) /\ StillOwned(w)
    <3>1. PICK body \in Bodies : PublishArtifact(w, body)
      BY <2>1 DEF Publish
    <3> HIDE DEF w
    <3>2. Ledger(runs, artifacts)' /\ OneCurrent' /\ Kept /\ RegisterStep
      BY <1>3, <2>1, <3>1, PublishStep DEF Inv
    <3> QED BY <3>2 DEF StoreStep
  <2>2. CASE ~(RecheckPasses(w) /\ Insertable(w) /\ StillOwned(w))
    <3>1. FinishRun(w.run, "incomplete") /\ artifacts' = artifacts
      BY <2>2 DEF Publish
    <3> QED BY <3>1, FinishStep DEF Inv
  <2> QED BY <2>1, <2>2
<1>5. Held(p)'
  BY <1>2, <1>4, HeldKept DEF StoreStep, Kept, Held, Inv, CommandOK
<1> QED BY <1>1, <1>4, <1>5, OthersHeld DEF StoreStep, Inv

LEMMA UnchangedCommands ==
    ASSUME CommandOK, Kept, UNCHANGED command
    PROVE  CommandOK'
<1>1. Shapes'
  BY DEF CommandOK, Shapes, command
<1>2. ASSUME NEW q \in Proc
      PROVE  Held(q)'
  <2>1. Held(q) /\ pc'[q] = pc[q] /\ item'[q] = item[q] /\ targets'[q] = targets[q]
        /\ pending'[q] = pending[q] /\ wave'[q] = wave[q]
    BY DEF CommandOK, command
  <2>2. pc[q] = "claim" => ItemOK(item[q])'
    <3>1. ASSUME pc[q] = "claim" PROVE ItemOK(item[q])
      BY <2>1, <3>1 DEF Held
    <3> QED BY <2>1, <3>1, HeldKept DEF ItemOK, Names
  <2>3. pc[q] = "publish" => WorkOK(item[q])'
    <3>1. ASSUME pc[q] = "publish" PROVE WorkOK(item[q])
      BY <2>1, <3>1 DEF Held
    <3> QED BY <2>1, <3>1, HeldKept DEF WorkOK, ItemOK, Names
  <2> QED BY <2>1, <2>2, <2>3, HeldKept DEF Held, Kept
<1> QED BY <1>1, <1>2 DEF CommandOK

LEMMA SurroundingsStep ==
    ASSUME Inv, Surroundings
    PROVE  StoreStep /\ CommandOK'
<1>1. StoreStep
  <2>1. ASSUME NEW f \in Files, NEW v \in Versions, Reindex(f, v)
        PROVE  StoreStep
    BY <2>1, SameStep DEF Reindex, Inv
  <2>2. ASSUME NEW s \in Subjects, NEW b \in Bodies, NEW i \in ArtifactIds \cup {0},
               Annotate(s, b, i)
        PROVE  StoreStep
    BY <2>2, AnnotateStep DEF StoreStep, Inv
  <2>3. CASE RebuildProjection
    BY <2>3, SameStep DEF RebuildProjection, Inv
  <2> QED BY <2>1, <2>2, <2>3 DEF Surroundings
<1> QED BY <1>1, UnchangedCommands DEF StoreStep, Surroundings, Inv

LEMMA NextStep ==
    ASSUME Inv, [Next]_vars
    PROVE  Inv' /\ RegisterStep /\ Kept
<1>1. ASSUME NEW p \in Proc, StartCommand(p)
      PROVE  StoreStep /\ CommandOK'
  BY <1>1, StartStep DEF StartCommand
<1>2. ASSUME NEW p \in Proc, Step(p)
      PROVE  StoreStep /\ CommandOK'
  <2>1. CASE PlanStage(p)
    BY <2>1, PlanStep
  <2>2. CASE Finished(p)
    BY <2>2, FinishedStep
  <2>3. CASE \E it \in pending[p] : TakeItem(p, it)
    BY <2>3, TakeStep
  <2>4. CASE ClaimRun(p)
    BY <2>4, ClaimStep
  <2>5. CASE Dispatch(p) \/ EndWave(p)
    BY <2>5, WaveStep
  <2>6. CASE \E w \in wave[p] : Finish(p, w)
    BY <2>6, FinishingStep
  <2>7. CASE Publish(p)
    BY <2>7, PublicationStep
  <2>8. CASE Abort(p)
    BY <2>8, AbortStep
  <2> QED BY <1>2, <2>1, <2>2, <2>3, <2>4, <2>5, <2>6, <2>7, <2>8 DEF Step
<1>3. ASSUME NEW p \in Proc, Crash(p)
      PROVE  StoreStep /\ CommandOK'
  BY <1>3, FinishedStep
<1>4. ASSUME Surroundings
      PROVE  StoreStep /\ CommandOK'
  BY <1>4, SurroundingsStep
<1>5. ASSUME UNCHANGED vars
      PROVE  StoreStep /\ CommandOK'
  <2>1. StoreStep
    BY <1>5, SameStep DEF vars, store, Inv
  <2> QED BY <1>5, <2>1, UnchangedCommands DEF vars, StoreStep, Inv
<1>6. StoreStep /\ CommandOK'
  BY <1>1, <1>2, <1>3, <1>4, <1>5 DEF Next
<1> QED BY <1>6 DEF StoreStep, Inv

LEMMA InitInv ==
    ASSUME Init
    PROVE  Inv /\ \A s \in Subjects : CurrentOf(s) = {}
<1>1. DOMAIN artifacts = {} /\ DOMAIN runs = {} /\ Len(artifacts) = 0
  BY DEF Init, StoreInit
<1>2. IsSeq(artifacts) /\ IsSeq(runs)
  BY EmptySeq DEF Init, StoreInit, IsSeq
<1>3. Ledger(runs, artifacts)
  BY <1>1, <1>2 DEF Ledger, RunsOK, ArtifactsOK, LinksOK
<1>4. \A s \in Subjects : CurrentOf(s) = {}
  BY <1>1 DEF CurrentOf, Current, ArtifactIds
<1>5. CommandOK
  BY DEF Init, CommandOK, Shapes, Held
<1> QED BY <1>3, <1>4, <1>5 DEF Inv, OneCurrent

(* The invariant, for every value of the constants. *)
THEOREM ScoutingInvariant == Spec => []Inv
<1>1. Init => Inv
  BY InitInv
<1>2. Inv /\ [Next]_vars => Inv'
  BY NextStep
<1> QED BY <1>1, <1>2, PTL DEF Spec

-----------------------------------------------------------------------------
(* The properties.                                                         *)

LEMMA AtMostOne ==
    ASSUME NEW S, \A i, j \in S : i = j
    PROVE  Cardinality(S) <= 1
<1>1. CASE S = {}
  BY <1>1, FS_EmptySet
<1>2. CASE S # {}
  <2>1. PICK x \in S : TRUE
    BY <1>2
  <2>2. S = {x}
    BY <2>1
  <2> QED BY <2>2, FS_Singleton
<1> QED BY <1>1, <1>2

(* Whatever the number of processes, commands, subjects, re-indexings and    *)
(* crashes, a card anchor, a summary scope and a concept term have one       *)
(* current artifact at most.                                                 *)
THEOREM OneCurrentAlways == Spec => []OneCurrentPerSubject
<1>1. Inv => OneCurrentPerSubject
  BY AtMostOne DEF Inv, OneCurrent, OneCurrentPerSubject
<1> QED BY <1>1, ScoutingInvariant, PTL

(* One run per input is in progress or completed, a completed run has        *)
(* exactly one artifact, and no other run but a superseded one has any.      *)
THEOREM LedgerAlwaysAgrees == Spec => []LedgerAgrees
<1>1. ASSUME Inv
      PROVE  LedgerAgrees
  <2>1. \A q, r \in RunIds :
           /\ q # r
           /\ runs[q].input = runs[r].input
           /\ Running(q) \/ Completed(q)
           => ~Running(r) /\ ~Completed(r)
    BY <1>1 DEF Inv, Ledger, RunsOK, Live, Running, Completed, RunIds
  <2>2. ASSUME NEW r \in RunIds, Completed(r)
        PROVE  Cardinality({i \in ArtifactIds : artifacts[i].run = r}) = 1
    <3>1. PICK i \in ArtifactIds :
             artifacts[i].run = r /\ \A j \in ArtifactIds : artifacts[j].run = r => j = i
      BY <1>1, <2>2 DEF Inv, Ledger, LinksOK, Completed, RunIds, ArtifactIds
    <3>2. {j \in ArtifactIds : artifacts[j].run = r} = {i}
      BY <3>1
    <3> QED BY <3>2, FS_Singleton
  <2>3. \A i \in ArtifactIds : artifacts[i].run # 0 =>
           runs[artifacts[i].run].status \in {"completed", "superseded"}
    BY <1>1 DEF Inv, Ledger, LinksOK, ArtifactIds
  <2> QED BY <2>1, <2>2, <2>3 DEF LedgerAgrees
<1> QED BY <1>1, ScoutingInvariant, PTL

(* A claim that finds no reusable run and is refused all the same finds a    *)
(* running one: every completed run of its inputs has just been retired.     *)
LEMMA RefusalsAreTrue == RefusedOnlyWhileRunning
BY DEF RefusedOnlyWhileRunning, Occupied, Retired, CompletedFor, OutdatedFor, ReusableFor

(* The ledger tells the truth in every state of every command.               *)
THEOREM LedgerAlwaysHonest == Spec => []LedgerHonest
<1>1. LedgerAgrees => LedgerHonest
  BY RefusalsAreTrue DEF LedgerHonest
<1> QED BY <1>1, LedgerAlwaysAgrees, PTL

(* Every step of scouting leaves the registers alone or moves one of them on *)
(* to the newest artifact.                                                   *)
THEOREM RegisterImplemented == Spec => ImplementsRegister
<1> DEFINE register == [s \in Registered |-> CurrentOf(s)]
<1>1. Init => Register!RegisterInit
  BY InitInv DEF Register!RegisterInit, Registered
<1>2. ASSUME Inv, [Next]_vars
      PROVE  [Register!RegisterNext]_register
  <2>1. RegisterStep
    BY <1>2, NextStep
  <2>2. CASE \A t \in Subjects : KindOf[t] # "workflow" => CurrentOf(t)' = CurrentOf(t)
    BY <2>2 DEF Registered
  <2>3. CASE \E s \in Subjects : KindOf[s] # "workflow" /\ Moves(s, Len(artifacts) + 1)
    <3>1. PICK s \in Subjects : KindOf[s] # "workflow" /\ Moves(s, Len(artifacts) + 1)
      BY <2>3
    <3> DEFINE n == Len(artifacts) + 1
    <3>2. /\ ArtifactIds = 1 .. Len(artifacts) /\ Len(artifacts) \in Nat
          /\ \A t \in Subjects : CurrentOf(t) \subseteq ArtifactIds
      BY <1>2, CurrentIds DEF Inv
    <3>3. \A t \in Registered : \A i \in CurrentOf(t) : i < n
      BY <3>2 DEF Registered
    <3>4. s \in Registered /\ CurrentOf(s)' = {n}
      BY <3>1 DEF Registered, Moves
    <3>5. register' = [register EXCEPT ![s] = {n}]
      BY <3>1, <3>4 DEF Registered, Moves
    <3> HIDE DEF n
    <3>6. Register!Write(s, n)
      BY <3>3, <3>5 DEF Register!Write, Register!Newest
    <3>7. Register!RegisterNext
      BY <3>4, <3>6 DEF Register!RegisterNext
    <3> QED BY <3>7
  <2> QED BY <2>1, <2>2, <2>3 DEF RegisterStep
<1>3. Spec => [][Register!RegisterNext]_register
  BY <1>2, ScoutingInvariant, PTL DEF Spec
<1> QED BY <1>1, <1>3, PTL DEF Spec, ImplementsRegister, Register!RegisterSpec

-----------------------------------------------------------------------------
(* What a publication rests on, and what becomes of a claim.                 *)

(* The children of an artifact are older than it.                            *)
Aged == \A i \in ArtifactIds : artifacts[i].children \subseteq {c \in ArtifactIds : c < i}

(* A child of a planned concept quotes the code and the edges the concept was *)
(* planned with.                                                             *)
Quotes(c, snapshot, edges) ==
    /\ KindOf[artifacts[c].subject] \in Grounded
    /\ \A x \in AnchorsOf[artifacts[c].subject] :
         /\ artifacts[c].snapshot[FileOf[x]] = snapshot[FileOf[x]]
         /\ artifacts[c].context[x] = edges[x]

Rests(it) ==
    /\ it.children \subseteq ArtifactIds
    /\ KindOf[it.subject] = "concept" => \A c \in it.children : Quotes(c, it.snapshot, it.links)

Carries(p) ==
    /\ \A it \in pending[p] : Rests(it)
    /\ pc[p] = "claim" => Rests(item[p])
    /\ pc[p] = "publish" => Rests(item[p].it)
    /\ \A w \in wave[p] : Rests(w.it)

(* A tracked run in progress is still to be finished by its process.         *)
Tracks(p) ==
    /\ tracked[p] \subseteq RunIds
    /\ \A r \in tracked[p] : Running(r) =>
         \/ \E w \in wave[p] : w.run = r
         \/ pc[p] = "publish" /\ item[p].run = r
    /\ pc[p] \in {"idle", "plan"} => wave[p] = {}

FreshInv ==
    /\ edits \in Nat /\ tracked = [p \in Proc |-> tracked[p]]
    /\ Aged
    /\ \A p \in Proc : Carries(p) /\ Tracks(p)

-----------------------------------------------------------------------------
(* Freshness: children are older, so every artifact has its label.           *)

LEMMA Descends == IsWellFoundedOn({ss \in Nat \X Nat : ss[1] < ss[2]}, Nat)
BY NatLessThanWellFounded DEF OpToRel

(* A set of numbers has a least one: induction, for a statement on numbers,  *)
(* by the least one it is false of.                                          *)
LEMMA LeastOf ==
    ASSUME NEW T, T \subseteq Nat, T # {}
    PROVE  \E x \in T : \A y \in T : x <= y
<1> DEFINE R == {ss \in Nat \X Nat : ss[1] < ss[2]}
<1>1. IsWellFoundedOn(R, Nat)
  BY Descends
<1>2. \A x, y \in Nat : y < x => <<y, x>> \in R
  OBVIOUS
<1> HIDE DEF R
<1>3. PICK x \in T : \A y \in T : ~(<<y, x>> \in R)
  BY <1>1, WFMin
<1>4. \A y \in T : ~(y < x)
  BY <1>2, <1>3, Zenon
<1> QED BY <1>4

LEMMA LabelOfChildren ==
    ASSUME NEW i, NEW f, NEW g, \A c \in artifacts[i].children : f[c] = g[c]
    PROVE  Label(i, f) = Label(i, g)
<1>1. (\E c \in artifacts[i].children : f[c] # "fresh")
        <=> (\E c \in artifacts[i].children : g[c] # "fresh")
  OBVIOUS
<1> QED BY <1>1 DEF Label

LEMMA LabelsExist ==
    ASSUME Ledger(runs, artifacts), Aged
    PROVE  \E f : f = [i \in ArtifactIds |-> Label(i, f)]
<1> DEFINE N == Len(artifacts)
           Good(n) == \E f : f = [i \in 1 .. n |-> Label(i, f)]
           T == {n \in 0 .. N : ~Good(n)}
<1>1. ArtifactIds = 1 .. N /\ N \in Nat
  BY SeqFacts DEF Ledger, ArtifactsOK, ArtifactIds
<1>2. Good(0)
  <2> DEFINE f == [i \in 1 .. 0 |-> "fresh"]
  <2>1. f = [i \in 1 .. 0 |-> Label(i, f)]
    OBVIOUS
  <2> QED BY <2>1
<1>3. ASSUME NEW n \in Nat, n < N, Good(n)
      PROVE  Good(n + 1)
  <2>1. PICK f : f = [i \in 1 .. n |-> Label(i, f)]
    BY <1>3
  <2> DEFINE g == [i \in 1 .. n + 1 |-> Label(i, f)]
  <2>2. \A i \in 1 .. n + 1 : \A c \in artifacts[i].children : c \in 1 .. n
    BY <1>1, <1>3 DEF Aged
  <2>3. \A c \in 1 .. n : g[c] = f[c]
    <3>1. \A c \in 1 .. n : f[c] = Label(c, f) /\ c \in 1 .. n + 1
      BY <2>1
    <3> QED BY <3>1
  <2> HIDE DEF Good
  <2>4. \A i \in 1 .. n + 1 : Label(i, f) = Label(i, g)
    <3> HIDE DEF g
    <3> QED BY <2>2, <2>3, LabelOfChildren
  <2>5. g = [i \in 1 .. n + 1 |-> Label(i, g)]
    <3>1. \A i \in 1 .. n + 1 : g[i] = Label(i, g)
      BY <2>4
    <3>2. g = [i \in 1 .. n + 1 |-> g[i]]
      OBVIOUS
    <3> HIDE DEF g
    <3> QED BY <3>1, <3>2
  <2> QED BY <2>5 DEF Good
<1> HIDE DEF Good
<1>4. T = {}
  <2> SUFFICES ASSUME T # {} PROVE FALSE
    OBVIOUS
  <2>1. PICK x \in T : \A y \in T : x <= y
    <3>1. T \subseteq Nat
      BY <1>1
    <3> HIDE DEF T
    <3> QED BY <3>1, LeastOf
  <2>2. x \in Nat /\ x <= N /\ ~Good(x) /\ x # 0
    BY <1>1, <1>2, <2>1
  <2>3. x - 1 \in Nat /\ x - 1 < x /\ x - 1 < N /\ (x - 1) + 1 = x
    BY <1>1, <2>2
  <2>4. Good(x - 1)
    BY <1>1, <2>1, <2>3
  <2> QED BY <1>3, <2>2, <2>3, <2>4
<1>5. Good(N)
  BY <1>1, <1>4
<1> QED BY <1>1, <1>5 DEF Good

LEMMA LabelsAre ==
    Ledger(runs, artifacts) /\ Aged => Freshness = [i \in ArtifactIds |-> Label(i, Freshness)]
<1> SUFFICES ASSUME Ledger(runs, artifacts), Aged
             PROVE  Freshness = [i \in ArtifactIds |-> Label(i, Freshness)]
  OBVIOUS
<1>1. Freshness = CHOOSE g : g = [i \in ArtifactIds |-> Label(i, g)]
  BY DEF Freshness
<1>2. \E g : g = [i \in ArtifactIds |-> Label(i, g)]
  BY LabelsExist
<1> QED BY <1>1, <1>2, Zenon

LEMMA EachLabel ==
    Ledger(runs, artifacts) /\ Aged => \A i \in ArtifactIds : Freshness[i] = Label(i, Freshness)
<1> SUFFICES ASSUME Ledger(runs, artifacts), Aged, NEW i \in ArtifactIds
             PROVE  Freshness[i] = Label(i, Freshness)
  OBVIOUS
<1> DEFINE F == Freshness
<1>1. F = [j \in ArtifactIds |-> Label(j, F)]
  BY LabelsAre
<1> HIDE DEF F
<1>2. F[i] = Label(i, F)
  BY <1>1
<1> QED BY <1>2 DEF F

LEMMA NextLabels ==
    (Ledger(runs, artifacts) /\ Aged
       => \A i \in ArtifactIds : Freshness[i] = Label(i, Freshness))'
BY EachLabel, PTL

(* What a label says, of a grounded artifact and of one that has children.   *)
LEMMA GroundedLabel ==
    ASSUME Ledger(runs, artifacts), Aged, NEW i \in ArtifactIds,
           KindOf[artifacts[i].subject] \in Grounded
    PROVE  Freshness[i] = "fresh"
             => \A x \in AnchorsOf[artifacts[i].subject] : SupportFresh(i, x)
<1>1. Freshness[i] = Label(i, Freshness)
  BY EachLabel
<1> QED BY <1>1 DEF Label, OwnLabel

LEMMA ReadyQuotes ==
    ASSUME Ledger(runs, artifacts), Aged, NEW s \in Subjects, KindOf[s] = "concept",
           Scoutable(s), NEW c \in ExpectedChildren(s)
    PROVE  Quotes(c, code, links)
<1>1. c \in ArtifactIds /\ Feeds(artifacts[c], s)
  BY DEF ExpectedChildren, Current
<1>2. KindOf[artifacts[c].subject] \in Grounded
  BY <1>1 DEF Feeds, FeedsConcept
<1>3. Freshness[c] = "fresh"
  BY DEF Scoutable, ConceptReady, Grounded
<1>4. \A x \in AnchorsOf[artifacts[c].subject] : SupportFresh(c, x)
  BY <1>1, <1>2, <1>3, GroundedLabel
<1> QED BY <1>2, <1>4 DEF Quotes, SupportFresh, SourceCurrent, ContextCurrent

-----------------------------------------------------------------------------
(* What a process carries stays good while others work.                      *)

(* A run that has ended does not run again.                                  *)
NoRevival == \A r \in RunIds : runs'[r].status = "running" => Running(r)

NoNewRun == RunIds' = RunIds

LEMMA RestsKept ==
    ASSUME Kept
    PROVE  \A it : Rests(it) => Rests(it)'
<1>1. \A c \in ArtifactIds : \A snapshot, edges :
         Quotes(c, snapshot, edges) => Quotes(c, snapshot, edges)'
  BY DEF Kept, Quotes
<1> QED BY <1>1 DEF Rests, Kept

LEMMA OthersCarry ==
    ASSUME Kept, NoRevival, NEW q \in Proc, Carries(q), Tracks(q),
           pc'[q] = pc[q], item'[q] = item[q], pending'[q] = pending[q],
           wave'[q] = wave[q], tracked'[q] = tracked[q]
    PROVE  Carries(q)' /\ Tracks(q)'
<1>1. Carries(q)'
  <2>1. \A it \in pending[q] : Rests(it)'
    BY RestsKept DEF Carries
  <2>2. \A w \in wave[q] : Rests(w.it)'
    <3>1. ASSUME NEW w \in wave[q] PROVE Rests(w.it)'
      <4>1. Rests(w.it)
        BY DEF Carries
      <4> QED BY <4>1, RestsKept
    <3> QED BY <3>1
  <2>3. pc[q] = "claim" => Rests(item[q])'
    <3>1. ASSUME pc[q] = "claim", NEW x, x = item[q] PROVE Rests(x)'
      <4>1. Rests(x)
        BY <3>1 DEF Carries
      <4> QED BY <4>1, RestsKept
    <3> QED BY <3>1 DEF Rests, Quotes
  <2>4. pc[q] = "publish" => Rests(item[q].it)'
    <3>1. ASSUME pc[q] = "publish", NEW x, x = item[q].it PROVE Rests(x)'
      <4>1. Rests(x)
        BY <3>1 DEF Carries
      <4> QED BY <4>1, RestsKept
    <3> QED BY <3>1 DEF Rests, Quotes
  <2> QED BY <2>1, <2>2, <2>3, <2>4 DEF Carries
<1>2. Tracks(q)'
  <2>1. tracked[q] \subseteq RunIds'
    BY DEF Tracks, Kept
  <2>2. \A r \in tracked[q] : runs'[r].status = "running" => Running(r)
    BY DEF Tracks, NoRevival
  <2> QED BY <2>1, <2>2 DEF Tracks, Running
<1> QED BY <1>1, <1>2

LEMMA MarkRevivesNone ==
    ASSUME Ledger(runs, artifacts), NEW ids, NEW status \in {"failed", "superseded", "incomplete"},
           runs' = Mark(ids, status)
    PROVE  /\ NoRevival /\ NoNewRun
           /\ \A r \in ids \cap RunIds : ~Running(r)'
<1>1. status \in Statuses /\ status # "running"
  BY DEF Statuses
<1>2. /\ DOMAIN Mark(ids, status) = RunIds
      /\ \A r \in RunIds :
           Mark(ids, status)[r].status = IF r \in ids THEN status ELSE runs[r].status
  BY <1>1, MarkShape DEF Ledger
<1> QED BY <1>1, <1>2 DEF NoRevival, NoNewRun, RunIds, Running

LEMMA SameRevivesNone ==
    ASSUME runs' = runs
    PROVE  NoRevival /\ NoNewRun
BY DEF NoRevival, NoNewRun, RunIds, Running

LEMMA FinishRevivesNone ==
    ASSUME Ledger(runs, artifacts), NEW r \in RunIds, NEW status \in {"failed", "incomplete"},
           FinishRun(r, status)
    PROVE  NoRevival /\ NoNewRun /\ ~Running(r)'
<1>1. CASE Running(r)
  BY <1>1, MarkRevivesNone DEF FinishRun
<1>2. CASE ~Running(r)
  BY <1>2, SameRevivesNone DEF FinishRun, Running
<1> QED BY <1>1, <1>2

(* The artifacts stay in order of age.                                       *)
LEMMA SameAged ==
    ASSUME Aged, artifacts' = artifacts
    PROVE  Aged'
BY DEF Aged, ArtifactIds

LEMMA AppendAged ==
    ASSUME Ledger(runs, artifacts), Aged, NEW a, a.children \subseteq ArtifactIds,
           artifacts' = Append(artifacts, a)
    PROVE  /\ Aged'
           /\ ArtifactIds' = ArtifactIds \cup {Len(artifacts) + 1}
           /\ artifacts'[Len(artifacts) + 1] = a
           /\ \A i \in ArtifactIds : artifacts'[i] = artifacts[i]
<1> DEFINE n == Len(artifacts) + 1
<1>1. /\ DOMAIN artifacts' = 1 .. n /\ artifacts'[n] = a
      /\ \A i \in DOMAIN artifacts : artifacts'[i] = artifacts[i]
      /\ ArtifactIds = 1 .. Len(artifacts) /\ Len(artifacts) \in Nat
  BY AppendSeq, SeqFacts DEF Ledger, ArtifactsOK, ArtifactIds
<1>2. ArtifactIds' = ArtifactIds \cup {n} /\ \A c \in ArtifactIds : c < n
  BY <1>1 DEF ArtifactIds
<1> HIDE DEF n
<1>3. Aged'
  BY <1>1, <1>2 DEF Aged, ArtifactIds
<1> QED BY <1>1, <1>2, <1>3 DEF n, ArtifactIds

-----------------------------------------------------------------------------
(* The steps of a process.                                                   *)

(* What a step of process p has to show.                                     *)
Keeps(p) ==
    /\ \A q \in Proc \ {p} :
         /\ pc'[q] = pc[q] /\ item'[q] = item[q] /\ pending'[q] = pending[q]
         /\ wave'[q] = wave[q] /\ tracked'[q] = tracked[q]
    /\ tracked' = [q \in Proc |-> tracked'[q]] /\ edits' \in Nat
    /\ Aged' /\ Carries(p)' /\ Tracks(p)'
    /\ NoRevival
    /\ \A r \in RunIds' \ RunIds : runs'[r].status = "running" => r \in tracked'[p]
    /\ \A r \in tracked[p] \ tracked'[p] : runs'[r].status = "running" => edits' # edits

LEMMA ShapesHold ==
    ASSUME Inv, FreshInv
    PROVE  /\ pc = [p \in Proc |-> pc[p]] /\ item = [p \in Proc |-> item[p]]
           /\ pending = [p \in Proc |-> pending[p]] /\ wave = [p \in Proc |-> wave[p]]
           /\ tracked = [p \in Proc |-> tracked[p]]
           /\ Ledger(runs, artifacts) /\ OneCurrent /\ Aged /\ edits \in Nat
           /\ \A p \in Proc : Carries(p) /\ Tracks(p) /\ Held(p)
BY DEF Inv, CommandOK, Shapes, FreshInv

(* A command that returns has nothing left.                                  *)
LEMMA ResetKeeps ==
    ASSUME Inv, FreshInv, NEW p \in Proc, Reset(p), Kept, NoRevival, NoNewRun,
           artifacts' = artifacts, edits' \in Nat,
           \A r \in tracked[p] : runs'[r].status = "running" => edits' # edits
    PROVE  Keeps(p)
<1>1. /\ pc'[p] = "idle" /\ pending'[p] = {} /\ wave'[p] = {} /\ tracked'[p] = {}
      /\ tracked' = [q \in Proc |-> tracked'[q]]
      /\ \A q \in Proc \ {p} :
           /\ pc'[q] = pc[q] /\ item'[q] = item[q] /\ pending'[q] = pending[q]
           /\ wave'[q] = wave[q] /\ tracked'[q] = tracked[q]
  BY ShapesHold DEF Reset, Go
<1>2. Carries(p)' /\ Tracks(p)'
  BY <1>1 DEF Carries, Tracks
<1>3. Aged'
  BY SameAged, ShapesHold
<1> QED BY <1>1, <1>2, <1>3 DEF Keeps, NoNewRun

LEMMA StartKeeps ==
    ASSUME Inv, FreshInv, NEW p \in Proc, NEW job, NEW old \in SUBSET {r \in RunIds : Running(r)},
           Start(p, job, old), Kept
    PROVE  Keeps(p)
<1>1. /\ pc[p] = "idle" /\ pc'[p] = "plan" /\ pending' = pending /\ wave' = wave
      /\ tracked' = tracked /\ edits' = edits /\ artifacts' = artifacts
      /\ \A q \in Proc \ {p} : pc'[q] = pc[q] /\ item'[q] = item[q]
      /\ runs' = Mark(old, "failed")
  BY ShapesHold DEF Start, Go, SweepOrphanedRuns
<1>2. NoRevival /\ NoNewRun
  BY <1>1, MarkRevivesNone, ShapesHold
<1>3. Carries(p) /\ Tracks(p) /\ wave[p] = {}
  BY <1>1, ShapesHold DEF Tracks
<1>4. Carries(p)'
  BY <1>1, <1>3, RestsKept DEF Carries
<1>5. Tracks(p)'
  BY <1>1, <1>2, <1>3 DEF Tracks, NoRevival, NoNewRun, Running
<1>6. Aged'
  BY <1>1, SameAged, ShapesHold
<1> QED BY <1>1, <1>2, <1>4, <1>5, <1>6, ShapesHold DEF Keeps, NoNewRun

(* What is prepared rests on what is current.                                *)
LEMMA PreparedRests ==
    ASSUME Inv, FreshInv, NEW p \in Proc, NEW it \in Prepared(p)
    PROVE  Rests(it)
<1>0. PICK s \in Subjects : \E id : it = Item(s, id) /\ Scoutable(s)
  <2>1. \A t \in targets[p] : artifacts[t].subject \in Subjects
    BY ShapesHold DEF Held, Ledger, ArtifactsOK, ArtifactIds
  <2> QED BY <2>1 DEF Prepared, PlannedItems, RefreshItems
<1>1. PICK id : it = Item(s, id) /\ Scoutable(s)
  BY <1>0
<1>2. it.subject = s /\ it.children = ExpectedChildren(s) /\ it.snapshot = code /\ it.links = links
  BY <1>1 DEF Item
<1>3. ExpectedChildren(s) \subseteq ArtifactIds
  BY DEF ExpectedChildren, Current
<1>4. KindOf[s] = "concept" => \A c \in ExpectedChildren(s) : Quotes(c, code, links)
  BY <1>1, ReadyQuotes, ShapesHold
<1> QED BY <1>2, <1>3, <1>4 DEF Rests

LEMMA PlanKeeps ==
    ASSUME Inv, FreshInv, NEW p \in Proc, PlanStage(p), Kept
    PROVE  Keeps(p)
<1>1. /\ pc[p] = "plan" /\ pc'[p] = "wave" /\ pending'[p] \subseteq Prepared(p)
      /\ UNCHANGED <<code, runs, artifacts, item, wave, tracked, edits>>
      /\ \A q \in Proc \ {p} : pc'[q] = pc[q] /\ pending'[q] = pending[q]
  BY ShapesHold DEF PlanStage, Go, store
<1>2. NoRevival /\ NoNewRun
  BY <1>1, SameRevivesNone
<1>3. Tracks(p) /\ wave[p] = {}
  BY <1>1, ShapesHold DEF Tracks
<1>4. \A it \in pending'[p] : Rests(it)'
  BY <1>1, PreparedRests, RestsKept
<1>5. Carries(p)'
  BY <1>1, <1>3, <1>4 DEF Carries
<1>6. Tracks(p)'
  BY <1>1, <1>3 DEF Tracks, Running, RunIds
<1>7. Aged'
  BY <1>1, SameAged, ShapesHold
<1> QED BY <1>1, <1>2, <1>5, <1>6, <1>7, ShapesHold DEF Keeps, NoNewRun

LEMMA FinishedKeeps ==
    ASSUME Inv, FreshInv, NEW p \in Proc, Finished(p), Kept
    PROVE  Keeps(p)
<1>1. pc[p] = "plan" /\ Reset(p) /\ UNCHANGED <<code, runs, artifacts, edits>>
  BY DEF Finished, store
<1>2. \A r \in tracked[p] : ~Running(r)
  BY <1>1, ShapesHold DEF Tracks
<1>3. \A r \in tracked[p] : runs'[r].status # "running"
  BY <1>1, <1>2 DEF Running
<1> QED BY <1>1, <1>3, ResetKeeps, SameRevivesNone, ShapesHold

LEMMA CrashKeeps ==
    ASSUME Inv, FreshInv, NEW p \in Proc, Crash(p), Kept
    PROVE  Keeps(p)
<1>1. Reset(p) /\ UNCHANGED <<code, runs, artifacts>> /\ edits' = edits + 1
  BY DEF Crash, store
<1>2. edits' \in Nat /\ edits' # edits
  BY <1>1, ShapesHold
<1> QED BY <1>1, <1>2, ResetKeeps, SameRevivesNone

LEMMA AbortKeeps ==
    ASSUME Inv, FreshInv, NEW p \in Proc, Abort(p), Kept
    PROVE  Keeps(p)
<1> DEFINE ids == {r \in tracked[p] : Running(r)}
<1>1. Reset(p) /\ UNCHANGED <<artifacts, edits>> /\ runs' = Mark(ids, "failed")
  BY DEF Abort
<1>2. tracked[p] \subseteq RunIds
  BY ShapesHold DEF Tracks
<1>3. NoRevival /\ NoNewRun /\ \A r \in ids \cap RunIds : ~Running(r)'
  <2> HIDE DEF ids
  <2> QED BY <1>1, MarkRevivesNone, ShapesHold
<1>4. \A r \in tracked[p] : runs'[r].status # "running"
  BY <1>2, <1>3 DEF NoRevival, Running
<1> QED BY <1>1, <1>3, <1>4, ResetKeeps, ShapesHold

LEMMA TakeKeeps ==
    ASSUME Inv, FreshInv, NEW p \in Proc, NEW it \in pending[p], TakeItem(p, it), Kept
    PROVE  Keeps(p)
<1>1. /\ pending'[p] = pending[p] \ {it}
      /\ UNCHANGED <<code, runs, artifacts, wave, tracked, edits>>
      /\ \A q \in Proc \ {p} :
           pc'[q] = pc[q] /\ pending'[q] = pending[q] /\ item'[q] = item[q]
      /\ pc[p] = "wave"
      /\ \/ pc'[p] = "wave"
         \/ pc'[p] = "claim" /\ item'[p] = Pinned(it)
  BY ShapesHold DEF TakeItem, Go, store
<1>2. NoRevival /\ NoNewRun
  BY <1>1, SameRevivesNone
<1>3. Carries(p) /\ Tracks(p) /\ ItemOK(it)
  BY <1>1, ShapesHold DEF Held
<1>4. ASSUME NEW x, x = Pinned(it)
      PROVE  Rests(x)'
  <2>1. x.subject = it.subject /\ x.children = it.children /\ x.snapshot = it.snapshot
        /\ x.links = it.links
    BY <1>3, <1>4 DEF Pinned, ItemOK
  <2>2. Rests(it)
    BY <1>3 DEF Carries
  <2>3. Rests(x)
    BY <2>1, <2>2 DEF Rests
  <2> QED BY <2>3, RestsKept
<1>5. Carries(p)'
  <2>1. pc'[p] = "claim" => Rests(item[p])'
    BY <1>1, <1>4 DEF Rests, Quotes
  <2>2. \A x \in pending'[p] : Rests(x)'
    BY <1>1, <1>3, RestsKept DEF Carries
  <2>3. \A w \in wave[p] : Rests(w.it)'
    <3>1. ASSUME NEW w \in wave[p] PROVE Rests(w.it)'
      <4>1. Rests(w.it)
        BY <1>3 DEF Carries
      <4> QED BY <4>1, RestsKept
    <3> QED BY <3>1
  <2> QED BY <1>1, <2>1, <2>2, <2>3 DEF Carries
<1>6. Tracks(p)'
  BY <1>1, <1>3 DEF Tracks, Running, RunIds
<1>7. Aged'
  BY <1>1, SameAged, ShapesHold
<1> QED BY <1>1, <1>2, <1>5, <1>6, <1>7, ShapesHold DEF Keeps, NoNewRun

LEMMA WaveKeeps ==
    ASSUME Inv, FreshInv, NEW p \in Proc, Dispatch(p) \/ EndWave(p), Kept
    PROVE  Keeps(p)
<1>1. /\ UNCHANGED <<code, runs, artifacts, item, pending, wave, tracked, edits>>
      /\ \A q \in Proc \ {p} : pc'[q] = pc[q]
      /\ pc[p] \in {"wave", "finish"} /\ pc'[p] \in {"finish", "abort", "plan", "wave"}
      /\ pc'[p] = "plan" => wave[p] = {}
  BY ShapesHold DEF Dispatch, EndWave, Go, store
<1>2. NoRevival /\ NoNewRun
  BY <1>1, SameRevivesNone
<1>3. Carries(p) /\ Tracks(p)
  BY ShapesHold
<1>4. Carries(p)'
  <2>1. \A w \in wave[p] : Rests(w.it)'
    <3>1. ASSUME NEW w \in wave[p] PROVE Rests(w.it)'
      <4>1. Rests(w.it)
        BY <1>3 DEF Carries
      <4> QED BY <4>1, RestsKept
    <3> QED BY <3>1
  <2> QED BY <1>1, <1>3, <2>1, RestsKept DEF Carries
<1>5. Tracks(p)'
  BY <1>1, <1>3 DEF Tracks, Running, RunIds
<1>6. Aged'
  BY <1>1, SameAged, ShapesHold
<1> QED BY <1>1, <1>2, <1>4, <1>5, <1>6, ShapesHold DEF Keeps, NoNewRun

(* Retiring supersedes and appending adds one row.                           *)
LEMMA ClaimRevivesNone ==
    ASSUME Ledger(runs, artifacts), NEW ids, NEW row,
           runs' = Append(Mark(ids, "superseded"), row)
    PROVE  /\ NoRevival
           /\ RunIds' = RunIds \cup {Len(runs) + 1}
           /\ runs'[Len(runs) + 1] = row
<1> DEFINE m == Mark(ids, "superseded")
<1>1. /\ IsSeq(m) /\ DOMAIN m = RunIds
      /\ \A r \in RunIds : m[r].status = "running" => Running(r)
  <2>1. "superseded" \in Statuses
    BY DEF Statuses
  <2> QED BY <2>1, MarkShape DEF Ledger, Running
<1>2. runs' = Append(m, row)
  OBVIOUS
<1> HIDE DEF m
<1>3. /\ Len(m) \in Nat /\ DOMAIN m = 1 .. Len(m)
      /\ DOMAIN Append(m, row) = 1 .. Len(m) + 1
      /\ \A r \in DOMAIN m : Append(m, row)[r] = m[r]
      /\ Append(m, row)[Len(m) + 1] = row
  BY <1>1, SeqFacts, AppendSeq
<1>4. RunIds = 1 .. Len(runs) /\ Len(runs) \in Nat
  BY SeqFacts DEF Ledger, RunsOK, RunIds
<1>5. Len(m) = Len(runs)
  BY <1>1, <1>3, <1>4, IntervalEnds
<1>6. RunIds' = 1 .. Len(runs) + 1
  BY <1>2, <1>3, <1>5 DEF RunIds
<1>7. NoRevival
  BY <1>1, <1>2, <1>3 DEF NoRevival
<1> QED BY <1>2, <1>3, <1>4, <1>5, <1>6, <1>7

LEMMA ClaimKeeps ==
    ASSUME Inv, FreshInv, NEW p \in Proc, ClaimRun(p), Kept
    PROVE  Keeps(p)
<1> DEFINE it == item[p]
           n == Len(runs) + 1
           new == [it |-> it, run |-> n, replaces |-> Replaced(it), context |-> None]
           Quiet == /\ wave' = wave /\ tracked' = tracked /\ NoRevival
                    /\ \A r \in RunIds' \ RunIds : runs'[r].status # "running"
           Claims == /\ wave' = [wave EXCEPT ![p] = @ \cup {new}]
                     /\ tracked' = [tracked EXCEPT ![p] = @ \cup {n}]
                     /\ NoRevival /\ RunIds' = RunIds \cup {n}
<1>1. /\ UNCHANGED <<code, artifacts, pending, edits>>
      /\ \A q \in Proc \ {p} : pc'[q] = pc[q] /\ item'[q] = item[q]
      /\ pc[p] = "claim" /\ pc'[p] \in {"abort", "wave"}
  BY ShapesHold DEF ClaimRun, ClaimReused, ClaimRefused, ClaimGranted, Go
<1>2. Quiet \/ Claims
  <2>1. CASE LineageBroken(it) \/ ClaimRefused(p)
    <3>1. runs' = runs /\ wave' = wave /\ tracked' = tracked
      BY <2>1 DEF ClaimRun, ClaimReused, ClaimRefused, ClaimGranted, Go
    <3> QED BY <3>1, SameRevivesNone DEF NoNewRun
  <2>2. CASE ClaimReused(p)
    <3>1. runs' = Mark(Retired(p), "superseded") /\ wave' = wave /\ tracked' = tracked
      BY <2>2 DEF ClaimReused
    <3> QED BY <3>1, MarkRevivesNone, ShapesHold DEF NoNewRun
  <2>3. CASE ClaimGranted(p) /\ LineageMoved(it)
    <3> DEFINE row == [NewRun(it) EXCEPT !.status = "incomplete"]
    <3>1. /\ runs' = Append(Mark(Retired(p), "superseded"), row)
          /\ wave' = wave /\ tracked' = tracked
      BY <2>3 DEF ClaimGranted
    <3>2. row.status = "incomplete"
      BY DEF NewRun
    <3> HIDE DEF row
    <3> QED BY <3>1, <3>2, ClaimRevivesNone, ShapesHold
  <2>4. CASE ClaimGranted(p) /\ ~LineageMoved(it)
    <3> DEFINE row == NewRun(it)
    <3>1. /\ runs' = Append(Mark(Retired(p), "superseded"), row)
          /\ wave' = [wave EXCEPT ![p] = @ \cup {new}]
          /\ tracked' = [tracked EXCEPT ![p] = @ \cup {n}]
      BY <2>4 DEF ClaimGranted
    <3> HIDE DEF row, new
    <3> QED BY <3>1, ClaimRevivesNone, ShapesHold
  <2> QED BY <2>1, <2>2, <2>3, <2>4 DEF ClaimRun
<1>3. new.it = it /\ new.run = n
  OBVIOUS
<1>4. Carries(p) /\ Tracks(p) /\ Rests(it)
  BY <1>1, ShapesHold DEF Carries
<1> HIDE DEF new, it, n
<1>5. \A w \in wave'[p] : (w \in wave[p] \/ w = new) /\ Rests(w.it)'
  <2>1. ASSUME NEW w \in wave'[p]
        PROVE  (w \in wave[p] \/ w = new) /\ Rests(w.it)'
    <3>1. w \in wave[p] \/ w = new
      BY <1>2, ShapesHold
    <3>2. Rests(w.it)
      BY <1>3, <1>4, <3>1 DEF Carries
    <3> QED BY <3>1, <3>2, RestsKept
  <2> QED BY <2>1
<1>6. Carries(p)'
  BY <1>1, <1>4, <1>5, RestsKept DEF Carries
<1>7. /\ wave[p] \subseteq wave'[p]
      /\ \A r \in tracked'[p] : r \in tracked[p] \/ (r = n /\ new \in wave'[p] /\ n \in RunIds')
      /\ NoRevival /\ tracked[p] \subseteq tracked'[p]
      /\ \A q \in Proc \ {p} : wave'[q] = wave[q] /\ tracked'[q] = tracked[q]
      /\ tracked' = [q \in Proc |-> tracked'[q]]
      /\ \A r \in RunIds' \ RunIds : runs'[r].status = "running" => r \in tracked'[p]
  <2>1. CASE Quiet
    BY <2>1, ShapesHold
  <2>2. CASE Claims
    BY <2>2, ShapesHold
  <2> QED BY <1>2, <2>1, <2>2
<1>8. Tracks(p)'
  <2>1. ASSUME NEW r \in tracked'[p]
        PROVE  r \in RunIds' /\ (runs'[r].status = "running" => \E w \in wave'[p] : w.run = r)
    <3>1. CASE r \in tracked[p]
      <4>1. r \in RunIds /\ r \in RunIds' /\ (runs'[r].status = "running" => Running(r))
        BY <1>4, <1>7, <3>1 DEF Tracks, NoRevival, Kept
      <4>2. Running(r) => \E w \in wave[p] : w.run = r
        BY <1>1, <1>4, <3>1 DEF Tracks
      <4> QED BY <1>7, <4>1, <4>2
    <3>2. CASE r = n /\ new \in wave'[p] /\ n \in RunIds'
      BY <1>3, <3>2
    <3> QED BY <1>7, <3>1, <3>2
  <2> QED BY <1>1, <2>1 DEF Tracks, Running
<1>9. Aged'
  BY <1>1, SameAged, ShapesHold
<1> QED BY <1>1, <1>6, <1>7, <1>8, <1>9, ShapesHold DEF Keeps

LEMMA FinishKeeps ==
    ASSUME Inv, FreshInv, NEW p \in Proc, NEW w \in wave[p], Finish(p, w), Kept
    PROVE  Keeps(p)
<1> DEFINE v == [w EXCEPT !.context = ContextOf(w.it.subject)]
<1>0. WorkOK(w) /\ v.it = w.it /\ v.run = w.run
  BY ValidatedIsOK, ShapesHold DEF Held
<1> HIDE DEF v
<1>1. /\ UNCHANGED <<code, artifacts, pending, edits>>
      /\ wave' = [wave EXCEPT ![p] = @ \ {w}]
      /\ \A q \in Proc \ {p} :
           pc'[q] = pc[q] /\ item'[q] = item[q] /\ tracked'[q] = tracked[q]
      /\ pc[p] = "finish"
      /\ \/ pc'[p] = "finish"
         \/ pc'[p] = "publish" /\ item'[p] = v
      /\ tracked' = [q \in Proc |-> tracked'[q]]
  BY ShapesHold DEF Finish, SubjectFails, GatewayFails, InputsChanged, InputsValid,
                    Resolve, KeepError, Go, v
<1>2. WorkOK(w) /\ w.run \in RunIds
  BY ShapesHold DEF Held, WorkOK
<1>3. /\ NoRevival /\ NoNewRun
      /\ tracked'[p] \subseteq tracked[p]
      /\ \A r \in tracked[p] \ tracked'[p] : runs'[r].status # "running"
      /\ runs'[w.run].status = "running" => pc'[p] = "publish" /\ item'[p].run = w.run
  <2>1. CASE \E status \in {"failed", "incomplete"} : SubjectFails(p, w, status)
    <3>1. PICK status \in {"failed", "incomplete"} : SubjectFails(p, w, status)
      BY <2>1
    <3>2. NoRevival /\ NoNewRun /\ ~Running(w.run)'
      BY <1>2, <3>1, FinishRevivesNone, ShapesHold DEF SubjectFails
    <3>3. \A r \in tracked[p] \ tracked'[p] : r = w.run
      BY <3>1, ShapesHold DEF SubjectFails, Resolve, KeepError
    <3>4. tracked'[p] \subseteq tracked[p]
      BY <3>1, ShapesHold DEF SubjectFails, Resolve, KeepError
    <3> QED BY <3>2, <3>3, <3>4 DEF Running
  <2>2. CASE GatewayFails(p, w) \/ InputsChanged(p, w)
    <3>1. tracked' = tracked /\ \E status \in {"failed", "incomplete"} : FinishRun(w.run, status)
      BY <2>2 DEF GatewayFails, InputsChanged, KeepError
    <3>2. NoRevival /\ NoNewRun /\ ~Running(w.run)'
      BY <1>2, <3>1, FinishRevivesNone, ShapesHold
    <3> QED BY <3>1, <3>2 DEF Running
  <2>3. CASE InputsValid(p, w)
    <3>1. /\ runs' = runs /\ tracked' = tracked
          /\ pc'[p] = "publish" /\ item'[p].run = w.run
      BY <1>0, <2>3, ShapesHold DEF InputsValid, Go, v
    <3> QED BY <3>1, SameRevivesNone
  <2> QED BY <2>1, <2>2, <2>3 DEF Finish
<1>4. Carries(p) /\ Tracks(p) /\ Rests(w.it)
  BY ShapesHold DEF Carries
<1>5. wave'[p] = wave[p] \ {w} /\ \A q \in Proc \ {p} : wave'[q] = wave[q]
  BY <1>1, ShapesHold
<1>6. Carries(p)'
  <2>1. \A u \in wave'[p] : Rests(u.it)'
    <3>1. ASSUME NEW u \in wave'[p] PROVE Rests(u.it)'
      <4>1. Rests(u.it)
        BY <1>4, <1>5 DEF Carries
      <4> QED BY <4>1, RestsKept
    <3> QED BY <3>1
  <2>2. pc'[p] = "publish" => Rests(item[p].it)'
    <3>1. ASSUME NEW x, x = w.it PROVE Rests(x)'
      BY <1>4, <3>1, RestsKept
    <3> QED BY <1>0, <1>1, <3>1 DEF Rests, Quotes
  <2>3. \A x \in pending'[p] : Rests(x)'
    BY <1>1, <1>4, RestsKept DEF Carries
  <2> QED BY <1>1, <2>1, <2>2, <2>3 DEF Carries
<1>7. Tracks(p)'
  <2>1. ASSUME NEW r \in tracked'[p]
        PROVE  /\ r \in RunIds'
               /\ runs'[r].status = "running" =>
                    \/ \E u \in wave'[p] : u.run = r
                    \/ pc'[p] = "publish" /\ item'[p].run = r
    <3>1. r \in tracked[p] /\ r \in RunIds /\ (runs'[r].status = "running" => Running(r))
      BY <1>3, <1>4 DEF Tracks, NoRevival
    <3>2. r \in RunIds'
      BY <1>3, <3>1 DEF NoNewRun
    <3>3. ASSUME runs'[r].status = "running"
          PROVE  \/ \E u \in wave'[p] : u.run = r
                 \/ pc'[p] = "publish" /\ item'[p].run = r
      <4>1. PICK u \in wave[p] : u.run = r
        BY <1>1, <1>4, <3>1, <3>3 DEF Tracks
      <4>2. CASE u = w
        BY <1>3, <3>3, <4>1, <4>2
      <4>3. CASE u # w
        BY <1>5, <4>1, <4>3
      <4> QED BY <4>2, <4>3
    <3> QED BY <3>2, <3>3
  <2> QED BY <1>1, <2>1 DEF Tracks, Running
<1>8. Aged'
  BY <1>1, SameAged, ShapesHold
<1> QED BY <1>1, <1>3, <1>5, <1>6, <1>7, <1>8, ShapesHold DEF Keeps, NoNewRun

(* What a publication that succeeds leaves in the tables.                    *)
Published(w, a) ==
    /\ RecheckPasses(w) /\ Insertable(w) /\ Rests(w.it)
    /\ artifacts' = Append(artifacts, a) /\ code' = code /\ links' = links
    /\ a.subject = w.it.subject /\ a.snapshot = w.it.snapshot /\ a.context = w.context
    /\ a.children = w.it.children /\ a.replaces = PublishedPredecessor(w) /\ a.run = w.run

LEMMA Publishes ==
    ASSUME Inv, FreshInv, NEW p \in Proc, Publish(p)
    PROVE  \/ artifacts' = artifacts
           \/ /\ pc[p] = "publish" /\ WorkOK(item[p])
              /\ \E a : Published(item[p], a)
<1> DEFINE w == item[p]
<1>1. pc[p] = "publish" /\ WorkOK(w) /\ Rests(w.it) /\ code' = code /\ links' = links
  BY ShapesHold DEF Publish, Held, Carries
<1>2. CASE RecheckPasses(w) /\ Insertable(w) /\ StillOwned(w)
  <2>1. PICK body \in Bodies : PublishArtifact(w, body)
    BY <1>2 DEF Publish
  <2> DEFINE a == Artifact(w.it.subject, w.run, PublishedPredecessor(w),
                           w.it.snapshot, w.context, w.it.children, body)
  <2> HIDE DEF w
  <2>2. artifacts' = Append(artifacts, a)
    BY <2>1 DEF PublishArtifact
  <2>3. /\ a.subject = w.it.subject /\ a.snapshot = w.it.snapshot /\ a.context = w.context
        /\ a.children = w.it.children /\ a.replaces = PublishedPredecessor(w) /\ a.run = w.run
    BY DEF Artifact
  <2> HIDE DEF a
  <2>4. Published(w, a)
    BY <1>1, <1>2, <2>2, <2>3 DEF Published
  <2> QED BY <1>1, <2>4 DEF w
<1>3. CASE ~(RecheckPasses(w) /\ Insertable(w) /\ StillOwned(w))
  BY <1>3 DEF Publish
<1> QED BY <1>2, <1>3

LEMMA PublishKeeps ==
    ASSUME Inv, FreshInv, NEW p \in Proc, Publish(p), Kept
    PROVE  Keeps(p)
<1> DEFINE w == item[p]
<1>1. /\ UNCHANGED <<code, pending, wave, edits>>
      /\ \A q \in Proc \ {p} :
           pc'[q] = pc[q] /\ item'[q] = item[q] /\ tracked'[q] = tracked[q]
      /\ pc[p] = "publish" /\ pc'[p] = "finish"
      /\ tracked' = [q \in Proc |-> tracked'[q]]
      /\ tracked'[p] \in {tracked[p], tracked[p] \ {w.run}}
  BY ShapesHold DEF Publish, Resolve, KeepError, Go
<1>2. WorkOK(w) /\ w.run \in RunIds /\ Carries(p) /\ Tracks(p)
  BY <1>1, ShapesHold DEF Held, WorkOK
<1>3. NoRevival /\ NoNewRun /\ runs'[w.run].status # "running"
  <2>1. CASE RecheckPasses(w) /\ Insertable(w) /\ StillOwned(w)
    <3>1. PICK body \in Bodies : PublishArtifact(w, body)
      BY <2>1 DEF Publish
    <3> DEFINE g == GeneratingRun(PublishedPredecessor(w))
               m == Mark(g, "superseded")
    <3>2. "superseded" \in Statuses
      BY DEF Statuses
    <3>3. /\ DOMAIN m = RunIds
          /\ \A r \in RunIds : m[r].status = "running" => Running(r)
          /\ m = [r \in RunIds |-> m[r]]
          /\ RowOK(m[w.run])
      BY <1>2, <3>2, MarkShape, ShapesHold DEF Ledger, Running, Mark
    <3>4. runs' = [m EXCEPT ![w.run].status = "completed"]
      BY <3>1 DEF PublishArtifact
    <3> HIDE DEF m, w
    <3> DEFINE row == [m[w.run] EXCEPT !.status = "completed"]
    <3>5. row.status = "completed"
      BY <3>3 DEF RowOK
    <3>6. runs' = [m EXCEPT ![w.run] = row]
      BY <3>4
    <3> HIDE DEF row
    <3>7. DOMAIN runs' = RunIds /\ \A r \in RunIds : runs'[r] = IF r = w.run THEN row ELSE m[r]
      BY <1>2, <3>3, <3>6
    <3> QED BY <1>2, <3>3, <3>5, <3>7 DEF NoRevival, NoNewRun, RunIds
  <2>2. CASE ~(RecheckPasses(w) /\ Insertable(w) /\ StillOwned(w))
    <3>1. FinishRun(w.run, "incomplete")
      BY <2>2 DEF Publish
    <3> QED BY <1>2, <3>1, FinishRevivesNone, ShapesHold DEF Running
  <2> QED BY <2>1, <2>2
<1>4. Aged'
  <2>1. CASE artifacts' = artifacts
    BY <2>1, SameAged, ShapesHold
  <2>2. ASSUME NEW v, NEW a, Published(v, a)
        PROVE  Aged'
    <3>1. a.children \subseteq ArtifactIds /\ artifacts' = Append(artifacts, a)
      BY <2>2 DEF Published, Rests
    <3> QED BY <3>1, AppendAged, ShapesHold
  <2> QED BY <2>1, <2>2, Publishes
<1>5. Carries(p)'
  <2>1. \A v \in wave[p] : Rests(v.it)'
    <3>1. ASSUME NEW v \in wave[p] PROVE Rests(v.it)'
      <4>1. Rests(v.it)
        BY <1>2 DEF Carries
      <4> QED BY <4>1, RestsKept
    <3> QED BY <3>1
  <2> QED BY <1>1, <1>2, <2>1, RestsKept DEF Carries
<1>6. Tracks(p)'
  <2>1. ASSUME NEW r \in tracked'[p]
        PROVE  r \in RunIds' /\ (runs'[r].status = "running" => \E v \in wave'[p] : v.run = r)
    <3>1. r \in tracked[p] /\ r \in RunIds /\ (runs'[r].status = "running" => Running(r))
      BY <1>1, <1>2, <1>3 DEF Tracks, NoRevival
    <3>2. r \in RunIds'
      BY <1>3, <3>1 DEF NoNewRun
    <3>3. ASSUME runs'[r].status = "running"
          PROVE  \E v \in wave'[p] : v.run = r
      <4>1. r # w.run
        BY <1>3, <3>3
      <4> QED BY <1>1, <1>2, <3>1, <3>3, <4>1 DEF Tracks
    <3> QED BY <3>2, <3>3
  <2> QED BY <1>1, <2>1 DEF Tracks, Running
<1> QED BY <1>1, <1>3, <1>4, <1>5, <1>6, ShapesHold DEF Keeps, NoNewRun

-----------------------------------------------------------------------------
(* The invariant.                                                            *)

LEMMA SurroundingsKeep ==
    ASSUME Inv, FreshInv, Surroundings, Kept
    PROVE  FreshInv' /\ runs' = runs
<1>1. /\ UNCHANGED <<runs, pc, item, pending, wave, tracked>> /\ edits' = edits + 1
      /\ \/ artifacts' = artifacts
         \/ \E s \in Subjects, b \in Bodies, i \in ArtifactIds \cup {0} : Annotate(s, b, i)
  BY DEF Surroundings, command, Reindex, RebuildProjection, Annotate
<1>2. Aged'
  <2>1. CASE artifacts' = artifacts
    BY <2>1, SameAged, ShapesHold
  <2>2. ASSUME NEW s \in Subjects, NEW b \in Bodies, NEW i \in ArtifactIds \cup {0},
               Annotate(s, b, i)
        PROVE  Aged'
    <3> DEFINE a == Artifact(s, 0, i, code, ContextOf(s), {}, b)
    <3>1. artifacts' = Append(artifacts, a)
      BY <2>2 DEF Annotate
    <3>2. a.children \subseteq ArtifactIds
      BY DEF Artifact
    <3> HIDE DEF a
    <3> QED BY <3>1, <3>2, AppendAged, ShapesHold
  <2> QED BY <1>1, <2>1, <2>2
<1>3. NoRevival
  BY <1>1, SameRevivesNone
<1>4. \A q \in Proc : Carries(q)' /\ Tracks(q)'
  BY <1>1, <1>3, OthersCarry, ShapesHold
<1>5. edits' \in Nat /\ tracked' = [p \in Proc |-> tracked'[p]]
  BY <1>1, ShapesHold
<1> QED BY <1>1, <1>2, <1>4, <1>5 DEF FreshInv

LEMMA ProcessKeeps ==
    ASSUME Inv, FreshInv, Kept, NEW p \in Proc, StartCommand(p) \/ Step(p) \/ Crash(p)
    PROVE  Keeps(p)
<1>1. CASE StartCommand(p)
  BY <1>1, StartKeeps DEF StartCommand
<1>2. CASE Step(p)
  <2>1. CASE PlanStage(p)
    BY <2>1, PlanKeeps
  <2>2. CASE Finished(p)
    BY <2>2, FinishedKeeps
  <2>3. CASE \E it \in pending[p] : TakeItem(p, it)
    BY <2>3, TakeKeeps
  <2>4. CASE ClaimRun(p)
    BY <2>4, ClaimKeeps
  <2>5. CASE Dispatch(p) \/ EndWave(p)
    BY <2>5, WaveKeeps
  <2>6. CASE \E w \in wave[p] : Finish(p, w)
    BY <2>6, FinishKeeps
  <2>7. CASE Publish(p)
    BY <2>7, PublishKeeps
  <2>8. CASE Abort(p)
    BY <2>8, AbortKeeps
  <2> QED BY <1>2, <2>1, <2>2, <2>3, <2>4, <2>5, <2>6, <2>7, <2>8 DEF Step
<1>3. CASE Crash(p)
  BY <1>3, CrashKeeps
<1> QED BY <1>1, <1>2, <1>3

LEMMA KeepsInvariant ==
    ASSUME Inv, FreshInv, Kept, NEW p \in Proc, Keeps(p)
    PROVE  FreshInv'
<1>1. \A q \in Proc : Carries(q)' /\ Tracks(q)'
  BY OthersCarry, ShapesHold DEF Keeps
<1> QED BY <1>1 DEF Keeps, FreshInv

LEMMA FreshStep ==
    ASSUME Inv, FreshInv, [Next]_vars
    PROVE  FreshInv'
<1>1. Kept
  BY NextStep
<1>2. CASE \E p \in Proc : StartCommand(p) \/ Step(p) \/ Crash(p)
  BY <1>1, <1>2, ProcessKeeps, KeepsInvariant
<1>3. CASE Surroundings
  BY <1>1, <1>3, SurroundingsKeep
<1>4. CASE UNCHANGED vars
  <2>1. UNCHANGED <<runs, artifacts, pc, item, pending, wave, tracked, edits>>
    BY <1>4 DEF vars, store, command
  <2>2. \A q \in Proc : Carries(q)' /\ Tracks(q)'
    BY <1>1, <2>1, SameRevivesNone, OthersCarry, ShapesHold
  <2> QED BY <2>1, <2>2, SameAged, ShapesHold DEF FreshInv
<1> QED BY <1>2, <1>3, <1>4 DEF Next

LEMMA InitFresh ==
    ASSUME Init
    PROVE  FreshInv
<1>1. DOMAIN artifacts = {}
  BY DEF Init, StoreInit
<1> QED BY <1>1 DEF Init, FreshInv, Aged, Carries, Tracks, ArtifactIds

(* What processes carry rests on artifacts that exist, and what they track   *)
(* is theirs to finish.                                                      *)
THEOREM CarriedIsGood == Spec => []FreshInv
<1>1. Inv /\ FreshInv /\ [Next]_vars => FreshInv'
  BY FreshStep
<1> QED BY <1>1, InitFresh, ScoutingInvariant, PTL DEF Spec

-----------------------------------------------------------------------------
(* What a publication writes is good.                                        *)

(* No subject feeds itself.                                                  *)
LEMMA NotItsOwnChild ==
    ASSUME NEW a, NEW s, a.subject = s
    PROVE  ~Feeds(a, s)
BY DEF Feeds, FeedsFile, FeedsModule, FeedsRepository, FeedsConcept, Grounded

(* What PublishedFresh says of a row i that was published from w.            *)
UpToDate(i, w) ==
    /\ SourcesCurrent(i)'
    /\ KindOf[artifacts'[i].subject] \notin Grounded => Freshness'[i] # "stale"
    /\ EdgesKept(w) /\ KindOf[artifacts'[i].subject] \notin Summaries
         => Freshness'[i] = "fresh"

WellPublished(i) ==
    /\ SourcesCurrent(i)'
    /\ KindOf[artifacts'[i].subject] \notin Grounded => Freshness'[i] # "stale"
    /\ \E p \in Proc :
         /\ pc[p] = "publish" /\ item[p].run = artifacts'[i].run
         /\ EdgesKept(item[p]) /\ KindOf[artifacts'[i].subject] \notin Summaries
              => Freshness'[i] = "fresh"

LEMMA PublishedIsFresh ==
    ASSUME Inv, FreshInv, Ledger(runs, artifacts)', Aged', NEW w, NEW a, WorkOK(w),
           Published(w, a)
    PROVE  \A i \in ArtifactIds' \ ArtifactIds : UpToDate(i, w) /\ artifacts'[i] = a
<1> DEFINE s == w.it.subject
<1>1. PICK n : n = Len(artifacts) + 1
  OBVIOUS
<1>2. PICK pred : pred = PublishedPredecessor(w)
  OBVIOUS
<1>3. s \in Subjects /\ KindOf[s] \in Kinds
  BY SemanticAssumption DEF WorkOK, ItemOK
<1>4. Names(pred, s)
  BY <1>2, PredecessorIsCurrent, ShapesHold DEF Published
<1>5. /\ ArtifactIds' = ArtifactIds \cup {n} /\ artifacts'[n] = a
      /\ \A i \in ArtifactIds : artifacts'[i] = artifacts[i]
  BY <1>1, AppendAged, ShapesHold DEF Published, Rests
<1>6. ArtifactIds = 1 .. Len(artifacts) /\ Len(artifacts) \in Nat
  BY CurrentIds, ShapesHold
<1>7. Freshness'[n] = Label(n, Freshness)'
  BY <1>5, NextLabels
<1>8. /\ code' = code /\ code = w.it.snapshot /\ a.subject = s /\ a.snapshot = w.it.snapshot
      /\ links' = links /\ a.context = w.context
      /\ a.children = w.it.children /\ a.replaces = pred
      /\ KindOf[s] = "concept" \/ KindOf[s] \in Summaries
           => w.it.children = ExpectedChildren(s)
  BY <1>2 DEF Published, RecheckPasses, SummaryUnchanged, ConceptUnchanged
<1> HIDE DEF s
<1>9. SUFFICES UpToDate(n, w)
  BY <1>5, <1>6, <1>1
<1>10. CASE KindOf[s] \in Grounded
  <2>1. KindOf[s] # "concept"
    BY <1>10 DEF Grounded
  <2>2. \A x \in AnchorsOf[s] : SourceCurrent(n, x)'
    BY <1>5, <1>8 DEF SourceCurrent
  <2>3. SourcesCurrent(n)'
    BY <1>5, <1>8, <2>1, <2>2 DEF SourcesCurrent, RestsOn
  <2>4. ASSUME EdgesKept(w)
        PROVE  Freshness'[n] = "fresh"
    <3>1. \A x \in AnchorsOf[s] : a.context[x] = links[x]
      BY <1>8, <2>1, <2>4 DEF EdgesKept, ContextOf, s
    <3>2. \A x \in AnchorsOf[s] : SupportFresh(n, x)'
      BY <1>5, <1>8, <2>2, <3>1 DEF SupportFresh, ContextCurrent
    <3>3. OwnLabel(n)' = "fresh"
      BY <1>5, <1>8, <3>2 DEF OwnLabel
    <3> QED BY <1>5, <1>7, <1>8, <1>10, <3>3 DEF Label
  <2> QED BY <1>5, <1>8, <1>9, <1>10, <2>3, <2>4 DEF UpToDate
<1>11. CASE KindOf[s] \notin Grounded
  <2>1. KindOf[s] = "concept" \/ KindOf[s] \in Summaries
    BY <1>3, <1>11 DEF Kinds
  <2>2. a.children = ExpectedChildren(s)
    BY <1>8, <2>1
  <2>3. \A i \in ArtifactIds : HasSuccessor(i)' <=> HasSuccessor(i) \/ i = pred
    BY <1>5, <1>8 DEF HasSuccessor
  <2>4. ~HasSuccessor(n)'
    <3>1. n # 0 /\ n \notin ArtifactIds /\ pred # n
      BY <1>4, <1>6, <1>1 DEF Names
    <3>2. \A i \in ArtifactIds : artifacts[i].replaces # n
      BY <1>6, <1>1, ShapesHold DEF Ledger, ArtifactsOK, ArtifactIds
    <3> QED BY <1>5, <1>8, <3>1, <3>2 DEF HasSuccessor
  <2>5. \A i \in ArtifactIds : Feeds(artifacts[i], s) => i # pred
    <3>1. ASSUME NEW i \in ArtifactIds, i = pred
          PROVE  ~Feeds(artifacts[i], s)
      <4>1. i # 0
        BY <1>6
      <4>2. artifacts[i].subject = s
        BY <1>4, <3>1, <4>1 DEF Names
      <4> QED BY <4>2, NotItsOwnChild
    <3> QED BY <3>1
  <2>6. ~Feeds(a, s)
    BY <1>8, NotItsOwnChild
  <2>7. ExpectedChildren(s)' = ExpectedChildren(s)
    <3>1. ASSUME NEW i \in ArtifactIds
          PROVE  i \in ExpectedChildren(s)' <=> i \in ExpectedChildren(s)
      <4>1. Feeds(artifacts[i], s)' <=> Feeds(artifacts[i], s)
        BY <1>5 DEF Feeds, FeedsFile, FeedsModule, FeedsRepository, FeedsConcept
      <4> QED BY <1>5, <2>3, <2>5, <4>1 DEF ExpectedChildren, Current
    <3>2. n \notin ExpectedChildren(s)'
      <4>1. Feeds(artifacts[n], s)' <=> Feeds(a, s)
        BY <1>5 DEF Feeds, FeedsFile, FeedsModule, FeedsRepository, FeedsConcept
      <4> QED BY <2>6, <4>1 DEF ExpectedChildren
    <3>3. n \notin ExpectedChildren(s)
      BY <1>6, <1>1 DEF ExpectedChildren, Current
    <3>4. ExpectedChildren(s)' \subseteq ArtifactIds' /\ ExpectedChildren(s) \subseteq ArtifactIds
      BY DEF ExpectedChildren, Current
    <3> QED BY <1>5, <3>1, <3>2, <3>3, <3>4
  <2>8. Covers(n)'
    BY <1>5, <1>8, <2>2, <2>7 DEF Covers
  <2>9. \A c \in a.children : c \in ArtifactIds /\ ~HasSuccessor(c)'
    BY <2>2, <2>3, <2>5 DEF ExpectedChildren, Current
  <2>10. Freshness'[n] # "stale"
    BY <1>5, <1>7, <1>8, <1>11, <2>8, <2>9 DEF Label
  <2>11. ASSUME KindOf[s] = "concept", NEW c \in a.children
         PROVE  /\ c \in ArtifactIds /\ KindOf[artifacts[c].subject] \in Grounded
                /\ \A x \in AnchorsOf[artifacts[c].subject] :
                     SourceCurrent(c, x)' /\ (w.it.links = links => SupportFresh(c, x)')
    <3>1. Quotes(c, code, w.it.links) /\ c \in ArtifactIds
      BY <1>8, <2>11 DEF Published, Rests, s
    <3>2. artifacts'[c] = artifacts[c]
      BY <1>5, <3>1
    <3> QED BY <1>8, <3>1, <3>2 DEF Quotes, SupportFresh, SourceCurrent, ContextCurrent
  <2>12. SourcesCurrent(n)'
    <3>1. CASE KindOf[s] = "concept"
      <4>1. RestsOn(n)' = a.children
        BY <1>5, <1>8, <3>1 DEF RestsOn
      <4>2. \A c \in a.children : artifacts'[c] = artifacts[c]
        BY <1>5, <2>11, <3>1
      <4> QED BY <2>11, <3>1, <4>1, <4>2 DEF SourcesCurrent
    <3>2. CASE KindOf[s] # "concept"
      <4>1. RestsOn(n)' = {n}
        BY <1>5, <1>8, <3>2 DEF RestsOn
      <4>2. AnchorsOf[s] = {}
        BY <1>3, <1>11, SemanticAssumption
      <4> QED BY <1>5, <1>8, <4>1, <4>2 DEF SourcesCurrent
    <3> QED BY <3>1, <3>2
  <2>13. ASSUME KindOf[s] = "concept", w.it.links = links
         PROVE  Freshness'[n] = "fresh"
    <3>1. ASSUME NEW c \in a.children
          PROVE  Freshness'[c] = "fresh"
      <4>1. /\ c \in ArtifactIds /\ KindOf[artifacts[c].subject] \in Grounded
            /\ \A x \in AnchorsOf[artifacts[c].subject] : SupportFresh(c, x)'
        BY <2>11, <2>13
      <4>2. Freshness'[c] = Label(c, Freshness)' /\ artifacts'[c] = artifacts[c]
        BY <1>5, <4>1, NextLabels
      <4>3. OwnLabel(c)' = "fresh"
        BY <4>1, <4>2 DEF OwnLabel
      <4> QED BY <4>1, <4>2, <4>3 DEF Label
    <3> QED BY <1>5, <1>7, <1>8, <1>11, <2>8, <2>9, <3>1 DEF Label
  <2>14. KindOf[s] \notin Summaries /\ EdgesKept(w) => Freshness'[n] = "fresh"
    BY <2>1, <2>13 DEF EdgesKept, s
  <2> QED BY <1>5, <1>8, <1>9, <2>10, <2>12, <2>14 DEF UpToDate
<1> QED BY <1>10, <1>11

LEMMA StepsLeaveSound ==
    ASSUME Inv, FreshInv, [Next]_vars, Inv', FreshInv'
    PROVE  /\ \A i \in ArtifactIds' \ ArtifactIds :
                artifacts'[i].run # 0 => WellPublished(i)
           /\ \A r \in RunIds' :
                runs'[r].status = "running" =>
                  \/ \E p \in Proc : r \in tracked'[p]
                  \/ r \in RunIds /\ \A p \in Proc : r \notin tracked[p]
                  \/ edits' # edits
<1>1. Kept
  BY NextStep
<1>2. Ledger(runs, artifacts)' /\ Aged'
  BY DEF Inv, FreshInv
<1>3. ASSUME NEW i \in ArtifactIds' \ ArtifactIds, artifacts'[i].run # 0
      PROVE  WellPublished(i)
  <2>1. CASE artifacts' = artifacts
    BY <2>1 DEF ArtifactIds
  <2>2. ASSUME NEW p \in Proc, Publish(p)
        PROVE  WellPublished(i)
    <3>1. CASE /\ pc[p] = "publish" /\ WorkOK(item[p])
               /\ \E a : Published(item[p], a)
      <4>1. PICK a : Published(item[p], a)
        BY <3>1
      <4>2. UpToDate(i, item[p]) /\ artifacts'[i] = a /\ a.run = item[p].run
        BY <1>2, <3>1, <4>1, PublishedIsFresh DEF Published
      <4> QED BY <3>1, <4>2 DEF UpToDate, WellPublished
    <3> QED BY <2>1, <2>2, <3>1, Publishes
  <2>3. CASE Surroundings
    <3>1. ASSUME NEW s \in Subjects, NEW b \in Bodies, NEW j \in ArtifactIds \cup {0},
                 Annotate(s, b, j)
          PROVE  FALSE
      <4> DEFINE a == Artifact(s, 0, j, code, ContextOf(s), {}, b)
      <4>1. artifacts' = Append(artifacts, a)
        BY <3>1 DEF Annotate
      <4>2. a.children = {} /\ a.run = 0
        BY DEF Artifact
      <4> HIDE DEF a
      <4>3. i = Len(artifacts) + 1 /\ artifacts'[i] = a
        BY <4>1, <4>2, AppendAged, ShapesHold
      <4> QED BY <1>3, <4>2, <4>3
    <3> QED BY <2>1, <2>3, <3>1 DEF Surroundings, Reindex, RebuildProjection
  <2>4. CASE UNCHANGED vars
    BY <2>1, <2>4 DEF vars, store
  <2>5. ASSUME NEW p \in Proc, StartCommand(p) \/ Step(p) \/ Crash(p)
        PROVE  artifacts' = artifacts \/ Publish(p)
    BY <2>5 DEF StartCommand, Start, Step, PlanStage, Finished, TakeItem, ClaimRun, Dispatch,
                Finish, EndWave, Abort, Crash, store
  <2> QED BY <2>1, <2>2, <2>3, <2>4, <2>5 DEF Next
<1>4. ASSUME NEW r \in RunIds', runs'[r].status = "running"
      PROVE  \/ \E p \in Proc : r \in tracked'[p]
             \/ r \in RunIds /\ \A p \in Proc : r \notin tracked[p]
             \/ edits' # edits
  <2>1. CASE \E p \in Proc : StartCommand(p) \/ Step(p) \/ Crash(p)
    <3>1. PICK p \in Proc : Keeps(p)
      BY <1>1, <2>1, ProcessKeeps
    <3>2. \A q \in Proc \ {p} : tracked'[q] = tracked[q]
      BY <3>1 DEF Keeps
    <3>3. /\ r \notin RunIds => r \in tracked'[p]
          /\ r \in tracked[p] /\ r \notin tracked'[p] => edits' # edits
      BY <1>4, <3>1 DEF Keeps
    <3> QED BY <3>2, <3>3
  <2>2. CASE Surroundings
    <3>1. edits' = edits + 1 /\ edits \in Nat
      BY <2>2, ShapesHold DEF Surroundings
    <3> QED BY <3>1
  <2>3. CASE UNCHANGED vars
    <3>1. UNCHANGED <<runs, tracked>>
      BY <2>3 DEF vars, store, command
    <3> QED BY <3>1 DEF RunIds
  <2> QED BY <2>1, <2>2, <2>3 DEF Next
<1> QED BY <1>3, <1>4

(* What a publication writes rests on the indexed sources and the current    *)
(* children when it commits and is wholly fresh while the edges are those it *)
(* was written from; only a crash leaves a run in progress behind.           *)
THEOREM ScoutingLeavesSound == Spec => LeavesSound
<1>1. ASSUME Inv, FreshInv, [Next]_vars, Inv', FreshInv'
      PROVE  [\A i \in ArtifactIds' \ ArtifactIds :
                artifacts'[i].run # 0 => WellPublished(i)]_vars
  BY <1>1, StepsLeaveSound
<1>2. ASSUME Inv, FreshInv, [Next]_vars, Inv', FreshInv'
      PROVE  [\A r \in RunIds' :
                runs'[r].status = "running" =>
                  \/ \E p \in Proc : r \in tracked'[p]
                  \/ r \in RunIds /\ \A p \in Proc : r \notin tracked[p]
                  \/ edits' # edits]_vars
  BY <1>2, StepsLeaveSound
<1>3. Spec => PublishedFresh
  BY <1>1, ScoutingInvariant, CarriedIsGood, PTL DEF Spec, PublishedFresh, WellPublished
<1>4. Spec => NoLeakedClaim
  BY <1>2, ScoutingInvariant, CarriedIsGood, PTL DEF Spec, NoLeakedClaim
<1> QED BY <1>3, <1>4 DEF LeavesSound
=============================================================================
