--------------------------- MODULE DocsPlaneProofs ---------------------------
(***************************************************************************)
(* Whatever moves while documents are indexed and embedded: one state of   *)
(* Git for every publication, and a generation that is exactly that of the *)
(* published documents.  For any documents, heads, indexers, embedders,    *)
(* attempts, changes and failures.                                         *)
(*                                                                         *)
(* The clone only gets deeper and the conversion rules only move on, so    *)
(* what a document was attributed in lies between what its attempt         *)
(* recorded and what Git answers now; the last checks of the attempt find  *)
(* the two ends equal.                                                     *)
(***************************************************************************)
EXTENDS DocsPlane, WellFoundedInduction, TLAPS

GitOK == git \in GitStates

(* The clone gets deeper and the conversion moves on only.                   *)
Since(recorded) == recorded \in GitStates /\ (git.shallow => recorded.shallow)

Working == {"prepare", "blame", "write", "validate", "commit"}

(* The key of a document, as PrepareDocument read it.                        *)
KeyOK(k, x, d) ==
    /\ k \in BlameKeys
    /\ k.content = x.files[d]
    /\ k.tip.commit = TipOf[x.git.head][d]
    /\ k.shallow = x.git.shallow
    /\ k.conversion <= git.conversion

(* The attribution that a key determines.                                    *)
Determined(k) ==
    [status |-> "resolved", tip |-> k.tip.commit, shallow |-> k.shallow,
     conversion |-> k.conversion, content |-> k.content]

(* What a document was attributed in lies between what the attempt recorded  *)
(* and what Git answers now.                                                 *)
BlamedAt(x, d, shallow, conversion) ==
    /\ x.provenance[d] = Attribution(x.git.head, shallow, conversion, d, x.files[d])
    /\ git.shallow => shallow
    /\ shallow => x.git.shallow
    /\ x.pc = "commit" => shallow = x.git.shallow
    /\ x.keys[d].conversion <= conversion

Resolution(x, d) ==
    \/ x.keys[d] = None /\ x.provenance[d] = Failed
    \/ IF Tracked(x.git.head, x.git.index, d)
       THEN /\ KeyOK(x.keys[d], x, d)
            /\ \/ x.provenance[d] = Failed
               \/ \E shallow \in BOOLEAN, conversion \in 0 .. git.conversion :
                    BlamedAt(x, d, shallow, conversion)
       ELSE x.keys[d] = None /\ x.provenance[d] = Unknown

Fields == {"pc", "attempt", "full", "git", "files", "todo", "key", "keys", "provenance"}
AttemptShape(x) == x = [f \in Fields |-> x[f]]

Prepares(x) ==
    /\ Since(x.git)
    /\ x.files \in [Docs -> Contents \cup {None}]
    /\ x.keys = [d \in Docs |-> x.keys[d]] /\ x.provenance = [d \in Docs |-> x.provenance[d]]
    /\ x.todo \subseteq {d \in Docs : x.files[d] # None}
    /\ \A d \in Docs :
         IF x.files[d] = None THEN x.keys[d] = None
         ELSE d \in x.todo \/ Resolution(x, d)

Least(S) == CHOOSE d \in S : \A e \in S : d <= e

AttemptOK(x) ==
    /\ AttemptShape(x)
    /\ x.attempt \in 0 .. MaxAttempts
    /\ x.pc = "idle" => x.attempt = 0
    /\ x.pc = "retry" => x.attempt < MaxAttempts
    /\ x.pc \in {"inventory", "prepare"} => x.key = None
    /\ x.pc \in {"idle", "retry", "inventory"} \cup Working
    /\ x.pc = "inventory" => Since(x.git)
    /\ x.pc \in Working => Prepares(x)
    /\ x.pc \in {"prepare", "blame"} => x.todo # {}
    /\ x.pc \in {"write", "validate", "commit"} => x.todo = {}
    /\ x.pc = "blame" =>
         /\ KeyOK(x.key, x, Least(x.todo))
         /\ Tracked(x.git.head, x.git.index, Least(x.todo))

PublishedOK ==
    /\ published = [d \in Docs |-> published[d]]
    /\ \A d \in Indexed(published) : published[d].content \in Contents \ {None}
    /\ \A d \in Indexed(published) :
         published[d].provenance \in
             {Failed, IF Tracked(basis.head, basis.index, d)
                      THEN Attribution(basis.head, basis.shallow, basis.conversion,
                                       d, published[d].content)
                      ELSE Unknown}
    /\ basis = None => Indexed(published) = {}

BlamesOK ==
    /\ blames = [d \in Docs |-> blames[d]]
    /\ \A d \in Docs : blames[d] # None => blames[d].attribution = Determined(blames[d].key)

EmbedderOK(x) ==
    /\ x = [f \in {"pc", "snapshot", "todo"} |-> x[f]]
    /\ x.pc \in {"idle", "list", "embed", "publish"}

PlaneInv ==
    /\ GitOK /\ worktree \in [Docs -> Contents \cup {None}]
    /\ indexers = [w \in Indexers |-> indexers[w]] /\ \A w \in Indexers : AttemptOK(indexers[w])
    /\ PublishedOK /\ BlamesOK
    /\ embedders = [e \in Embedders |-> embedders[e]] /\ \A e \in Embedders : EmbedderOK(embedders[e])
    /\ cache \subseteq Contents /\ profile \in BOOLEAN
    /\ GenerationExact

-----------------------------------------------------------------------------
(* The least document of a set is one of the set.                            *)
LEMMA LeastMember ==
    ASSUME NEW S, S \subseteq Nat, S # {}
    PROVE  Least(S) \in S
<1> DEFINE R == {ss \in Nat \X Nat : ss[1] < ss[2]}
<1>1. IsWellFoundedOn(R, Nat)
  BY NatLessThanWellFounded DEF OpToRel
<1>2. \A x, y \in Nat : y < x => <<y, x>> \in R
  OBVIOUS
<1> HIDE DEF R
<1>3. PICK x \in S : \A y \in S : ~(<<y, x>> \in R)
  BY <1>1, WFMin
<1>4. \A y \in S : ~(y < x)
  BY <1>2, <1>3, Zenon
<1>5. \A y \in S : x <= y
  BY <1>4
<1> QED BY <1>5 DEF Least

LEMMA NextIsLeast ==
    ASSUME NEW w
    PROVE  NextDoc(w) = Least(indexers[w].todo)
BY DEF NextDoc, Least

-----------------------------------------------------------------------------
(* Git moves on.                                                             *)

MovesOn ==
    /\ git' \in GitStates
    /\ git'.shallow => git.shallow
    /\ git.conversion <= git'.conversion

LEMMA AttemptMovesOn ==
    ASSUME GitOK, MovesOn, NEW x, AttemptOK(x)
    PROVE  AttemptOK(x)'
<1>1. git.conversion \in Nat /\ git'.conversion \in Nat
  BY DEF GitOK, MovesOn, GitStates
<1>2. \A recorded : Since(recorded) => Since(recorded)'
  BY DEF Since, MovesOn
<1>3. \A k, d : KeyOK(k, x, d) => KeyOK(k, x, d)'
  BY <1>1 DEF KeyOK, MovesOn, BlameKeys
<1>4. \A d, shallow, conversion :
         BlamedAt(x, d, shallow, conversion) => BlamedAt(x, d, shallow, conversion)'
  BY DEF BlamedAt, MovesOn
<1>5. 0 .. git.conversion \subseteq 0 .. git'.conversion
  BY <1>1 DEF MovesOn
<1>6. \A d : Resolution(x, d) => Resolution(x, d)'
  BY <1>3, <1>4, <1>5 DEF Resolution
<1>7. Prepares(x) => Prepares(x)'
  BY <1>2, <1>6 DEF Prepares
<1> QED BY <1>2, <1>3, <1>7 DEF AttemptOK, AttemptShape

LEMMA GitRests ==
    ASSUME GitOK, git' = git
    PROVE  MovesOn
BY DEF GitOK, MovesOn, GitStates

(* One attempt goes on while the others rest.                                *)
LEMMA OneAttempt ==
    ASSUME PlaneInv, git' = git, NEW w \in Indexers, NEW y, AttemptOK(y),
           indexers' = [indexers EXCEPT ![w] = y]
    PROVE  /\ indexers' = [v \in Indexers |-> indexers'[v]]
           /\ \A v \in Indexers : AttemptOK(indexers[v])'
<1>1. /\ indexers' = [v \in Indexers |-> indexers'[v]]
      /\ \A v \in Indexers : indexers'[v] = IF v = w THEN y ELSE indexers[v]
  BY DEF PlaneInv
<1>2. ASSUME NEW x, AttemptOK(x) PROVE AttemptOK(x)'
  BY <1>2, GitRests, AttemptMovesOn DEF PlaneInv
<1>3. ASSUME NEW v \in Indexers, NEW x, x = indexers'[v]
      PROVE  AttemptOK(x)'
  <2>1. AttemptOK(x)
    BY <1>1, <1>3 DEF PlaneInv
  <2> QED BY <1>2, <2>1
<1>4. \A v \in Indexers : AttemptOK(indexers[v])'
  BY <1>3 DEF AttemptOK, AttemptShape, Prepares, Since, Resolution, KeyOK, BlamedAt
<1> QED BY <1>1, <1>4

-----------------------------------------------------------------------------
(* An attempt, step by step.                                                 *)

(* What a step of an indexer has to show of its attempt.                     *)
Attempts(w) ==
    /\ git' = git
    /\ \E y : AttemptOK(y) /\ indexers' = [indexers EXCEPT ![w] = y]

LEMMA IdleOK == AttemptOK(Idle)
<1>1. Idle.pc = "idle" /\ Idle.attempt = 0 /\ AttemptShape(Idle)
  BY DEF AttemptShape, Fields, Idle
<1>2. 0 \in 0 .. MaxAttempts
  BY DocsPlaneAssumption
<1> QED BY <1>1, <1>2 DEF AttemptOK, Working

LEMMA CaptureStep ==
    ASSUME PlaneInv, NEW w \in Indexers, NEW full \in BOOLEAN, Capture(w, full)
    PROVE  Attempts(w)
<1>1. PICK x : x = indexers[w]
  OBVIOUS
<1> DEFINE n == x.attempt + 1
<1>2. AttemptOK(x) /\ x.pc \in {"idle", "retry"}
  <2>1. AttemptOK(x)
    BY <1>1 DEF PlaneInv
  <2>2. x.pc = "idle" \/ x.pc = "retry"
    BY <1>1 DEF Capture
  <2> QED BY <2>1, <2>2
<1>3. n \in 0 .. MaxAttempts
  BY <1>2, DocsPlaneAssumption DEF AttemptOK
<1>4. Since(git)
  BY DEF PlaneInv, GitOK, Since
<1>5. git' = git /\ indexers' = [indexers EXCEPT ![w] =
                       [Idle EXCEPT !.pc = "inventory", !.full = full, !.git = git,
                                    !.attempt = n]]
  BY <1>1 DEF Capture, outside
<1> HIDE DEF n
<1> DEFINE y == [Idle EXCEPT !.pc = "inventory", !.full = full, !.git = git, !.attempt = n]
<1>6. /\ y.pc = "inventory" /\ y.attempt = n /\ y.git = git /\ y.key = None
      /\ AttemptShape(y)
  BY DEF AttemptShape, Fields, Idle
<1> HIDE DEF y
<1>7. AttemptOK(y)
  BY <1>3, <1>4, <1>6 DEF AttemptOK, Working
<1> QED BY <1>5, <1>7 DEF Attempts, y

LEMMA InventoryStep ==
    ASSUME PlaneInv, NEW w \in Indexers, Inventory(w)
    PROVE  Attempts(w)
<1>1. PICK x : x = indexers[w]
  OBVIOUS
<1> DEFINE pc2 == IF \A d \in Docs : worktree[d] = None THEN "write" ELSE "prepare"
           todo2 == {d \in Docs : worktree[d] # None}
           none == [d \in Docs |-> None]
           y == [x EXCEPT !.pc = pc2, !.files = worktree, !.todo = todo2, !.keys = none,
                          !.provenance = none]
<1>2. AttemptOK(x) /\ x.pc = "inventory" /\ indexers = [v \in Indexers |-> indexers[v]]
  BY <1>1 DEF PlaneInv, Inventory
<1>3. /\ pc2 \in {"write", "prepare"} /\ (pc2 = "write" => todo2 = {})
      /\ pc2 = "prepare" => todo2 # {}
  OBVIOUS
<1>4. /\ git' = git
      /\ indexers' = [indexers EXCEPT ![w].pc = pc2, ![w].files = worktree, ![w].todo = todo2,
                                      ![w].keys = none, ![w].provenance = none]
  BY DEF Inventory, outside
<1> HIDE DEF pc2, todo2, none
<1>5. indexers' = [indexers EXCEPT ![w] = y]
  BY <1>1, <1>2, <1>4
<1>6. /\ y.pc = pc2 /\ y.attempt = x.attempt /\ y.git = x.git /\ y.files = worktree
      /\ y.todo = todo2 /\ y.key = x.key /\ y.keys = none /\ y.provenance = none
      /\ AttemptShape(y)
  BY <1>2 DEF AttemptOK, AttemptShape, Fields
<1> HIDE DEF y
<1>7. Prepares(y)
  BY <1>2, <1>6 DEF Prepares, AttemptOK, PlaneInv, todo2, none
<1>8. x.key = None
  BY <1>2 DEF AttemptOK
<1>9. AttemptOK(y)
  BY <1>2, <1>3, <1>6, <1>7, <1>8 DEF AttemptOK, Working
<1> QED BY <1>4, <1>5, <1>9 DEF Attempts

(* One document is done with.                                                *)
LEMMA ResolvedStep ==
    ASSUME PlaneInv, NEW w \in Indexers, indexers[w].pc \in {"prepare", "blame"},
           git' = git, NEW v, indexers' = [indexers EXCEPT ![w] = Resolved(w, v)],
           NEW x, x = indexers[w], NEW d, d = NextDoc(w),
           \/ x.key = None /\ v = Failed
           \/ IF Tracked(x.git.head, x.git.index, d)
              THEN /\ KeyOK(x.key, x, d)
                   /\ \/ v = Failed
                      \/ \E shallow \in BOOLEAN, conversion \in 0 .. git.conversion :
                           /\ v = Attribution(x.git.head, shallow, conversion, d, x.files[d])
                           /\ git.shallow => shallow
                           /\ shallow => x.git.shallow
                           /\ x.key.conversion <= conversion
              ELSE x.key = None /\ v = Unknown
    PROVE  Attempts(w)
<1> DEFINE left == x.todo \ {d}
           pc2 == IF left = {} THEN "write" ELSE "prepare"
           y == [x EXCEPT !.pc = pc2, !.todo = left, !.provenance[d] = v, !.keys[d] = x.key,
                          !.key = None]
<1>1. AttemptOK(x) /\ x.pc \in {"prepare", "blame"}
  BY DEF PlaneInv
<1>2. Resolved(w, v) = y
  BY DEF Resolved
<1>3. Prepares(x) /\ x.todo # {}
  BY <1>1 DEF AttemptOK, Working
<1>4. d \in x.todo /\ d \in Docs /\ x.files[d] # None
  <2>1. x.todo \subseteq Nat
    BY <1>3, DocsPlaneAssumption DEF Prepares
  <2>2. d = Least(x.todo)
    BY NextIsLeast
  <2> QED BY <1>3, <2>1, <2>2, LeastMember DEF Prepares
<1>5. pc2 \in {"write", "prepare"} /\ (pc2 = "write" => left = {}) /\ (pc2 = "prepare" => left # {})
  OBVIOUS
<1> HIDE DEF pc2, left
<1>6. /\ y.pc = pc2 /\ y.attempt = x.attempt /\ y.git = x.git /\ y.files = x.files
      /\ y.todo = left /\ y.key = None
      /\ y.keys = [x.keys EXCEPT ![d] = x.key]
      /\ y.provenance = [x.provenance EXCEPT ![d] = v]
      /\ AttemptShape(y)
  BY <1>1 DEF AttemptOK, AttemptShape, Fields
<1> HIDE DEF y
<1>7. /\ y.keys = [e \in Docs |-> y.keys[e]] /\ y.provenance = [e \in Docs |-> y.provenance[e]]
      /\ y.keys[d] = x.key /\ y.provenance[d] = v
      /\ \A e \in Docs \ {d} : y.keys[e] = x.keys[e] /\ y.provenance[e] = x.provenance[e]
  BY <1>3, <1>4, <1>6 DEF Prepares
<1>8. y.pc # "commit"
  BY <1>5, <1>6
<1>9. Resolution(y, d)
  <2>0. CASE x.key = None /\ v = Failed
    BY <1>7, <2>0 DEF Resolution
  <2>1. CASE ~(x.key = None /\ v = Failed) /\ Tracked(x.git.head, x.git.index, d)
    <3>1. KeyOK(y.keys[d], y, d)
      BY <1>6, <1>7, <2>1 DEF KeyOK
    <3>2. \/ y.provenance[d] = Failed
          \/ \E shallow \in BOOLEAN, conversion \in 0 .. git.conversion :
               BlamedAt(y, d, shallow, conversion)
      BY <1>6, <1>7, <1>8, <2>1 DEF BlamedAt
    <3> QED BY <1>6, <2>1, <3>1, <3>2 DEF Resolution
  <2>2. CASE ~(x.key = None /\ v = Failed) /\ ~Tracked(x.git.head, x.git.index, d)
    BY <1>6, <1>7, <2>2 DEF Resolution
  <2> QED BY <2>0, <2>1, <2>2
<1>10. ASSUME NEW e \in Docs \ {d}, Resolution(x, e)
       PROVE  Resolution(y, e)
  BY <1>1, <1>6, <1>7, <1>8, <1>10 DEF Resolution, KeyOK, BlamedAt
<1>11. Prepares(y)
  <2>1. ASSUME NEW e \in Docs
        PROVE  IF y.files[e] = None THEN y.keys[e] = None ELSE e \in y.todo \/ Resolution(y, e)
    <3>1. CASE e = d
      BY <1>4, <1>6, <1>9, <3>1
    <3>2. CASE e # d
      BY <1>3, <1>6, <1>7, <1>10, <3>2 DEF Prepares, left
    <3> QED BY <3>1, <3>2
  <2> QED BY <1>3, <1>6, <1>7, <2>1 DEF Prepares, left
<1>12. AttemptOK(y)
  BY <1>1, <1>5, <1>6, <1>11 DEF AttemptOK, Working
<1> QED BY <1>2, <1>12 DEF Attempts

LEMMA PrepareStep ==
    ASSUME PlaneInv, NEW w \in Indexers, PrepareDocument(w)
    PROVE  Attempts(w)
<1>1. PICK x : x = indexers[w]
  OBVIOUS
<1>2. PICK d : d = NextDoc(w)
  OBVIOUS
<1>3. /\ AttemptOK(x) /\ x.pc = "prepare" /\ git' = git
      /\ indexers' = [indexers EXCEPT ![w] =
              IF Tracked(x.git.head, x.git.index, d)
              THEN [x EXCEPT !.pc = "blame", !.key = BlameKey(x.git, d, x.files[d])]
              ELSE Resolved(w, Unknown)]
  <2>1. AttemptOK(x)
    BY <1>1 DEF PlaneInv
  <2> QED BY <1>1, <1>2, <2>1 DEF PlaneInv, PrepareDocument, outside
<1>4. x.key = None /\ Prepares(x) /\ x.todo # {}
  BY <1>3 DEF AttemptOK, Working
<1>5. d \in x.todo /\ d \in Docs /\ x.files[d] \in Contents /\ d = Least(x.todo)
  <2>1. x.todo \subseteq Nat
    BY <1>4, DocsPlaneAssumption DEF Prepares
  <2>2. d = Least(x.todo)
    BY <1>1, <1>2, NextIsLeast
  <2>3. d \in x.todo
    BY <1>4, <2>1, <2>2, LeastMember
  <2> QED BY <1>4, <2>2, <2>3 DEF Prepares
<1>6. CASE Tracked(x.git.head, x.git.index, d)
  <2>1. PICK k : k = BlameKey(x.git, d, x.files[d])
    OBVIOUS
  <2> DEFINE y == [x EXCEPT !.pc = "blame", !.key = k]
  <2>2. indexers' = [indexers EXCEPT ![w] = y]
    BY <1>3, <1>6, <2>1
  <2>3. /\ y.pc = "blame" /\ y.attempt = x.attempt /\ y.git = x.git /\ y.files = x.files
        /\ y.todo = x.todo /\ y.key = k /\ y.keys = x.keys /\ y.provenance = x.provenance
        /\ AttemptShape(y)
    BY <1>3 DEF AttemptOK, AttemptShape, Fields
  <2> HIDE DEF y
  <2>4. KeyOK(k, x, d)
    <3>1. git \in GitStates /\ x.git \in GitStates
      BY <1>4 DEF PlaneInv, GitOK, Prepares, Since
    <3>2. [commit |-> TipOf[x.git.head][d], shallow |-> git.shallow]
            \in [commit : {TipOf[h][e] : h \in Heads, e \in Docs}, shallow : BOOLEAN]
      BY <1>5, <3>1 DEF GitStates
    <3>3. k \in BlameKeys
      BY <1>5, <2>1, <3>1, <3>2 DEF BlameKey, BlameKeys, GitStates
    <3>4. git.conversion <= git.conversion
      BY <3>1 DEF GitStates
    <3> QED BY <2>1, <3>3, <3>4 DEF KeyOK, BlameKey
  <2>5. Prepares(y)
    <3>1. \A e : Resolution(x, e) => Resolution(y, e)
      BY <1>3, <2>3 DEF Resolution, KeyOK, BlamedAt
    <3> QED BY <1>4, <2>3, <3>1 DEF Prepares
  <2>6. KeyOK(y.key, y, Least(y.todo)) /\ Tracked(y.git.head, y.git.index, Least(y.todo))
    BY <1>5, <1>6, <2>3, <2>4 DEF KeyOK
  <2>7. AttemptOK(y)
    BY <1>3, <1>4, <2>3, <2>5, <2>6 DEF AttemptOK, Working
  <2> QED BY <1>3, <2>2, <2>7 DEF Attempts
<1>7. CASE ~Tracked(x.git.head, x.git.index, d)
  BY <1>1, <1>2, <1>3, <1>4, <1>7, ResolvedStep
<1> QED BY <1>6, <1>7

(* What is known before a document is blamed.                                *)
LEMMA Blaming ==
    ASSUME PlaneInv, NEW w \in Indexers, indexers[w].pc = "blame",
           NEW x, x = indexers[w], NEW d, d = NextDoc(w)
    PROVE  /\ x.git \in GitStates /\ git \in GitStates /\ (git.shallow => x.git.shallow)
           /\ Tracked(x.git.head, x.git.index, d) /\ KeyOK(x.key, x, d) /\ d \in Docs
<1>1. AttemptOK(x)
  BY DEF PlaneInv
<1>2. Prepares(x) /\ x.todo # {}
  BY <1>1 DEF AttemptOK, Working
<1>3. x.todo \subseteq Nat
  BY <1>2, DocsPlaneAssumption DEF Prepares
<1>4. d = Least(x.todo)
  BY NextIsLeast
<1>5. d \in x.todo
  BY <1>2, <1>3, <1>4, LeastMember
<1> QED BY <1>1, <1>2, <1>4, <1>5 DEF AttemptOK, Prepares, Since, PlaneInv, GitOK

LEMMA BlameStep ==
    ASSUME PlaneInv, NEW w \in Indexers, BlameDocument(w)
    PROVE  Attempts(w)
<1>1. PICK x : x = indexers[w]
  OBVIOUS
<1>2. PICK d : d = NextDoc(w)
  OBVIOUS
<1>3. PICK v : v = IF Hits(d, x.key) THEN blames[d].attribution
                   ELSE Attribution(x.git.head, git.shallow, git.conversion, d, x.key.content)
  OBVIOUS
<1>4. /\ indexers[w].pc = "blame" /\ git' = git
      /\ indexers' = [indexers EXCEPT ![w] = Resolved(w, v)]
  BY <1>1, <1>2, <1>3 DEF BlameDocument, outside
<1>5. /\ x.git \in GitStates /\ git \in GitStates /\ (git.shallow => x.git.shallow)
      /\ Tracked(x.git.head, x.git.index, d) /\ KeyOK(x.key, x, d) /\ d \in Docs
  BY <1>1, <1>2, <1>4, Blaming
<1>6. /\ x.key.content = x.files[d] /\ x.key.tip.commit = TipOf[x.git.head][d]
      /\ x.key.shallow = x.git.shallow /\ x.key.conversion <= git.conversion
      /\ x.key.conversion \in Nat /\ x.git.shallow \in BOOLEAN /\ git.shallow \in BOOLEAN
      /\ git.conversion \in Nat
  BY <1>5 DEF KeyOK, BlameKeys, GitStates
<1>7. \E shallow \in BOOLEAN, conversion \in 0 .. git.conversion :
         /\ v = Attribution(x.git.head, shallow, conversion, d, x.files[d])
         /\ git.shallow => shallow
         /\ shallow => x.git.shallow
         /\ x.key.conversion <= conversion
  <2>1. CASE Hits(d, x.key)
    <3>1. v = Determined(x.key)
      BY <1>3, <1>5, <2>1 DEF Hits, PlaneInv, BlamesOK
    <3>2. v = Attribution(x.git.head, x.git.shallow, x.key.conversion, d, x.files[d])
      BY <1>6, <3>1 DEF Determined, Attribution
    <3>3. x.key.conversion \in 0 .. git.conversion /\ x.key.conversion <= x.key.conversion
      BY <1>6
    <3> QED BY <1>5, <1>6, <3>2, <3>3
  <2>2. CASE ~Hits(d, x.key)
    <3>1. v = Attribution(x.git.head, git.shallow, git.conversion, d, x.files[d])
      BY <1>3, <1>6, <2>2
    <3>2. git.conversion \in 0 .. git.conversion
      BY <1>6
    <3> QED BY <1>5, <1>6, <3>1, <3>2
  <2> QED BY <2>1, <2>2
<1> QED BY <1>1, <1>2, <1>4, <1>5, <1>7, ResolvedStep

LEMMA BlameFailsStep ==
    ASSUME PlaneInv, NEW w \in Indexers, BlameFails(w)
    PROVE  Attempts(w)
<1>1. PICK x : x = indexers[w]
  OBVIOUS
<1>2. PICK d : d = NextDoc(w)
  OBVIOUS
<1>3. /\ indexers[w].pc = "blame" /\ git' = git
      /\ indexers' = [indexers EXCEPT ![w] = Resolved(w, Failed)]
  BY DEF BlameFails, outside
<1>4. Tracked(x.git.head, x.git.index, d) /\ KeyOK(x.key, x, d)
  BY <1>1, <1>2, <1>3, Blaming
<1> QED BY <1>1, <1>2, <1>3, <1>4, ResolvedStep

LEMMA PrepareFailsStep ==
    ASSUME PlaneInv, NEW w \in Indexers, PrepareFails(w)
    PROVE  Attempts(w)
<1>1. PICK x : x = indexers[w]
  OBVIOUS
<1>2. PICK d : d = NextDoc(w)
  OBVIOUS
<1>3. /\ indexers[w].pc = "prepare" /\ git' = git
      /\ indexers' = [indexers EXCEPT ![w] = Resolved(w, Failed)]
  BY DEF PrepareFails, outside
<1>4. x.key = None
  BY <1>1, <1>3 DEF PlaneInv, AttemptOK
<1> QED BY <1>1, <1>2, <1>3, <1>4, ResolvedStep

(* What a drift leaves behind.                                               *)
LEMMA DriftedOK ==
    ASSUME PlaneInv, NEW w \in Indexers
    PROVE  AttemptOK(Drifted(w))
<1>1. PICK x : x = indexers[w]
  OBVIOUS
<1>2. AttemptOK(x)
  BY <1>1 DEF PlaneInv
<1>3. CASE x.attempt < MaxAttempts
  <2> DEFINE y == [Idle EXCEPT !.pc = "retry", !.full = x.full, !.attempt = x.attempt]
  <2>1. y.pc = "retry" /\ y.attempt = x.attempt /\ AttemptShape(y)
    BY DEF AttemptShape, Fields, Idle
  <2>2. Drifted(w) = y
    BY <1>1, <1>3 DEF Drifted
  <2> HIDE DEF y
  <2>3. AttemptOK(y)
    BY <1>2, <1>3, <2>1 DEF AttemptOK, Working
  <2> QED BY <2>2, <2>3
<1>4. CASE ~(x.attempt < MaxAttempts)
  BY <1>1, <1>4, IdleOK DEF Drifted
<1> QED BY <1>3, <1>4

LEMMA WriteStep ==
    ASSUME PlaneInv, NEW w \in Indexers, Write(w)
    PROVE  Attempts(w)
<1>1. PICK x : x = indexers[w]
  OBVIOUS
<1> DEFINE y == [x EXCEPT !.pc = "validate"]
<1>2. /\ AttemptOK(x) /\ x.pc = "write" /\ git' = git
      /\ indexers' = [indexers EXCEPT ![w] = IF Stable(w) THEN y ELSE Drifted(w)]
  <2>1. AttemptOK(x)
    BY <1>1 DEF PlaneInv
  <2> QED BY <1>1, <2>1 DEF Write, outside, PlaneInv
<1>3. /\ y.pc = "validate" /\ y.attempt = x.attempt /\ y.git = x.git /\ y.files = x.files
      /\ y.todo = x.todo /\ y.keys = x.keys /\ y.provenance = x.provenance
      /\ AttemptShape(y)
  BY <1>2 DEF AttemptOK, AttemptShape, Fields
<1> HIDE DEF y
<1>4. \A e : Resolution(x, e) => Resolution(y, e)
  BY <1>2, <1>3 DEF Resolution, KeyOK, BlamedAt
<1>5. Prepares(y)
  BY <1>2, <1>3, <1>4 DEF AttemptOK, Working, Prepares
<1>6. AttemptOK(y)
  BY <1>2, <1>3, <1>5 DEF AttemptOK, Working
<1>7. AttemptOK(Drifted(w))
  BY DriftedOK
<1> QED BY <1>2, <1>6, <1>7 DEF Attempts

(* The depth that was recorded is still that of the clone, hence also that   *)
(* of every attribution in between.                                          *)
LEMMA ValidateStep ==
    ASSUME PlaneInv, NEW w \in Indexers, Validate(w)
    PROVE  Attempts(w)
<1>1. PICK x : x = indexers[w]
  OBVIOUS
<1> DEFINE y == [x EXCEPT !.pc = "commit"]
<1>2. /\ AttemptOK(x) /\ x.pc = "validate" /\ git' = git
      /\ indexers' = [indexers EXCEPT ![w] = IF Stable(w) THEN y ELSE Drifted(w)]
  <2>1. AttemptOK(x)
    BY <1>1 DEF PlaneInv
  <2> QED BY <1>1, <2>1 DEF Validate, outside, PlaneInv
<1>3. /\ y.pc = "commit" /\ y.attempt = x.attempt /\ y.git = x.git /\ y.files = x.files
      /\ y.todo = x.todo /\ y.keys = x.keys /\ y.provenance = x.provenance
      /\ AttemptShape(y)
  BY <1>2 DEF AttemptOK, AttemptShape, Fields
<1> HIDE DEF y
<1>4. CASE Stable(w)
  <2>1. git.shallow = x.git.shallow
    BY <1>1, <1>4 DEF Stable
  <2>2. x.git.shallow \in BOOLEAN
    BY <1>2 DEF AttemptOK, Working, Prepares, Since, GitStates
  <2>3. ASSUME NEW e, NEW shallow \in BOOLEAN, NEW conversion,
               BlamedAt(x, e, shallow, conversion)
        PROVE  BlamedAt(y, e, shallow, conversion)
    <3>1. shallow = x.git.shallow
      BY <2>1, <2>2, <2>3 DEF BlamedAt
    <3> QED BY <1>3, <2>3, <3>1 DEF BlamedAt
  <2>4. ASSUME NEW e, Resolution(x, e) PROVE Resolution(y, e)
    BY <1>3, <2>3, <2>4 DEF Resolution, KeyOK
  <2>5. Prepares(y)
    BY <1>2, <1>3, <2>4 DEF AttemptOK, Working, Prepares
  <2>6. AttemptOK(y)
    BY <1>2, <1>3, <2>5 DEF AttemptOK, Working
  <2> QED BY <1>2, <1>4, <2>6 DEF Attempts
<1>5. CASE ~Stable(w)
  BY <1>2, <1>5, DriftedOK DEF Attempts
<1> QED BY <1>4, <1>5

-----------------------------------------------------------------------------
(* The commit.                                                               *)

(* What an attempt that commits has prepared.                                *)
LEMMA Committing ==
    ASSUME PlaneInv, NEW w \in Indexers, indexers[w].pc = "commit",
           NEW x, x = indexers[w]
    PROVE  /\ x.git \in GitStates /\ x.files \in [Docs -> Contents \cup {None}]
           /\ \A d \in Docs : IF x.files[d] = None THEN x.keys[d] = None ELSE Resolution(x, d)
<1>1. AttemptOK(x)
  BY DEF PlaneInv
<1>2. Prepares(x) /\ x.todo = {}
  BY <1>1 DEF AttemptOK, Working
<1> QED BY <1>2 DEF Prepares, Since

(* With the conversion still the one of the keys, a document that resolved   *)
(* has the attribution of the recorded state, and of its key.                *)
LEMMA CommittedAttribution ==
    ASSUME PlaneInv, NEW w \in Indexers, indexers[w].pc = "commit", ConversionStable(w),
           NEW x, x = indexers[w], NEW d \in Docs, x.files[d] # None,
           Tracked(x.git.head, x.git.index, d), x.provenance[d] # Failed
    PROVE  /\ x.provenance[d] = Attribution(x.git.head, x.git.shallow, git.conversion,
                                            d, x.files[d])
           /\ x.provenance[d] = Determined(x.keys[d])
<1>1. Resolution(x, d)
  BY Committing
<1>2. KeyOK(x.keys[d], x, d)
  BY <1>1 DEF Resolution
<1>3. PICK shallow \in BOOLEAN, conversion \in 0 .. git.conversion :
           BlamedAt(x, d, shallow, conversion)
  BY <1>1 DEF Resolution
<1>4. shallow = x.git.shallow
  BY <1>3 DEF BlamedAt
<1>5. x.keys[d] # None
  BY <1>2, DocsPlaneAssumption DEF KeyOK
<1>6. x.keys[d].conversion = git.conversion
  BY <1>5 DEF ConversionStable
<1>7. conversion = git.conversion
  <2>1. git.conversion \in Nat
    BY DEF PlaneInv, GitOK, GitStates
  <2> QED BY <1>3, <1>6, <2>1 DEF BlamedAt
<1>8. x.provenance[d] = Attribution(x.git.head, x.git.shallow, git.conversion, d, x.files[d])
  BY <1>3, <1>4, <1>7 DEF BlamedAt
<1>9. Determined(x.keys[d]) = Attribution(x.git.head, x.git.shallow, git.conversion,
                                          d, x.files[d])
  BY <1>2, <1>6 DEF Determined, Attribution, KeyOK
<1> QED BY <1>8, <1>9

(* The rows: exactly the documents that were read, an unchanged one in its   *)
(* own row unless everything is numbered anew.                               *)
LEMMA RowsAre ==
    ASSUME PlaneInv, NEW w \in Indexers, indexers[w].pc = "commit",
           NEW x, x = indexers[w], NEW pub, pub = Rows(w)
    PROVE  /\ pub = [d \in Docs |-> pub[d]]
           /\ \A d \in Docs : x.files[d] = None => pub[d] = None
           /\ \A d \in Indexed(pub) : /\ x.files[d] \in Contents \ {None}
                                      /\ pub[d].content = x.files[d]
                                      /\ pub[d].provenance = x.provenance[d]
           /\ \A d \in Indexed(pub) \cap Kept(w) : pub[d].chunk = published[d].chunk
<1> DEFINE ids == Numbered(w)
<1>1. x.files \in [Docs -> Contents \cup {None}]
  BY Committing
<1>2. /\ Kept(w) \subseteq {d \in Docs : x.files[d] # None}
      /\ \A d \in Kept(w) : published[d].content \in Contents \ {None}
  BY DEF Kept, Indexed, PlaneInv, PublishedOK
<1>3. DOMAIN ids = {d \in Docs : x.files[d] # None}
  BY <1>2 DEF Numbered
<1>4. \A d \in Kept(w) : ids[d] = published[d].chunk
  BY <1>2 DEF Numbered
<1>5. pub = [d \in Docs |-> IF d \in DOMAIN ids
                            THEN [chunk |-> ids[d], content |-> x.files[d],
                                  provenance |-> x.provenance[d]]
                            ELSE None]
  BY DEF Rows
<1> HIDE DEF ids
<1> QED BY <1>1, <1>2, <1>3, <1>4, <1>5 DEF Indexed

(* The vectors depend on the chunks and the contents alone.                  *)
LEMMA SameVectors ==
    ASSUME NEW p, NEW q, Indexed(p) = Indexed(q),
           \A d \in Indexed(p) : p[d].chunk = q[d].chunk /\ p[d].content = q[d].content
    PROVE  Vectors(p) = Vectors(q) /\ (Complete(p) => Complete(q))
<1>1. {p[d].chunk : d \in Indexed(p)} = {q[d].chunk : d \in Indexed(q)}
  OBVIOUS
<1>2. ASSUME NEW c \in {p[d].chunk : d \in Indexed(p)}
      PROVE  p[CHOOSE d \in Indexed(p) : p[d].chunk = c].content
               = q[CHOOSE d \in Indexed(q) : q[d].chunk = c].content
  <2>1. (CHOOSE d \in Indexed(p) : p[d].chunk = c) = (CHOOSE d \in Indexed(q) : q[d].chunk = c)
    OBVIOUS
  <2>2. (CHOOSE d \in Indexed(p) : p[d].chunk = c) \in Indexed(p)
    OBVIOUS
  <2> QED BY <2>1, <2>2
<1>3. Vectors(p) = Vectors(q)
  <2> DEFINE A == {p[d].chunk : d \in Indexed(p)}
             B == {q[d].chunk : d \in Indexed(q)}
             F(c) == p[CHOOSE d \in Indexed(p) : p[d].chunk = c].content
             G(c) == q[CHOOSE d \in Indexed(q) : q[d].chunk = c].content
  <2>1. Vectors(p) = [c \in A |-> F(c)] /\ Vectors(q) = [c \in B |-> G(c)]
    BY DEF Vectors
  <2>2. A = B /\ \A c \in A : F(c) = G(c)
    BY <1>1, <1>2
  <2> HIDE DEF A, B, F, G
  <2>3. [c \in A |-> F(c)] = [c \in B |-> G(c)]
    BY <2>2
  <2> QED BY <2>1, <2>3
<1>4. Complete(p) => Complete(q)
  BY DEF Complete
<1> QED BY <1>3, <1>4

(* A publication that keeps the digest keeps every document and its row.     *)
LEMMA KeptDigest ==
    ASSUME PlaneInv, NEW w \in Indexers, indexers[w].pc = "commit", ~indexers[w].full,
           NEW pub, pub = Rows(w), Digest(pub) = Digest(published)
    PROVE  Vectors(published) = Vectors(pub) /\ (Complete(published) => Complete(pub))
<1>1. PICK x : x = indexers[w]
  OBVIOUS
<1>2. /\ \A d \in Indexed(pub) : /\ x.files[d] \in Contents \ {None}
                                 /\ pub[d].content = x.files[d]
      /\ \A d \in Indexed(pub) \cap Kept(w) : pub[d].chunk = published[d].chunk
  BY <1>1, RowsAre
<1>3. \A d \in Indexed(published) : published[d].content \in Contents \ {None}
  BY DEF PlaneInv, PublishedOK
<1>4. \A d \in Docs : (IF pub[d] = None THEN None ELSE pub[d].content)
                      = (IF published[d] = None THEN None ELSE published[d].content)
  <2>1. \A d \in Docs : Digest(pub)[d] = Digest(published)[d]
    OBVIOUS
  <2> QED BY <2>1 DEF Digest
<1>5. Indexed(pub) = Indexed(published)
  BY <1>2, <1>3, <1>4 DEF Indexed
<1>6. \A d \in Indexed(published) : published[d].content = pub[d].content
  BY <1>4, <1>5 DEF Indexed
<1>7. Indexed(published) \subseteq Kept(w)
  BY <1>1, <1>2, <1>5, <1>6 DEF Kept
<1> QED BY <1>2, <1>5, <1>6, <1>7, SameVectors

LEMMA CommitStep ==
    ASSUME PlaneInv, NEW w \in Indexers, Commit(w), ConversionStable(w)
    PROVE  (PublishedOK /\ BlamesOK /\ GenerationExact)'
<1>1. PICK x : x = indexers[w]
  OBVIOUS
<1>2. PICK pub : pub = Rows(w)
  OBVIOUS
<1> DEFINE resets == x.full \/ Digest(pub) # Digest(published)
           keeps == ~resets /\ (ReadyAlone(pub) \/ ~profile)
<1>3. /\ x.pc = "commit" /\ cache' = cache
      /\ published' = pub
      /\ basis' = [x.git EXCEPT !.conversion = git.conversion]
      /\ blames' = Attributed(w)
      /\ generation' = IF keeps THEN generation ELSE RebuiltGeneration(pub)
      /\ entries' = IF keeps THEN entries ELSE RebuiltEntries(pub)
  BY <1>1, <1>2 DEF Commit
<1>4. /\ x.git \in GitStates
      /\ \A d \in Docs : IF x.files[d] = None THEN x.keys[d] = None ELSE Resolution(x, d)
  BY <1>1, <1>3, Committing
<1>5. /\ pub = [d \in Docs |-> pub[d]]
      /\ \A d \in Docs : x.files[d] = None => pub[d] = None
      /\ \A d \in Indexed(pub) : /\ x.files[d] \in Contents \ {None}
                                 /\ pub[d].content = x.files[d]
                                 /\ pub[d].provenance = x.provenance[d]
  BY <1>1, <1>2, <1>3, RowsAre
<1>6. /\ basis'.head = x.git.head /\ basis'.index = x.git.index
      /\ basis'.shallow = x.git.shallow /\ basis'.conversion = git.conversion
      /\ basis' # None
  <2>1. git.conversion \in Nat
    BY DEF PlaneInv, GitOK, GitStates
  <2>2. basis' \in GitStates
    BY <1>3, <1>4, <2>1 DEF GitStates
  <2>3. basis' # None
    BY <2>2, DocsPlaneAssumption
  <2> QED BY <1>3, <1>4, <2>3 DEF GitStates
<1>7. PublishedOK'
  <2>1. ASSUME NEW d \in Indexed(pub)
        PROVE  x.provenance[d] \in
                 {Failed, IF Tracked(x.git.head, x.git.index, d)
                          THEN Attribution(x.git.head, x.git.shallow, git.conversion,
                                           d, x.files[d])
                          ELSE Unknown}
    <3>1. d \in Docs /\ x.files[d] # None
      BY <1>5 DEF Indexed
    <3>2. CASE Tracked(x.git.head, x.git.index, d)
      BY <1>1, <1>3, <3>1, <3>2, CommittedAttribution
    <3>3. CASE ~Tracked(x.git.head, x.git.index, d)
      BY <1>4, <3>1, <3>3 DEF Resolution
    <3> QED BY <3>2, <3>3
  <2> QED BY <1>3, <1>5, <1>6, <2>1 DEF PublishedOK, Indexed, Tracked, Attribution
<1>8. BlamesOK'
  <2>1. blames' = [d \in Docs |->
          IF x.keys[d] = None \/ x.provenance[d].status # "resolved" THEN None
          ELSE [key |-> x.keys[d], attribution |-> x.provenance[d]]]
    BY <1>1, <1>3 DEF Attributed
  <2>2. ASSUME NEW d \in Docs, x.keys[d] # None, x.provenance[d].status = "resolved"
        PROVE  x.provenance[d] = Determined(x.keys[d])
    <3>1. x.files[d] # None /\ Resolution(x, d)
      BY <1>4, <2>2
    <3>2. Tracked(x.git.head, x.git.index, d)
      BY <2>2, <3>1 DEF Resolution
    <3>3. x.provenance[d] # Failed
      BY <2>2 DEF Failed
    <3> QED BY <1>1, <1>3, <3>1, <3>2, <3>3, CommittedAttribution
  <2>3. ASSUME NEW d \in Docs, blames'[d] # None
        PROVE  blames'[d].attribution = Determined(blames'[d].key)
    BY <2>1, <2>2, <2>3
  <2> QED BY <2>1, <2>3 DEF BlamesOK, Determined
<1>9. GenerationExact'
  <2>1. CASE keeps
    <3>1. Digest(pub) = Digest(published) /\ ~x.full
      BY <2>1
    <3>2. Vectors(published) = Vectors(pub) /\ (Complete(published) => Complete(pub))
      BY <1>1, <1>2, <1>3, <3>1, KeptDigest
    <3>3. generation' = generation /\ entries' = entries
      BY <1>3, <2>1
    <3>4. generation' # None => /\ generation' = Digest(pub) /\ entries' = Vectors(pub)
                                /\ Complete(pub)
      BY <3>1, <3>2, <3>3 DEF PlaneInv, GenerationExact
    <3> QED BY <1>3, <3>4 DEF GenerationExact, Digest, Vectors, Complete, Indexed
  <2>2. CASE ~keeps
    <3>1. generation' = RebuiltGeneration(pub) /\ entries' = RebuiltEntries(pub)
      BY <1>3, <2>2
    <3>2. generation' # None => /\ generation' = Digest(pub) /\ entries' = Vectors(pub)
                                /\ Complete(pub)
      BY <3>1 DEF RebuiltGeneration, RebuiltEntries
    <3> QED BY <1>3, <3>2 DEF GenerationExact, Digest, Vectors, Complete, Indexed
  <2> QED BY <2>1, <2>2
<1> QED BY <1>7, <1>8, <1>9

-----------------------------------------------------------------------------
(* The steps.                                                                *)

(* The generation rests as long as the publication does.                     *)
LEMMA GenerationRests ==
    ASSUME GenerationExact, UNCHANGED <<published, generation, entries>>, cache \subseteq cache'
    PROVE  GenerationExact'
BY DEF GenerationExact, Digest, Vectors, Complete, Indexed

(* Attempts that rest while Git moves on.                                    *)
LEMMA AttemptsRest ==
    ASSUME PlaneInv, MovesOn, UNCHANGED indexers
    PROVE  \A v \in Indexers : AttemptOK(indexers[v])'
<1>1. ASSUME NEW v \in Indexers, NEW x, x = indexers'[v]
      PROVE  AttemptOK(x)'
  <2>1. AttemptOK(x)
    BY <1>1 DEF PlaneInv
  <2> QED BY <2>1, AttemptMovesOn DEF PlaneInv
<1> QED BY <1>1, SMTT(60) DEF AttemptOK, AttemptShape, Prepares, Since, Resolution, KeyOK, BlamedAt

(* What of the plane an indexer's preparation leaves alone.                  *)
LEMMA PreparationKeeps ==
    ASSUME PlaneInv, NEW w \in Indexers, Attempts(w), UNCHANGED <<worktree, store, embedders>>
    PROVE  PlaneInv'
<1>1. GitOK'
  BY DEF PlaneInv, GitOK, Attempts
<1>2. /\ indexers' = [v \in Indexers |-> indexers'[v]]
      /\ \A v \in Indexers : AttemptOK(indexers[v])'
  BY OneAttempt DEF Attempts
<1>3. PublishedOK' /\ BlamesOK'
  BY DEF PlaneInv, PublishedOK, BlamesOK, Indexed, Determined, Tracked, Attribution, store
<1>4. GenerationExact'
  BY GenerationRests DEF PlaneInv, store
<1>5. \A e \in Embedders : EmbedderOK(embedders[e])'
  BY DEF PlaneInv, EmbedderOK
<1> QED BY <1>1, <1>2, <1>3, <1>4, <1>5 DEF PlaneInv, store

(* A drift at the commit, and a failure.                                     *)
LEMMA CommitDrifts ==
    ASSUME PlaneInv, NEW w \in Indexers, Commit(w), ~ConversionStable(w)
    PROVE  PlaneInv'
<1>1. indexers' = [indexers EXCEPT ![w] = Drifted(w)]
  BY DEF Commit
<1>2. UNCHANGED <<git, worktree, store, embedders>>
  BY DEF Commit, outside, store
<1>3. Attempts(w)
  BY <1>1, <1>2, DriftedOK DEF Attempts
<1> QED BY <1>2, <1>3, PreparationKeeps

LEMMA CommitKeeps ==
    ASSUME PlaneInv, NEW w \in Indexers, Commit(w), ConversionStable(w)
    PROVE  PlaneInv'
<1>1. /\ indexers' = [indexers EXCEPT ![w] = Idle]
      /\ UNCHANGED <<git, worktree, profile, cache, embedders>>
  BY DEF Commit, outside
<1>2. /\ indexers' = [v \in Indexers |-> indexers'[v]]
      /\ \A v \in Indexers : AttemptOK(indexers[v])'
  BY <1>1, IdleOK, OneAttempt
<1>3. PublishedOK' /\ BlamesOK' /\ GenerationExact'
  BY CommitStep
<1>4. GitOK' /\ \A e \in Embedders : EmbedderOK(embedders[e])'
  BY <1>1 DEF PlaneInv, EmbedderOK, GitOK
<1> QED BY <1>1, <1>2, <1>3, <1>4 DEF PlaneInv

(* Git and the worktree move by themselves.                                  *)
LEMMA OutsideKeeps ==
    ASSUME PlaneInv, MovesOn, worktree' \in [Docs -> Contents \cup {None}],
           UNCHANGED <<indexers, store, embedders>>
    PROVE  PlaneInv'
<1>2. \A v \in Indexers : AttemptOK(indexers[v])'
  BY AttemptsRest
<1>3. PublishedOK' /\ BlamesOK'
  BY DEF PlaneInv, PublishedOK, BlamesOK, Indexed, Determined, Tracked, Attribution, store
<1>4. GenerationExact'
  BY GenerationRests DEF PlaneInv, store
<1>5. \A e \in Embedders : EmbedderOK(embedders[e])'
  BY DEF PlaneInv, EmbedderOK
<1> QED BY <1>2, <1>3, <1>4, <1>5 DEF PlaneInv, GitOK, MovesOn, store

LEMMA MoveStep ==
    ASSUME PlaneInv, Move
    PROVE  MovesOn
<1>1. git \in GitStates
  BY DEF PlaneInv, GitOK
<1>2. CASE \E h \in Heads \ {git.head} : git' = [git EXCEPT !.head = h]
  BY <1>1, <1>2 DEF MovesOn, GitStates
<1>3. CASE \E d \in Docs : git' = [git EXCEPT !.index = IF d \in @ THEN @ \ {d} ELSE @ \cup {d}]
  BY <1>1, <1>3 DEF MovesOn, GitStates
<1>4. CASE git.shallow /\ git' = [git EXCEPT !.shallow = FALSE]
  <2>1. /\ git'.shallow = FALSE /\ git' \in GitStates
        /\ git'.conversion = git.conversion /\ git.conversion \in Nat
    BY <1>1, <1>4 DEF GitStates
  <2> QED BY <2>1 DEF MovesOn
<1>5. CASE git' = [git EXCEPT !.conversion = @ + 1]
  BY <1>1, <1>5 DEF MovesOn, GitStates
<1> QED BY <1>2, <1>3, <1>4, <1>5 DEF Move

(* A pass of an embedder goes on; the cache only grows.                      *)
LEMMA EmbedderKeeps ==
    ASSUME PlaneInv, NEW e \in Embedders,
           UNCHANGED <<git, worktree, indexers, published, basis, blames>>,
           NEW y, EmbedderOK(y), embedders' = [embedders EXCEPT ![e] = y],
           cache' \subseteq Contents, profile' \in BOOLEAN, GenerationExact'
    PROVE  PlaneInv'
<1>1. /\ embedders' = [f \in Embedders |-> embedders'[f]]
      /\ \A f \in Embedders : embedders'[f] = IF f = e THEN y ELSE embedders[f]
  BY DEF PlaneInv
<1>2. \A f \in Embedders : EmbedderOK(embedders'[f])
  BY <1>1 DEF PlaneInv
<1>3. \A f \in Embedders : EmbedderOK(embedders[f])'
  BY <1>2 DEF EmbedderOK
<1>4. MovesOn
  BY GitRests DEF PlaneInv
<1>5. \A v \in Indexers : AttemptOK(indexers[v])'
  BY <1>4, AttemptsRest
<1>6. PublishedOK' /\ BlamesOK' /\ GitOK'
  BY DEF PlaneInv, PublishedOK, BlamesOK, Indexed, Determined, Tracked, Attribution, GitOK
<1> QED BY <1>1, <1>3, <1>5, <1>6 DEF PlaneInv

LEMMA RestingOK == EmbedderOK(Resting)
BY DEF EmbedderOK, Resting

LEMMA EmbedStep ==
    ASSUME PlaneInv, NEW e \in Embedders, Embed(e) \/ AbortEmbed(e)
    PROVE  PlaneInv'
<1>1. PICK x : x = embedders[e]
  OBVIOUS
<1>2. EmbedderOK(x) /\ GenerationExact /\ cache \subseteq Contents /\ profile \in BOOLEAN
      /\ embedders = [f \in Embedders |-> embedders[f]]
  BY <1>1 DEF PlaneInv
<1>3. CASE StartEmbed(e)
  <2> DEFINE y == [Resting EXCEPT !.pc = "list", !.snapshot = Digest(published)]
  <2>1. EmbedderOK(y)
    BY DEF EmbedderOK, Resting
  <2>2. embedders' = [embedders EXCEPT ![e] = y]
        /\ UNCHANGED <<outside, store, indexers>>
    BY <1>3 DEF StartEmbed
  <2> HIDE DEF y
  <2> QED BY <1>2, <2>1, <2>2, GenerationRests, EmbedderKeeps DEF outside, store
<1>4. CASE ListDocuments(e)
  <2> DEFINE listed == {published[d].content : d \in Indexed(published)}
             todo == listed \ cache
             pc2 == IF todo = {} THEN "publish" ELSE "embed"
             y == [x EXCEPT !.pc = pc2, !.todo = todo]
  <2>1. embedders' = [embedders EXCEPT ![e] = IF NothingLeft(listed) THEN Resting ELSE y]
    BY <1>1, <1>4 DEF ListDocuments
  <2>5. pc2 \in {"publish", "embed"}
    OBVIOUS
  <2> HIDE DEF listed, todo, pc2
  <2>2. EmbedderOK(y)
    BY <1>2, <2>5 DEF EmbedderOK
  <2>3. UNCHANGED <<outside, store, indexers>>
    BY <1>4 DEF ListDocuments
  <2>4. embedders' = [embedders EXCEPT ![e] = y] \/ embedders' = [embedders EXCEPT ![e] = Resting]
    BY <2>1
  <2> HIDE DEF y
  <2> QED BY <1>2, <2>2, <2>3, <2>4, RestingOK, GenerationRests, EmbedderKeeps DEF outside, store
<1>5. ASSUME NEW content \in Contents, EmbedBatch(e, content)
      PROVE  PlaneInv'
  <2> DEFINE left == x.todo \ {content}
             pc2 == IF left = {} THEN "publish" ELSE "embed"
             y == [x EXCEPT !.todo = left, !.pc = pc2]
  <2>1. embedders' = [embedders EXCEPT ![e].todo = left, ![e].pc = pc2]
    BY <1>1, <1>5 DEF EmbedBatch
  <2>4. pc2 \in {"publish", "embed"}
    OBVIOUS
  <2> HIDE DEF left, pc2
  <2>2. EmbedderOK(y) /\ embedders' = [embedders EXCEPT ![e] = y]
    BY <1>1, <1>2, <2>1, <2>4 DEF EmbedderOK
  <2>3. /\ UNCHANGED <<outside, indexers, published, basis, blames, generation, entries>>
        /\ profile' = TRUE /\ cache' = cache \cup {content}
    BY <1>5 DEF EmbedBatch
  <2> HIDE DEF y
  <2> QED BY <1>2, <2>2, <2>3, GenerationRests, EmbedderKeeps DEF outside
<1>6. CASE PublishGeneration(e)
  <2>1. /\ UNCHANGED <<outside, indexers, published, basis, blames, profile, cache>>
        /\ embedders' = [embedders EXCEPT ![e] = Resting]
    BY <1>6 DEF PublishGeneration
  <2>2. GenerationExact'
    <3>1. CASE SnapshotCurrent(e) /\ Complete(published)
      <4>1. generation' = Digest(published) /\ entries' = Vectors(published)
        BY <1>6, <3>1 DEF PublishGeneration, SnapshotCurrent
      <4> QED BY <2>1, <3>1, <4>1 DEF GenerationExact, Digest, Vectors, Complete, Indexed
    <3>2. CASE ~(SnapshotCurrent(e) /\ Complete(published))
      BY <1>2, <1>6, <2>1, <3>2, GenerationRests DEF PublishGeneration
    <3> QED BY <3>1, <3>2
  <2> QED BY <1>2, <2>1, <2>2, RestingOK, EmbedderKeeps DEF outside
<1>7. CASE AbortEmbed(e)
  BY <1>2, <1>7, RestingOK, GenerationRests, EmbedderKeeps DEF AbortEmbed, outside, store
<1> QED BY <1>3, <1>4, <1>5, <1>6, <1>7 DEF Embed

LEMMA IndexStep ==
    ASSUME PlaneInv, NEW w \in Indexers,
           Index(w) \/ PrepareFails(w) \/ BlameFails(w) \/ AbortIndex(w)
    PROVE  PlaneInv'
<1>1. ASSUME NEW full \in BOOLEAN, Capture(w, full)
      PROVE  PlaneInv'
  BY <1>1, CaptureStep, PreparationKeeps DEF Capture, outside
<1>2. CASE Inventory(w)
  BY <1>2, InventoryStep, PreparationKeeps DEF Inventory, outside
<1>3. CASE PrepareDocument(w)
  BY <1>3, PrepareStep, PreparationKeeps DEF PrepareDocument, outside
<1>4. CASE BlameDocument(w)
  BY <1>4, BlameStep, PreparationKeeps DEF BlameDocument, outside
<1>5. CASE Write(w)
  BY <1>5, WriteStep, PreparationKeeps DEF Write, outside
<1>6. CASE Validate(w)
  BY <1>6, ValidateStep, PreparationKeeps DEF Validate, outside
<1>7. CASE Commit(w)
  BY <1>7, CommitDrifts, CommitKeeps
<1>8. CASE BlameFails(w)
  BY <1>8, BlameFailsStep, PreparationKeeps DEF BlameFails, outside
<1>9. CASE AbortIndex(w)
  <2>1. Attempts(w)
    BY <1>9, IdleOK DEF AbortIndex, Attempts, outside
  <2> QED BY <1>9, <2>1, PreparationKeeps DEF AbortIndex, outside
<1>10. CASE PrepareFails(w)
  BY <1>10, PrepareFailsStep, PreparationKeeps DEF PrepareFails, outside
<1> QED BY <1>1, <1>2, <1>3, <1>4, <1>5, <1>6, <1>7, <1>8, <1>9, <1>10 DEF Index

LEMMA InitPlane == Init => PlaneInv
<1> SUFFICES ASSUME Init PROVE PlaneInv
  OBVIOUS
<1>1. GitOK /\ worktree \in [Docs -> Contents \cup {None}]
  BY DocsPlaneAssumption DEF Init, GitOK, GitStates
<1>2. indexers = [w \in Indexers |-> indexers[w]] /\ \A w \in Indexers : AttemptOK(indexers[w])
  BY IdleOK DEF Init
<1>3. embedders = [e \in Embedders |-> embedders[e]]
      /\ \A e \in Embedders : EmbedderOK(embedders[e])
  BY RestingOK DEF Init
<1>4. PublishedOK /\ BlamesOK /\ GenerationExact
  BY DEF Init, PublishedOK, BlamesOK, GenerationExact, Indexed
<1> QED BY <1>1, <1>2, <1>3, <1>4 DEF Init, PlaneInv

LEMMA NextPlane == PlaneInv /\ [Next]_vars => PlaneInv'
<1> SUFFICES ASSUME PlaneInv, [Next]_vars PROVE PlaneInv'
  OBVIOUS
<1>1. CASE Move
  <2>1. worktree' \in [Docs -> Contents \cup {None}] /\ UNCHANGED <<indexers, store, embedders>>
    BY <1>1 DEF Move, PlaneInv
  <2> QED BY <1>1, <2>1, MoveStep, OutsideKeeps
<1>2. ASSUME NEW d \in Docs, NEW content \in Contents \cup {None}, Edit(d, content)
      PROVE  PlaneInv'
  <2>1. worktree' \in [Docs -> Contents \cup {None}] /\ UNCHANGED <<git, indexers, store, embedders>>
    BY <1>2 DEF Edit, PlaneInv
  <2>2. MovesOn
    BY <2>1, GitRests DEF PlaneInv
  <2> QED BY <2>1, <2>2, OutsideKeeps
<1>3. ASSUME NEW w \in Indexers,
           Index(w) \/ PrepareFails(w) \/ BlameFails(w) \/ AbortIndex(w)
      PROVE  PlaneInv'
  BY <1>3, IndexStep
<1>4. ASSUME NEW e \in Embedders, Embed(e) \/ AbortEmbed(e)
      PROVE  PlaneInv'
  BY <1>4, EmbedStep
<1>5. CASE UNCHANGED vars
  <2>1. worktree' \in [Docs -> Contents \cup {None}] /\ UNCHANGED <<git, indexers, store, embedders>>
    BY <1>5 DEF vars, store, PlaneInv
  <2>2. MovesOn
    BY <2>1, GitRests DEF PlaneInv
  <2> QED BY <2>1, <2>2, OutsideKeeps
<1> QED BY <1>1, <1>2, <1>3, <1>4, <1>5 DEF Next

-----------------------------------------------------------------------------
(* The theorems.                                                             *)

LEMMA PlaneHolds == Spec => []PlaneInv
<1>1. Init => PlaneInv
  BY InitPlane
<1>2. PlaneInv /\ [Next]_vars => PlaneInv'
  BY NextPlane
<1> QED BY <1>1, <1>2, PTL DEF Spec

LEMMA PlaneIsTyped == PlaneInv => TypeOK
<1> SUFFICES ASSUME PlaneInv PROVE TypeOK
  OBVIOUS
<1>1. git.head \in Heads /\ git.index \subseteq Docs
  BY DEF PlaneInv, GitOK, GitStates
<1>2. ASSUME NEW w \in Indexers
      PROVE  /\ indexers[w].attempt \in 0 .. MaxAttempts
             /\ indexers[w].pc \in {"idle", "retry", "inventory", "prepare", "blame",
                                    "write", "validate", "commit"}
  BY DEF PlaneInv, AttemptOK, Working
<1>3. \A e \in Embedders : embedders[e].pc \in {"idle", "list", "embed", "publish"}
  BY DEF PlaneInv, EmbedderOK
<1> QED BY <1>1, <1>2, <1>3 DEF TypeOK, PlaneInv, PublishedOK

(* Every document of a publication is attributed in one and the same state   *)
(* of the repository (prepare_document, validate_provenance_plan,            *)
(* index_repo_impl).                                                         *)
THEOREM EveryPublicationIsOneGitState == Spec => []OneGitState
<1>1. PlaneInv => OneGitState
  BY PlaneIsTyped DEF PlaneInv, PublishedOK, OneGitState
<1> QED BY <1>1, PlaneHolds, PTL

(* The generation is always that of the published documents and holds the    *)
(* vector of each (rebuild_profile_generation_from_cache,                    *)
(* materialize_current_generation).                                          *)
THEOREM GenerationIsExact == Spec => []GenerationExact
<1>1. PlaneInv => GenerationExact
  BY DEF PlaneInv
<1> QED BY <1>1, PlaneHolds, PTL

(* Publishing documents never takes search away when their vectors are       *)
(* cached, and leaves a ready generation alone when only provenance changed  *)
(* (publish_documents).                                                      *)
THEOREM DocsPublicationKeepsSearch == Spec => PublicationKeepsSearch
<1>1. ASSUME PlaneInv, [Next]_vars, published' # published
      PROVE  /\ profile /\ Complete(published)' => Ready'
             /\ (/\ Ready /\ Digest(published)' = Digest(published)
                 /\ \A w \in Indexers : indexers[w].pc = "commit" => ~indexers[w].full)
                   => UNCHANGED <<generation, entries>>
  <2>1. PICK w \in Indexers : Commit(w) /\ ConversionStable(w)
    <3>1. PICK w \in Indexers : Commit(w)
      BY <1>1 DEF Next, vars, store, Move, Edit, Index, PrepareFails, BlameFails, AbortIndex, Embed,
                  AbortEmbed,
                  Capture, Inventory, PrepareDocument, BlameDocument, Write, Validate,
                  StartEmbed, ListDocuments, PublishGeneration, EmbedBatch
    <3> QED BY <1>1, <3>1 DEF Commit
  <2>2. PICK pub : pub = Rows(w)
    OBVIOUS
  <2> DEFINE resets == indexers[w].full \/ Digest(pub) # Digest(published)
             keeps == ~resets /\ (ReadyAlone(pub) \/ ~profile)
  <2>3. /\ indexers[w].pc = "commit" /\ published' = pub /\ profile' = profile /\ cache' = cache
        /\ generation' = IF keeps THEN generation ELSE RebuiltGeneration(pub)
        /\ entries' = IF keeps THEN entries ELSE RebuiltEntries(pub)
    BY <2>1, <2>2 DEF Commit
  <2>4. Digest(pub) # None
    <3>1. /\ pub = [d \in Docs |-> pub[d]]
          /\ \A d \in Indexed(pub) : pub[d].content \in Contents
      BY <1>1, <2>2, <2>3, RowsAre
    <3>2. Digest(pub) \in [Docs -> Contents \cup {None}]
      BY <3>1 DEF Digest, Indexed
    <3> QED BY <3>2, DocsPlaneAssumption
  <2>5. ASSUME profile, Complete(published)'
        PROVE  generation' = Digest(pub)
    <3>1. Complete(pub)
      BY <2>3, <2>5 DEF Complete, Indexed
    <3>2. CASE keeps
      BY <2>3, <2>5, <3>2 DEF ReadyAlone
    <3>3. CASE ~keeps
      BY <2>3, <2>5, <3>1, <3>3 DEF RebuiltGeneration
    <3> QED BY <3>2, <3>3
  <2>6. Digest(published)' = Digest(pub)
    BY <2>3 DEF Digest
  <2>7. profile /\ Complete(published)' => Ready'
    BY <2>3, <2>4, <2>5, <2>6 DEF Ready
  <2>8. ASSUME Ready, Digest(published)' = Digest(published), ~indexers[w].full
        PROVE  generation' = generation /\ entries' = entries
    <3>1. keeps
      BY <2>6, <2>8 DEF Ready, ReadyAlone
    <3> QED BY <2>3, <3>1
  <2> QED BY <2>3, <2>7, <2>8
<1>2. PlaneInv /\ [Next]_vars =>
        [published' # published =>
           /\ profile /\ Complete(published)' => Ready'
           /\ (/\ Ready /\ Digest(published)' = Digest(published)
               /\ \A w \in Indexers : indexers[w].pc = "commit" => ~indexers[w].full)
                  => UNCHANGED <<generation, entries>>]_vars
  BY <1>1
<1> QED BY <1>2, PlaneHolds, PTL DEF Spec, PublicationKeepsSearch
=============================================================================
