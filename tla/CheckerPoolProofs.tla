-------------------------- MODULE CheckerPoolProofs --------------------------
(***************************************************************************)
(* A cancellation stops a checker enrichment promptly, and only one that   *)
(* was asked for ends a pass: for any number of workers, projects,         *)
(* requests, passes, interrupts and failures.                              *)
(*                                                                         *)
(* The flags are only raised within a scope, so each part says what a      *)
(* raised or a lowered flag implies: a worker about to claim read them     *)
(* lowered and has taken nothing since; a doomed pass finds one raised     *)
(* when it seals its pool; a Ctrl-C that was survived left its flag.  Each *)
(* way a pass or a job may be found canceled is traced back to a flag or a *)
(* checker that was told, and each failed job to a fault of its own.       *)
(***************************************************************************)
EXTENDS CheckerPool, SequenceTheorems, FiniteSetTheorems, TLAPS

Flags == [interrupt : BOOLEAN, operation : BOOLEAN, delivered : BOOLEAN]

Shape ==
    /\ flags \in Flags
    /\ pressed \in Nat
    /\ overdue \in [Workers -> Nat]
    /\ DOMAIN workers = Workers

(* A worker takes one job late at most, and one about to take a job none.    *)
TakesOne ==
    \A w \in Workers :
        /\ overdue[w] <= 1
        /\ ~Pending => overdue[w] = 0
        /\ workers[w].pc = "claim" => overdue[w] = 0

(* A pass doomed in its pool has not published; only its end publishes.      *)
NothingPublished ==
    /\ doomed => /\ Pending
                 /\ stage \in {"plan", "prepare", "pool", "done"}
                 /\ outcome \notin {"partial", "published"}
    /\ outcome \in {"partial", "published"} => stage = "done"

(* A program that survived a Ctrl-C of this scope remembers it.              *)
Remembers == Running => /\ pressed <= 1
                        /\ pressed = 1 => flags.interrupt

PoolInv == Shape /\ TakesOne /\ NothingPublished /\ Remembers

-----------------------------------------------------------------------------
LEMMA InitInv == Init => PoolInv
  BY PoolAssumption DEF PoolAssumption, Init, PoolInv, Shape, TakesOne,
         NothingPublished, Remembers, Running, Unset, Flags, Pending, Off

(* Steps of the workers and of the checkers leave the flags alone.           *)
LEMMA CheckKeeps == ASSUME PoolInv, NEW w \in Workers, Check(w) PROVE PoolInv'
  <1> USE DEF PoolInv, Shape, Check, WorkerRests, Becomes, cancelVars
  <1>1. Shape'
    OBVIOUS
  <1>2. TakesOne'
    BY DEF TakesOne, Pending
  <1>3. NothingPublished' /\ Remembers'
    BY DEF NothingPublished, Remembers, Running, Pending
  <1> QED BY <1>1, <1>2, <1>3

LEMMA ClaimKeeps == ASSUME PoolInv, NEW w \in Workers, Claim(w) PROVE PoolInv'
  <1> USE DEF PoolInv, Shape, Claim, WorkerRests, Becomes, cancelVars
  <1>1. Shape'
    OBVIOUS
  <1>2. TakesOne'
    BY DEF TakesOne, Pending
  <1>3. NothingPublished' /\ Remembers'
    BY DEF NothingPublished, Remembers, Running, Pending
  <1> QED BY <1>1, <1>2, <1>3

LEMMA FinishKeeps == ASSUME PoolInv, NEW w \in Workers, Finish(w) PROVE PoolInv'
  <1> USE DEF PoolInv, Shape, Finish, Give, WorkerRests, Becomes, cancelVars
  <1>1. Shape'
    OBVIOUS
  <1>2. TakesOne'
    BY DEF TakesOne, Pending
  <1>3. NothingPublished' /\ Remembers'
    BY DEF NothingPublished, Remembers, Running, Pending
  <1> QED BY <1>1, <1>2, <1>3

LEMMA RequestKeeps == ASSUME PoolInv, NEW s \in Slots, Send(s) \/ Answer(s) PROVE PoolInv'
  BY DEF PoolInv, Shape, Send, Answer, TakesOne, NothingPublished, Remembers, Running,
         Pending, cancelVars, poolVars, historyVars

-----------------------------------------------------------------------------
(* The coordinator: a scope begins with every flag lowered, and a pool is    *)
(* sealed for publication only while they are.                               *)
LEMMA BeginKeeps == ASSUME PoolInv, BeginScope PROVE PoolInv'
  <1> USE DEF PoolInv, Shape, BeginScope, ForgetFlags, Unset, poolVars, Flags
  <1>1. Shape' /\ TakesOne'
    BY DEF TakesOne, Pending
  <1>2. NothingPublished' /\ Remembers'
    BY DEF NothingPublished, Remembers, Running, Pending
  <1> QED BY <1>1, <1>2

LEMMA CoordinatorKeeps ==
    ASSUME PoolInv, PlannerFails \/ Planned \/ Prepare \/ Receive \/ Seal \/ Publish
    PROVE  PoolInv'
  <1> USE DEF PoolInv, Shape, EnrichRests, cancelVars, historyVars, poolVars
  <1>1. flags' = flags /\ pressed' = pressed /\ overdue' = overdue /\ doomed' = doomed
          /\ process' = process
    BY DEF PlannerFails, Planned, Prepare, Receive, Seal, Publish
  <1>2. DOMAIN workers' = Workers
    BY DEF PlannerFails, Planned, Prepare, Receive, Seal, Publish
  <1>3. \A w \in Workers : workers'[w].pc = "claim" => workers[w].pc = "claim"
    BY DEF PlannerFails, Planned, Prepare, Receive, Seal, Publish, Off
  <1>4. Shape' /\ Remembers'
    BY <1>1, <1>2 DEF Remembers, Running
  <1>5. TakesOne'
    BY <1>1, <1>3 DEF TakesOne, Pending
  <1>6. NothingPublished'
    <2>1. CASE PlannerFails
      BY <1>1, <2>1 DEF NothingPublished, Pending, PlannerFails, PassEnds
    <2>2. CASE Planned
      BY <1>1, <2>2 DEF NothingPublished, Pending, Planned
    <2>3. CASE Prepare
      BY <1>1, <2>3 DEF NothingPublished, Pending, Prepare, PassEnds
    <2>4. CASE Receive
      BY <1>1, <2>4 DEF NothingPublished, Pending, Receive
    <2>5. CASE Seal
      BY <1>1, <2>5 DEF NothingPublished, Pending, Seal, PassEnds
    <2>6. CASE Publish
      BY <1>1, <2>6 DEF NothingPublished, Pending, Publish, PassEnds
    <2> QED BY <2>1, <2>2, <2>3, <2>4, <2>5, <2>6
  <1> QED BY <1>4, <1>5, <1>6

-----------------------------------------------------------------------------
(* The threads that cancel only raise flags.                                 *)
LEMMA MonitorAsksKeeps == ASSUME PoolInv, MonitorAsks PROVE PoolInv'
  <1> USE DEF PoolInv, Shape, MonitorAsks, CancelRests, poolVars, Flags
  <1>1. flags' \in Flags /\ flags'.operation /\ flags'.interrupt = flags.interrupt
    OBVIOUS
  <1>2. Shape' /\ TakesOne'
    BY <1>1 DEF TakesOne, Pending
  <1>3. NothingPublished'
    BY <1>1 DEF NothingPublished, Dooms, Pending
  <1>4. Remembers'
    BY <1>1 DEF Remembers, Running
  <1> QED BY <1>2, <1>3, <1>4

LEMMA InterruptKeeps == ASSUME PoolInv, Interrupt PROVE PoolInv'
  <1> USE DEF PoolInv, Shape, Interrupt, CancelRests, poolVars, Flags
  <1>1. flags' \in Flags /\ flags'.interrupt
    OBVIOUS
  <1>2. Shape' /\ TakesOne'
    BY <1>1 DEF TakesOne, Pending
  <1>3. NothingPublished'
    BY <1>1 DEF NothingPublished, Dooms, Pending
  <1>4. Remembers'
    BY <1>1 DEF Remembers, Running
  <1> QED BY <1>2, <1>3, <1>4

LEMMA TellingKeeps ==
    ASSUME PoolInv, Supersede \/ MonitorLooks \/ MonitorTells \/ HandlerLooks \/ HandlerTells
    PROVE  PoolInv'
  <1> USE DEF PoolInv, Shape, CancelRests, poolVars, cancelVars, Flags
  <1>1. /\ flags' \in Flags
        /\ flags'.operation = flags.operation /\ flags'.interrupt = flags.interrupt
    BY DEF Supersede, MonitorLooks, MonitorTells, HandlerLooks, HandlerTells
  <1>2. /\ pressed' = pressed /\ overdue' = overdue /\ doomed' = doomed
        /\ workers' = workers /\ stage' = stage /\ outcome' = outcome
        /\ Running' => Running
    BY DEF Supersede, MonitorLooks, MonitorTells, HandlerLooks, HandlerTells, Running
  <1>3. Shape' /\ TakesOne'
    BY <1>1, <1>2 DEF TakesOne, Pending
  <1>4. NothingPublished' /\ Remembers'
    BY <1>1, <1>2 DEF NothingPublished, Remembers, Pending
  <1> QED BY <1>3, <1>4

LEMMA LoopKeeps == ASSUME PoolInv, StartPass \/ EndPass PROVE PoolInv'
  <1> USE DEF PoolInv, Shape, cancelVars, poolVars, Off
  <1>1. CASE StartPass
    BY <1>1 DEF StartPass, TakesOne, NothingPublished, Remembers, Running, Pending
  <1>2. CASE EndPass
    <2>1. Shape' /\ TakesOne'
      BY <1>2 DEF EndPass, TakesOne, Pending
    <2>2. Remembers'
      BY <1>2 DEF EndPass, Remembers, Running
    <2>3. NothingPublished'
      BY <1>2, PoolAssumption DEF PoolAssumption, EndPass, NothingPublished
    <2> QED BY <2>1, <2>2, <2>3
  <1> QED BY <1>1, <1>2

LEMMA StutterKeeps == ASSUME PoolInv, UNCHANGED vars PROVE PoolInv'
  BY DEF PoolInv, Shape, TakesOne, NothingPublished, Remembers, Running, Pending, vars,
         cancelVars, poolVars, historyVars

LEMMA StepKeeps == PoolInv /\ [Next]_vars => PoolInv'
  BY CheckKeeps, ClaimKeeps, FinishKeeps, RequestKeeps, BeginKeeps, CoordinatorKeeps,
     MonitorAsksKeeps, InterruptKeeps, TellingKeeps, LoopKeeps, StutterKeeps
     DEF Next, Coordinate, Work, Cancel, Over

(* A canceled enrichment takes at most the job each worker was about to      *)
(* take, publishes nothing once a cancel was pending before its results were *)
(* in, and a second Ctrl-C ends the program: jobs.rs and process.rs, for     *)
(* any number of workers and projects.                                       *)
THEOREM PoolStopsPromptly == Spec => []StopsPromptly
  <1>1. PoolInv => StopsPromptly
    BY DEF PoolInv, Shape, TakesOne, NothingPublished, Remembers, StopsPromptly
  <1> QED BY <1>1, InitInv, StepKeeps, PTL DEF Spec

-----------------------------------------------------------------------------
(* Only a pass that was asked to stop ends as canceled, and a project is     *)
(* recorded as failed only for a failure.  A cancel reaches a pass through   *)
(* the flags, a told checker, a canceled result or the outcome: each says    *)
(* that the pass was asked, because a scope begins with lowered flags and    *)
(* a pass with every checker of the last one closed.                         *)
Kinds == {"answered", "canceled", "failed", "panicked"}
Results == [job : 1 .. jobs, result : Kinds]
Thread == [pc : {"idle", "look", "tell"}, todo : SUBSET Slots, found : BOOLEAN]
Workings == [pc : {"off", "check", "claim", "work", "exit"}, job : {None} \cup 1 .. jobs]
Checkers == [live : BOOLEAN, active : BOOLEAN, told : BOOLEAN, left : 0 .. MaxRequests]

Shaped ==
    /\ flags \in Flags
    /\ process \in {"running", "stopped", "exited"}
    /\ stage \in {"idle", "begin", "plan", "prepare", "pool", "revalidate", "done"}
    /\ outcome \in {None, "canceled", "failed", "partial", "published"}
    /\ jobs \in Nat /\ next \in Nat \ {0} /\ faults \in Nat
    /\ checkers \in [Slots -> Checkers]
    /\ workers \in [Workers -> Workings]
    /\ marks \in [1 .. jobs -> {"queued", "staged", "failed"}]
    /\ results \in Seq(Results)
    /\ monitor \in Thread /\ handler \in Thread
    /\ superseded \in BOOLEAN /\ asked \in BOOLEAN

(* A worker has a checker while it works, the planner while it plans.        *)
Owners ==
    /\ \A w \in Workers :
          /\ checkers[w].live => workers[w].pc = "work"
          /\ workers[w].pc = "work" => workers[w].job \in 1 .. jobs
          /\ workers[w].pc # "off" => stage = "pool"
    /\ checkers[Planner].live => stage \in {"plan", "revalidate"}
    /\ \A s \in Slots : ~checkers[s].live => ~checkers[s].active /\ ~checkers[s].told

(* Nothing of a pass outlives it.                                            *)
Quiet ==
    /\ stage # "pool" => results = <<>>
    /\ outcome # None => stage \in {"pool", "done"}
    /\ stage = "idle" => ~superseded
    /\ monitor.pc # "idle" => superseded

Asking ==
    /\ superseded => asked
    /\ handler.pc # "idle" => asked
    /\ Pending => asked \/ stage \in {"idle", "begin"}
    /\ \A s \in Slots : checkers[s].told => asked
    /\ \A r \in Range(results) : r.result = "canceled" => asked
    /\ outcome = "canceled" => asked

(* The jobs whose failure is recorded or on its way to be.                   *)
FailedJobs ==
    {j \in 1 .. jobs : \/ marks[j] = "failed"
                       \/ [job |-> j, result |-> "failed"] \in Range(results)}
Counted == Cardinality(FailedJobs) <= faults

AskInv == Shaped /\ Owners /\ Quiet /\ Asking /\ Counted

(* What Append and Tail do to the elements of a channel.                     *)
LEMMA RangeOfAppend ==
    ASSUME NEW S, NEW q \in Seq(S), NEW e \in S
    PROVE  Append(q, e) \in Seq(S) /\ Range(Append(q, e)) = Range(q) \cup {e}
  <1>1. /\ Append(q, e) \in Seq(S)
        /\ Len(Append(q, e)) = Len(q) + 1
        /\ \A i \in 1 .. Len(q) : Append(q, e)[i] = q[i]
        /\ Append(q, e)[Len(q) + 1] = e
    BY AppendProperties
  <1>2. Len(q) \in Nat /\ DOMAIN q = 1 .. Len(q)
    OBVIOUS
  <1> DEFINE a == Append(q, e)
  <1>3. DOMAIN a = 1 .. Len(q) + 1
    BY <1>1
  <1> HIDE DEF a
  <1>4. \A i \in DOMAIN a : i = Len(q) + 1 \/ i \in DOMAIN q
    BY <1>2, <1>3
  <1>5. Len(q) + 1 \in DOMAIN a /\ \A i \in DOMAIN q : i \in DOMAIN a
    BY <1>2, <1>3
  <1>6. a[Len(q) + 1] = e /\ \A i \in DOMAIN q : a[i] = q[i]
    BY <1>1, <1>2 DEF a
  <1>7. Range(a) \subseteq Range(q) \cup {e}
    BY <1>4, <1>6 DEF Range
  <1>8. Range(q) \cup {e} \subseteq Range(a)
    BY <1>5, <1>6 DEF Range
  <1> QED
    BY <1>1, <1>7, <1>8 DEF a

LEMMA RangeOfTail ==
    ASSUME NEW S, NEW q \in Seq(S), q # <<>>
    PROVE  /\ Tail(q) \in Seq(S) /\ Range(Tail(q)) \subseteq Range(q)
           /\ Head(q) \in S /\ Head(q) \in Range(q)
  <1>1. /\ Tail(q) \in Seq(S)
        /\ Len(Tail(q)) = Len(q) - 1
        /\ \A i \in 1 .. Len(Tail(q)) : Tail(q)[i] = q[i + 1]
        /\ Head(q) \in S
    BY HeadTailProperties
  <1>2. Len(q) \in Nat /\ DOMAIN q = 1 .. Len(q) /\ Len(q) # 0 /\ Head(q) = q[1]
    BY EmptySeq
  <1>3. DOMAIN Tail(q) = 1 .. Len(Tail(q))
    BY <1>1
  <1> DEFINE t == Tail(q)
  <1>4. DOMAIN t = 1 .. Len(q) - 1 /\ \A i \in DOMAIN t : t[i] = q[i + 1]
    BY <1>1, <1>3
  <1> HIDE DEF t
  <1>5. \A i \in DOMAIN t : i + 1 \in DOMAIN q
    BY <1>2, <1>4
  <1>6. Range(t) \subseteq Range(q)
    BY <1>4, <1>5 DEF Range
  <1>7. Head(q) \in Range(q)
    BY <1>2 DEF Range
  <1> QED
    BY <1>1, <1>6, <1>7 DEF t

LEMMA NothingInRange == Range(<<>>) = {}
  BY DEF Range

(* Fewer failed jobs, or one more for a failure that was counted.            *)
LEMMA FailuresCounted ==
    ASSUME NEW n \in Nat, NEW F \in SUBSET (1 .. n), NEW m \in Nat,
           Cardinality(F) <= m
    PROVE  /\ \A G \in SUBSET F : Cardinality(G) <= m
           /\ \A j \in 1 .. n : \A G \in SUBSET (F \cup {j}) : Cardinality(G) <= m + 1
  <1>1. IsFiniteSet(1 .. n)
    BY FS_Interval
  <1>2. IsFiniteSet(F)
    BY <1>1, FS_Subset
  <1>3. Cardinality(F) \in Nat
    BY <1>2, FS_CardinalityType
  <1>4. ASSUME NEW G \in SUBSET F PROVE Cardinality(G) <= m
    <2>1. Cardinality(G) <= Cardinality(F) /\ IsFiniteSet(G)
      BY <1>2, FS_Subset
    <2>2. Cardinality(G) \in Nat
      BY <2>1, FS_CardinalityType
    <2> QED BY <1>3, <2>1, <2>2
  <1>5. ASSUME NEW j \in 1 .. n, NEW G \in SUBSET (F \cup {j})
        PROVE  Cardinality(G) <= m + 1
    <2>1. /\ IsFiniteSet(F \cup {j})
          /\ Cardinality(F \cup {j}) = Cardinality(F) \/ Cardinality(F \cup {j}) = Cardinality(F) + 1
      BY <1>2, FS_AddElement
    <2>2. Cardinality(G) <= Cardinality(F \cup {j}) /\ IsFiniteSet(G)
      BY <2>1, FS_Subset
    <2>3. Cardinality(G) \in Nat /\ Cardinality(F \cup {j}) \in Nat
      BY <2>1, <2>2, FS_CardinalityType
    <2> QED BY <1>3, <2>1, <2>2, <2>3
  <1> QED BY <1>4, <1>5

LEMMA FailuresFewer ==
    ASSUME Shaped, Counted, NEW G \in SUBSET FailedJobs, NEW m \in Nat, faults <= m
    PROVE  Cardinality(G) <= m
  <1>1. FailedJobs \in SUBSET (1 .. jobs) /\ jobs \in Nat /\ faults \in Nat
    BY DEF FailedJobs, Shaped
  <1>5. Cardinality(FailedJobs) <= faults
    BY DEF Counted
  <1>2. Cardinality(G) <= faults
    <2>1. ASSUME NEW F \in SUBSET (1 .. jobs), Cardinality(F) <= faults, G \in SUBSET F
          PROVE  Cardinality(G) <= faults
      BY <1>1, <2>1, FailuresCounted
    <2> QED BY <1>1, <1>5, <2>1
  <1>6. IsFiniteSet(1 .. jobs)
    BY <1>1, FS_Interval
  <1>3. IsFiniteSet(G)
    <2>1. G \in SUBSET (1 .. jobs)
      BY <1>1
    <2> QED BY <1>6, <2>1, FS_Subset
  <1>4. Cardinality(G) \in Nat
    BY <1>3, FS_CardinalityType
  <1> QED BY <1>1, <1>2, <1>4

LEMMA FailureMore ==
    ASSUME Shaped, Counted, NEW j \in 1 .. jobs, NEW G \in SUBSET (FailedJobs \cup {j})
    PROVE  Cardinality(G) <= faults + 1
  <1>1. FailedJobs \in SUBSET (1 .. jobs) /\ jobs \in Nat /\ faults \in Nat
    BY DEF FailedJobs, Shaped
  <1>2. Cardinality(FailedJobs) <= faults
    BY DEF Counted
  <1>3. ASSUME NEW F \in SUBSET (1 .. jobs), Cardinality(F) <= faults,
               G \in SUBSET (F \cup {j})
        PROVE  Cardinality(G) <= faults + 1
    BY <1>1, <1>3, FailuresCounted
  <1> QED BY <1>1, <1>2, <1>3

LEMMA InitAsks == Init => AskInv
  <1> SUFFICES ASSUME Init PROVE AskInv
    OBVIOUS
  <1>1. Shaped
    <2>1. Closed \in Checkers /\ Off \in Workings
      BY PoolAssumption DEF PoolAssumption, Checkers, Closed, Workings, Off
    <2>2. Unset \in Flags /\ Resting \in Thread
      BY DEF Unset, Flags, Resting, Thread
    <2>3. jobs = 0 /\ marks = <<>> /\ results = <<>> /\ next = 1
      BY DEF Init
    <2>4. <<>> \in [1 .. 0 -> {"queued", "staged", "failed"}] /\ <<>> \in Seq(Results)
      OBVIOUS
    <2>5. /\ checkers = [s \in Slots |-> Closed] /\ workers = [w \in Workers |-> Off]
          /\ flags = Unset /\ monitor = Resting /\ handler = Resting
      BY DEF Init
    <2>6. checkers \in [Slots -> Checkers] /\ workers \in [Workers -> Workings]
      BY <2>1, <2>5
    <2>7. marks \in [1 .. jobs -> {"queued", "staged", "failed"}] /\ results \in Seq(Results)
      BY <2>3, <2>4
    <2>8. /\ process = "running" /\ stage = "idle" /\ outcome = None /\ faults = 0
          /\ superseded = FALSE /\ asked = FALSE
      BY DEF Init
    <2>9. flags \in Flags /\ monitor \in Thread /\ handler \in Thread
      BY <2>2, <2>5
    <2>10. /\ process \in {"running", "stopped", "exited"}
           /\ stage \in {"idle", "begin", "plan", "prepare", "pool", "revalidate", "done"}
           /\ outcome \in {None, "canceled", "failed", "partial", "published"}
           /\ jobs \in Nat /\ next \in Nat \ {0} /\ faults \in Nat
      BY <2>3, <2>8
    <2>11. superseded \in BOOLEAN /\ asked \in BOOLEAN
      BY Zenon DEF Init
    <2> QED
      BY <2>6, <2>7, <2>9, <2>10, <2>11 DEF Shaped
  <1>2. Owners
    BY PoolAssumption DEF PoolAssumption, Init, Owners, Closed, Off, Slots
  <1>3. Quiet /\ Asking
    BY PoolAssumption, NothingInRange
    DEF PoolAssumption, Init, Quiet, Asking, Resting, Pending, Unset, Closed
  <1>4. FailedJobs = {}
    BY DEF Init, FailedJobs
  <1>5. Counted
    BY <1>4, FS_EmptySet DEF Counted, Init
  <1> QED BY <1>1, <1>2, <1>3, <1>5 DEF AskInv

(* What each operation on one checker leaves of it.                          *)
LEMMA CheckerSends ==
    ASSUME Shaped, NEW s \in Slots, Send(s)
    PROVE  \E c \in Checkers : /\ checkers' = [checkers EXCEPT ![s] = c]
                               /\ c.live = checkers[s].live /\ c.live /\ ~c.told
  <1> DEFINE c == [checkers[s] EXCEPT !.active = TRUE, !.told = FALSE, !.left = @ - 1]
  <1>1. checkers' = [checkers EXCEPT ![s] = c]
    BY DEF Send
  <1>2. checkers[s] \in Checkers /\ checkers[s].live /\ checkers[s].left > 0
    BY DEF Shaped, Send, Idle
  <1>3. checkers[s].left - 1 \in 0 .. MaxRequests
    <2>1. checkers[s].left \in 0 .. MaxRequests
      BY <1>2 DEF Checkers
    <2>2. MaxRequests \in Nat
      BY PoolAssumption DEF PoolAssumption
    <2> HIDE DEF c
    <2> QED BY <1>2, <2>1, <2>2
  <1>4. c \in Checkers /\ c.live = checkers[s].live /\ ~c.told
    BY <1>2, <1>3 DEF Checkers
  <1> HIDE DEF c
  <1> QED BY <1>1, <1>2, <1>4

LEMMA CheckerAnswers ==
    ASSUME Shaped, NEW s \in Slots, Answer(s)
    PROVE  \E c \in Checkers : /\ checkers' = [checkers EXCEPT ![s] = c]
                               /\ c.live = checkers[s].live /\ c.told = checkers[s].told
                               /\ ~c.active
  <1> DEFINE c == [checkers[s] EXCEPT !.active = FALSE]
  <1>1. checkers' = [checkers EXCEPT ![s] = c]
    BY DEF Answer
  <1>2. checkers[s] \in Checkers
    BY DEF Shaped
  <1>3. c \in Checkers /\ c.live = checkers[s].live /\ c.told = checkers[s].told /\ ~c.active
    BY <1>2 DEF Checkers
  <1> HIDE DEF c
  <1> QED BY <1>1, <1>3

LEMMA CheckerTold ==
    ASSUME Shaped, NEW s \in Slots, Tell(s)
    PROVE  \E c \in Checkers :
              /\ checkers' = [checkers EXCEPT ![s] = c]
              /\ c.live = checkers[s].live /\ c.active = checkers[s].active
              /\ c.told => checkers[s].told \/ checkers[s].active
  <1> DEFINE c == [checkers[s] EXCEPT !.told = @ \/ checkers[s].active]
  <1>1. checkers' = [checkers EXCEPT ![s] = c]
    BY DEF Tell
  <1>2. checkers[s] \in Checkers
    BY DEF Shaped
  <1>3. /\ c \in Checkers /\ c.live = checkers[s].live /\ c.active = checkers[s].active
        /\ c.told => checkers[s].told \/ checkers[s].active
    BY <1>2 DEF Checkers
  <1> HIDE DEF c
  <1> QED BY <1>1, <1>3

LEMMA CheckerLaunches ==
    ASSUME Shaped, NEW s \in Slots, Launch(s)
    PROVE  \E c \in Checkers : /\ checkers' = [checkers EXCEPT ![s] = c]
                               /\ c.live /\ ~c.active /\ ~c.told
  <1>1. PICK n \in 1 .. MaxRequests :
           checkers' = [checkers EXCEPT ![s] = [Closed EXCEPT !.live = TRUE, !.left = n]]
    BY DEF Launch
  <1> DEFINE c == [Closed EXCEPT !.live = TRUE, !.left = n]
  <1>2. c \in Checkers /\ c.live /\ ~c.active /\ ~c.told
    <2>1. n \in 0 .. MaxRequests
      BY PoolAssumption DEF PoolAssumption
    <2> QED BY <2>1 DEF Checkers, Closed
  <1>3. checkers' = [checkers EXCEPT ![s] = c]
    BY <1>1
  <1> HIDE DEF c
  <1> QED BY <1>2, <1>3

LEMMA CheckerDropped ==
    ASSUME NEW s \in Slots, Drop(s)
    PROVE  \E c \in Checkers : /\ checkers' = [checkers EXCEPT ![s] = c]
                               /\ ~c.live /\ ~c.active /\ ~c.told
  <1>1. Closed \in Checkers /\ ~Closed.live /\ ~Closed.active /\ ~Closed.told
    BY PoolAssumption DEF Checkers, Closed, PoolAssumption
  <1> QED BY <1>1 DEF Drop

(* A request starts or ends: at most a told mark is taken back.              *)
LEMMA RequestAsks == ASSUME AskInv, NEW s \in Slots, Send(s) \/ Answer(s) PROVE AskInv'
  <1> USE DEF AskInv
  <1>1. UNCHANGED <<backend, process, cancelVars, stage, poolVars, outcome,
                    superseded, countVars, historyVars>>
    BY DEF Send, Answer
  <1>2. PICK c \in Checkers :
           /\ checkers' = [checkers EXCEPT ![s] = c] /\ c.live = checkers[s].live
           /\ c.told => checkers[s].told
           /\ ~c.live => ~c.active
    BY CheckerSends, CheckerAnswers
  <1>3. Shaped'
    BY <1>1, <1>2 DEF Shaped, Results, Workings, cancelVars, poolVars, countVars, historyVars
  <1>4. Owners'
    BY <1>1, <1>2 DEF Shaped, Owners, Slots, poolVars
  <1>5. Quiet'
    BY <1>1 DEF Quiet, cancelVars, poolVars
  <1>6. Asking'
    BY <1>1, <1>2 DEF Shaped, Asking, Pending, cancelVars, poolVars, historyVars
  <1>7. Counted'
    BY <1>1 DEF Counted, FailedJobs, poolVars, countVars
  <1> QED BY <1>3, <1>4, <1>5, <1>6, <1>7

(* The planner of a pass is launched, answers, or ends the pass.             *)
LEMMA BeginAsks == ASSUME AskInv, BeginScope PROVE AskInv'
  <1> USE DEF AskInv, BeginScope
  <1>1. Planner \in Slots /\ \A w \in Workers : w \in Slots /\ w # Planner
    BY PoolAssumption DEF PoolAssumption, Slots
  <1>2. PICK c \in Checkers : /\ checkers' = [checkers EXCEPT ![Planner] = c]
                              /\ c.live /\ ~c.active /\ ~c.told
    BY <1>1, CheckerLaunches
  <1>3. Shaped'
    BY <1>2 DEF Shaped, Results, Workings, ForgetFlags, Unset, Flags, poolVars, countVars
  <1>4. Owners'
    BY <1>1, <1>2 DEF Shaped, Owners, poolVars
  <1>5. Quiet'
    BY DEF Quiet, poolVars
  <1>6. Asking'
    BY <1>2 DEF Shaped, Asking, Pending, ForgetFlags, Unset, poolVars
  <1>7. Counted'
    BY DEF Counted, FailedJobs, poolVars, countVars
  <1> QED BY <1>3, <1>4, <1>5, <1>6, <1>7

LEMMA PlannerFailsAsks == ASSUME AskInv, PlannerFails PROVE AskInv'
  <1> USE DEF AskInv
  <1>1. Planner \in Slots /\ \A w \in Workers : w \in Slots /\ w # Planner
    BY PoolAssumption DEF PoolAssumption, Slots
  <1>2. /\ UNCHANGED <<backend, process, cancelVars, superseded, poolVars, historyVars>>
        /\ stage \in {"plan", "revalidate"} /\ stage' = "done"
        /\ outcome' \in {"canceled", "failed"}
        /\ outcome' = "canceled" => EndsCanceled(Planner)
        /\ faults' \in {faults, faults + 1}
    BY DEF PlannerFails, EnrichRests, PassEnds
  <1>3. PICK c \in Checkers : /\ checkers' = [checkers EXCEPT ![Planner] = c]
                              /\ ~c.live /\ ~c.active /\ ~c.told
    BY <1>1, CheckerDropped DEF PlannerFails
  <1>11. /\ faults' \in Nat /\ checkers' \in [Slots -> Checkers]
         /\ outcome' \in {None, "canceled", "failed", "partial", "published"}
    <2>1. faults' \in Nat
      BY <1>2 DEF Shaped
    <2>2. checkers' \in [Slots -> Checkers]
      BY <1>3 DEF Shaped
    <2>3. outcome' \in {None, "canceled", "failed", "partial", "published"}
      BY <1>2
    <2> QED BY <2>1, <2>2, <2>3
  <1>12. UNCHANGED <<process, superseded, jobs, next, workers, results, marks,
                     flags, monitor, handler, asked>>
    BY <1>2 DEF cancelVars, poolVars, historyVars
  <1>4. Shaped'
    BY <1>2, <1>11, <1>12 DEF Shaped, Results, Workings
  <1>5. Owners'
    BY <1>1, <1>2, <1>3 DEF Shaped, Owners, poolVars
  <1>6. Quiet'
    BY <1>2 DEF Quiet, cancelVars, poolVars
  <1>7. EndsCanceled(Planner) => asked
    BY <1>1, <1>2 DEF EndsCanceled, Asking
  <1>8. Asking'
    BY <1>2, <1>3, <1>7 DEF Shaped, Asking, Pending, cancelVars, poolVars, historyVars
  <1>9. faults' \in Nat /\ faults <= faults' /\ FailedJobs' = FailedJobs
    BY <1>2 DEF Shaped, FailedJobs, poolVars
  <1>10. Counted'
    BY <1>9, FailuresFewer DEF Counted, Shaped
  <1> QED BY <1>4, <1>5, <1>6, <1>8, <1>10

LEMMA PlannedAsks == ASSUME AskInv, Planned \/ Publish PROVE AskInv'
  <1> USE DEF AskInv, EnrichRests
  <1>1. Planner \in Slots /\ \A w \in Workers : w \in Slots /\ w # Planner
    BY PoolAssumption DEF PoolAssumption, Slots
  <1>2. /\ stage \in {"plan", "revalidate"} /\ stage' \in {"prepare", "done"}
        /\ Drop(Planner) /\ UNCHANGED <<poolVars, faults>> /\ EnrichRests
        /\ outcome' \in {outcome, "partial", "published"}
        /\ outcome' # outcome => stage' = "done"
    BY DEF Planned, Publish, PassEnds
  <1>3. PICK c \in Checkers : /\ checkers' = [checkers EXCEPT ![Planner] = c]
                              /\ ~c.live /\ ~c.active /\ ~c.told
    BY <1>1, <1>2, CheckerDropped
  <1>4. Shaped'
    BY <1>2, <1>3 DEF Shaped, Results, Workings, cancelVars, poolVars, historyVars
  <1>5. Owners'
    BY <1>1, <1>2, <1>3 DEF Shaped, Owners, poolVars
  <1>6. Quiet'
    BY <1>2 DEF Quiet, cancelVars, poolVars
  <1>7. Asking'
    BY <1>2, <1>3 DEF Shaped, Asking, Pending, cancelVars, poolVars, historyVars
  <1>8. Counted'
    BY <1>2 DEF Counted, FailedJobs, poolVars
  <1> QED BY <1>4, <1>5, <1>6, <1>7, <1>8

(* A new pool starts with no failure.                                        *)
LEMMA PrepareAsks == ASSUME AskInv, Prepare PROVE AskInv'
  <1> USE DEF AskInv, Prepare, EnrichRests
  <1>1. CASE Pending /\ PassEnds("canceled") /\ UNCHANGED poolVars
    <2>1. Shaped'
      BY <1>1 DEF Shaped, Results, Workings, PassEnds, cancelVars, poolVars, historyVars
    <2>2. Owners' /\ Quiet'
      BY <1>1 DEF Owners, Quiet, PassEnds, cancelVars, poolVars
    <2>3. Asking'
      BY <1>1 DEF Asking, Pending, PassEnds, cancelVars, poolVars, historyVars
    <2>4. Counted'
      BY <1>1 DEF Counted, FailedJobs, poolVars
    <2> QED BY <2>1, <2>2, <2>3, <2>4
  <1>2. ASSUME NEW n \in 0 .. MaxProjects,
               jobs' = n, next' = 1, stopped' = FALSE,
               marks' = [j \in 1 .. n |-> "queued"], results' = <<>>,
               workers' = [w \in Workers |-> [pc |-> "check", job |-> None]],
               stage' = "pool", UNCHANGED outcome
        PROVE  AskInv'
    <2>1. jobs' \in Nat
      BY <1>2, PoolAssumption DEF PoolAssumption
    <2>2. results' \in Seq(Results')
      BY <1>2
    <2>3. marks' \in [1 .. jobs' -> {"queued", "staged", "failed"}]
      BY <1>2
    <2>4. [pc |-> "check", job |-> None] \in Workings'
      BY DEF Workings
    <2>5. workers' \in [Workers -> Workings']
      BY <1>2, <2>4
    <2>6. Shaped'
      BY <1>2, <2>1, <2>2, <2>3, <2>5 DEF Shaped, cancelVars, historyVars
    <2>7. Owners' /\ Quiet'
      BY <1>2 DEF Owners, Quiet, cancelVars
    <2>8. Asking'
      BY <1>2, NothingInRange DEF Asking, Pending, cancelVars, historyVars
    <2>9. FailedJobs' = {}
      BY <1>2, NothingInRange DEF FailedJobs
    <2>10. Counted'
      BY <2>9, FS_EmptySet DEF Counted, Shaped
    <2> QED BY <2>6, <2>7, <2>8, <2>10
  <1> QED BY <1>1, <1>2

(* A received failure moves from the channel to the marks.                   *)
LEMMA ReceiveAsks == ASSUME AskInv, Receive PROVE AskInv'
  <1> USE DEF AskInv
  <1> DEFINE j == Head(results).job
             result == Head(results).result
  <1>1. /\ stage = "pool" /\ results # <<>> /\ results' = Tail(results)
        /\ UNCHANGED <<checkers, stage, jobs, next, workers>> /\ EnrichRests
    BY DEF Receive
  <1>2. /\ results' \in Seq(Results) /\ Range(results') \subseteq Range(results)
        /\ Head(results) \in Results /\ Head(results) \in Range(results)
    BY <1>1, RangeOfTail DEF Shaped
  <1>3. j \in 1 .. jobs /\ result \in Kinds /\ Head(results) = [job |-> j, result |-> result]
    BY <1>2 DEF Results
  <1>4. /\ marks' = marks
           \/ \E m \in {"staged", "failed"} :
                 /\ marks' = [marks EXCEPT ![j] = m]
                 /\ m = "failed" => result = "failed"
        /\ outcome' \in {outcome, "failed", "canceled"}
        /\ outcome' = "canceled" => outcome = "canceled" \/ Pending \/ result = "canceled"
        /\ faults' \in {faults, faults + 1}
    BY DEF Receive, Interrupted, Kinds
  <1> HIDE DEF j, result
  <1>5. /\ marks' \in [1 .. jobs -> {"queued", "staged", "failed"}]
        /\ \A k \in 1 .. jobs : marks'[k] = "failed" =>
              marks[k] = "failed" \/ (k = j /\ result = "failed")
    BY <1>3, <1>4 DEF Shaped
  <1>6. Shaped'
    BY <1>1, <1>2, <1>4, <1>5 DEF Shaped, EnrichRests, Results, Workings, cancelVars, historyVars
  <1>7. Owners' /\ Quiet'
    BY <1>1 DEF Owners, Quiet, EnrichRests, cancelVars
  <1>8. result = "canceled" => asked
    BY <1>2, <1>3 DEF Asking
  <1>9. Asking'
    BY <1>1, <1>2, <1>4, <1>8 DEF Asking, EnrichRests, Pending, cancelVars, historyVars
  <1>10. FailedJobs' \subseteq FailedJobs
    BY <1>1, <1>2, <1>3, <1>5 DEF FailedJobs
  <1>11. faults' \in Nat /\ faults <= faults'
    BY <1>4 DEF Shaped
  <1>12. Counted'
    BY <1>10, <1>11, FailuresFewer DEF Counted, Shaped
  <1> QED BY <1>6, <1>7, <1>9, <1>12

LEMMA SealAsks == ASSUME AskInv, Seal PROVE AskInv'
  <1> USE DEF AskInv, Seal, EnrichRests, PoolDrained
  <1>1. Planner \in Slots /\ \A w \in Workers : w \in Slots /\ w # Planner
    BY PoolAssumption DEF PoolAssumption, Slots
  <1>2. /\ workers' = [w \in Workers |-> Off]
        /\ stage' \in {"done", "revalidate"}
        /\ outcome' \in {outcome, "canceled"}
        /\ outcome' = "canceled" => outcome = "canceled" \/ Pending
        /\ outcome' # None => stage' = "done"
    BY PoolAssumption DEF PassEnds, PoolAssumption
  <1>3. \/ UNCHANGED checkers
        \/ /\ stage' = "revalidate"
           /\ \E c \in Checkers : /\ checkers' = [checkers EXCEPT ![Planner] = c]
                                  /\ c.live /\ ~c.active /\ ~c.told
    BY <1>1, CheckerLaunches DEF PassEnds
  <1>4. workers' \in [Workers -> Workings]
    BY <1>2 DEF Off, Workings
  <1>5. Shaped'
    BY <1>2, <1>3, <1>4 DEF Shaped, Results, Workings, cancelVars, historyVars
  <1>6. Owners'
    BY <1>1, <1>2, <1>3 DEF Shaped, Owners, Off
  <1>7. Quiet'
    BY <1>2 DEF Quiet, cancelVars
  <1>8. Asking'
    BY <1>1, <1>2, <1>3 DEF Shaped, Asking, Pending, cancelVars, historyVars
  <1>9. Counted'
    BY DEF Counted, FailedJobs
  <1> QED BY <1>5, <1>6, <1>7, <1>8, <1>9

-----------------------------------------------------------------------------
(* The workers: a result that says canceled comes from a checker that was    *)
(* told or saw a flag, one that says failed was counted.                     *)
LEMMA WorkerChanges ==
    ASSUME Shaped, NEW w \in Workers, NEW pc, NEW job, Becomes(w, pc, job),
           jobs' = jobs, [pc |-> pc, job |-> job] \in Workings
    PROVE  /\ workers' \in [Workers -> Workings']
           /\ workers'[w].pc = pc /\ workers'[w].job = job
           /\ \A v \in Workers \ {w} : workers'[v] = workers[v]
  BY DEF Shaped, Becomes, Workings

LEMMA CheckAsks == ASSUME AskInv, NEW w \in Workers, Check(w) PROVE AskInv'
  <1> USE DEF AskInv, Check, WorkerRests
  <1>1. PICK pc \in {"exit", "claim"} : Becomes(w, pc, None)
    OBVIOUS
  <1>2. /\ workers' \in [Workers -> Workings']
        /\ workers'[w].pc = pc
        /\ \A v \in Workers \ {w} : workers'[v] = workers[v]
    BY <1>1, WorkerChanges DEF Workings
  <1>3. Shaped'
    BY <1>2 DEF Shaped, Results, cancelVars
  <1>4. Owners'
    BY <1>2 DEF Owners
  <1>5. Quiet' /\ Asking'
    BY DEF Quiet, Asking, Pending, cancelVars
  <1>6. Counted'
    BY DEF Counted, FailedJobs
  <1> QED BY <1>3, <1>4, <1>5, <1>6

LEMMA ClaimAsks == ASSUME AskInv, NEW w \in Workers, Claim(w) PROVE AskInv'
  <1> USE DEF AskInv, WorkerRests
  <1>1. w \in Slots /\ Planner \in Slots /\ w # Planner /\ Workers \subseteq Slots
    BY PoolAssumption DEF PoolAssumption, Slots
  <1>2. /\ Running /\ workers[w].pc = "claim" /\ next' = next + 1
        /\ UNCHANGED <<stopped, results, faults>> /\ WorkerRests
    BY DEF Claim
  <1>3. stage = "pool"
    BY <1>2 DEF Owners
  <1>4. \/ /\ next \in 1 .. jobs /\ Becomes(w, "work", next)
           /\ \E c \in Checkers : /\ checkers' = [checkers EXCEPT ![w] = c]
                                  /\ c.live /\ ~c.active /\ ~c.told
        \/ Becomes(w, "exit", None) /\ UNCHANGED checkers
    <2>1. \/ next <= jobs /\ Becomes(w, "work", next) /\ Launch(w)
          \/ Becomes(w, "exit", None) /\ UNCHANGED checkers
      BY DEF Claim
    <2>2. next <= jobs => next \in 1 .. jobs
      BY DEF Shaped
    <2> QED BY <1>1, <2>1, <2>2, CheckerLaunches
  <1>5. PICK pc \in {"work", "exit"}, job \in {None} \cup 1 .. jobs :
           Becomes(w, pc, job) /\ (pc = "work" => job \in 1 .. jobs)
    BY <1>4
  <1>6. [pc |-> pc, job |-> job] \in Workings
    BY DEF Workings
  <1>7. /\ workers' \in [Workers -> Workings']
        /\ workers'[w].pc = pc /\ workers'[w].job = job
        /\ \A v \in Workers \ {w} : workers'[v] = workers[v]
    BY <1>2, <1>5, <1>6, WorkerChanges DEF WorkerRests
  <1>8. \/ UNCHANGED checkers
        \/ /\ pc = "work"
           /\ \E c \in Checkers : /\ checkers' = [checkers EXCEPT ![w] = c]
                                  /\ c.live /\ ~c.active /\ ~c.told
    BY <1>4, <1>7 DEF Becomes, Shaped
  <1>9. checkers' \in [Slots -> Checkers]
    BY <1>8 DEF Shaped
  <1>10. Shaped'
    BY <1>2, <1>7, <1>9 DEF Shaped, WorkerRests, Results, cancelVars
  <1>11. checkers[w].live => FALSE
    BY <1>2 DEF Owners
  <1>12. Owners'
    BY <1>1, <1>2, <1>3, <1>5, <1>7, <1>8, <1>11 DEF Shaped, Owners, WorkerRests
  <1>13. Quiet' /\ Asking'
    BY <1>1, <1>2, <1>8 DEF Shaped, Quiet, Asking, Pending, WorkerRests, cancelVars
  <1>14. Counted'
    BY <1>2 DEF Counted, FailedJobs, WorkerRests
  <1> QED BY <1>10, <1>12, <1>13, <1>14

LEMMA FinishAsks == ASSUME AskInv, NEW w \in Workers, Finish(w) PROVE AskInv'
  <1> USE DEF AskInv
  <1>1. w \in Slots /\ Planner \in Slots /\ w # Planner /\ Workers \subseteq Slots
    BY PoolAssumption DEF PoolAssumption, Slots
  <1>2. PICK result \in Kinds :
           /\ Give(w, result)
           /\ result = "canceled" => EndsCanceled(w)
           /\ faults' \in {faults, faults + 1}
           /\ result = "failed" => faults' = faults + 1
    BY DEF Finish, Kinds
  <1>3. /\ workers[w].pc = "work" /\ UNCHANGED <<next, overdue>> /\ WorkerRests
    BY DEF Finish
  <1>4. workers[w].job \in 1 .. jobs /\ stage = "pool"
    BY <1>3 DEF Owners
  <1> DEFINE r == [job |-> workers[w].job, result |-> result]
  <1>5. r \in Results
    BY <1>4 DEF Results
  <1>6. results' \in Seq(Results) /\ Range(results') = Range(results) \cup {r}
    BY <1>2, <1>5, RangeOfAppend DEF Give, Shaped
  <1>7. r.result = result /\ \A j : r = [job |-> j, result |-> "failed"] =>
                                       j = workers[w].job /\ result = "failed"
    OBVIOUS
  <1> HIDE DEF r
  <1>8. [pc |-> "check", job |-> None] \in Workings
    BY DEF Workings
  <1>9. /\ workers' \in [Workers -> Workings']
        /\ workers'[w].pc = "check"
        /\ \A v \in Workers \ {w} : workers'[v] = workers[v]
    BY <1>2, <1>3, <1>8, WorkerChanges DEF WorkerRests, Give
  <1>10. PICK c \in Checkers : /\ checkers' = [checkers EXCEPT ![w] = c]
                               /\ ~c.live /\ ~c.active /\ ~c.told
    BY <1>1, <1>2, CheckerDropped DEF Give
  <1>17. /\ faults' \in Nat /\ checkers' \in [Slots -> Checkers]
         /\ workers' \in [Workers -> Workings'] /\ results' \in Seq(Results')
    <2>1. faults' \in Nat
      BY <1>2 DEF Shaped
    <2>2. checkers' \in [Slots -> Checkers]
      BY <1>10 DEF Shaped
    <2>3. jobs' = jobs
      BY <1>3 DEF WorkerRests
    <2>4. workers' \in [Workers -> Workings']
      BY <1>9, <2>3 DEF Workings
    <2>5. results' \in Seq(Results')
      BY <1>6, <2>3 DEF Results
    <2> QED BY <2>1, <2>2, <2>4, <2>5
  <1>18. UNCHANGED <<process, stage, jobs, next, marks, outcome, superseded, flags,
                     monitor, handler, asked>>
    BY <1>3 DEF WorkerRests, cancelVars
  <1>11. Shaped'
    BY <1>17, <1>18 DEF Shaped
  <1>12. Owners'
    BY <1>1, <1>3, <1>4, <1>9, <1>10 DEF Shaped, Owners, WorkerRests
  <1>13. Quiet'
    BY <1>3, <1>4 DEF Quiet, WorkerRests, cancelVars
  <1>14. EndsCanceled(w) => asked
    BY <1>1, <1>4 DEF EndsCanceled, Asking
  <1>15. Asking'
    BY <1>1, <1>2, <1>3, <1>6, <1>7, <1>10, <1>14
    DEF Shaped, Asking, Pending, WorkerRests, cancelVars
  <1>16. Counted'
    <2>1. CASE result = "failed"
      <3>1. FailedJobs' \subseteq FailedJobs \cup {workers[w].job}
        BY <1>3, <1>6, <1>7 DEF FailedJobs, WorkerRests
      <3>2. faults' = faults + 1
        BY <1>2, <2>1
      <3> QED BY <1>4, <3>1, <3>2, FailureMore DEF Counted, WorkerRests
    <2>2. CASE result # "failed"
      <3>1. FailedJobs' \subseteq FailedJobs
        BY <1>3, <1>6, <1>7, <2>2 DEF FailedJobs, WorkerRests
      <3>2. faults' \in Nat /\ faults <= faults'
        BY <1>2 DEF Shaped
      <3> QED BY <3>1, <3>2, FailuresFewer DEF Counted
    <2> QED BY <2>1, <2>2
  <1> QED BY <1>11, <1>12, <1>13, <1>15, <1>16

-----------------------------------------------------------------------------
(* The threads that cancel act for a supersession or a Ctrl-C, both of       *)
(* which are the question asked of the pass.                                 *)
LEMMA SupersedeAsks == ASSUME AskInv, Supersede PROVE AskInv'
  <1> USE DEF AskInv, Supersede, CancelRests, cancelVars, poolVars
  <1>1. Shaped'
    BY DEF Shaped, Results, Workings
  <1>2. Owners' /\ Quiet' /\ Asking'
    BY DEF Owners, Quiet, Asking, Pending
  <1>3. Counted'
    BY DEF Counted, FailedJobs
  <1> QED BY <1>1, <1>2, <1>3

LEMMA LooksAre == ASSUME Shaped PROVE Look \in Thread /\ Resting \in Thread
  BY PoolAssumption DEF Look, Resting, Thread

LEMMA AsksAsks == ASSUME AskInv, MonitorAsks \/ Interrupt PROVE AskInv'
  <1> USE DEF AskInv, CancelRests, poolVars
  <1>1. /\ UNCHANGED <<checkers, superseded, stage, poolVars, outcome, faults>>
        /\ asked' \in BOOLEAN /\ asked'
        /\ process' \in {process, "exited"}
        /\ monitor' = monitor \/ (superseded /\ monitor' = [Resting EXCEPT !.pc = "look"])
        /\ handler' \in {handler, [Resting EXCEPT !.pc = "look"]}
    BY DEF MonitorAsks, Interrupt, Asking, Shaped
  <1>2. flags' \in Flags
    BY DEF MonitorAsks, Interrupt, Shaped, Flags
  <1>3. [Resting EXCEPT !.pc = "look"] \in Thread
    BY DEF Resting, Thread
  <1>4. Shaped'
    BY <1>1, <1>2, <1>3 DEF Shaped, Results, Workings
  <1>5. Owners' /\ Quiet' /\ Asking'
    BY <1>1 DEF Owners, Quiet, Asking
  <1>6. Counted'
    BY <1>1 DEF Counted, FailedJobs
  <1> QED BY <1>4, <1>5, <1>6

LEMMA TellsAsks ==
    ASSUME AskInv, MonitorLooks \/ MonitorTells \/ HandlerLooks \/ HandlerTells
    PROVE  AskInv'
  <1> USE DEF AskInv
  <1>1. /\ UNCHANGED <<stage, poolVars, outcome, faults, superseded, asked>>
        /\ process' \in {process, "exited"}
        /\ flags'.interrupt = flags.interrupt /\ flags'.operation = flags.operation
        /\ flags' \in Flags
    BY DEF MonitorLooks, MonitorTells, HandlerLooks, HandlerTells, CancelRests, Shaped, Flags
  <1>2. monitor' \in Thread /\ handler' \in Thread
    <2>1. \A t \in Thread, s \in Slots : Told(t, s) \in Thread
      BY DEF Told, Thread, Shaped, Checkers
    <2>2. monitor \in Thread /\ monitor.todo \subseteq Slots
          /\ handler \in Thread /\ handler.todo \subseteq Slots
      BY DEF Shaped, Thread
    <2> QED
      BY <2>1, <2>2, LooksAre DEF MonitorLooks, MonitorTells, HandlerLooks, HandlerTells
  <1>3. /\ monitor'.pc # "idle" => superseded
        /\ handler'.pc # "idle" => asked
        /\ UNCHANGED checkers \/ asked
    BY DEF MonitorLooks, MonitorTells, HandlerLooks, HandlerTells, Quiet, Asking
  <1>4. UNCHANGED checkers \/ \E s \in Slots : Tell(s)
    BY DEF MonitorLooks, MonitorTells, HandlerLooks, HandlerTells, Shaped, Thread
  <1>5. /\ checkers' \in [Slots -> Checkers]
        /\ \A s \in Slots : /\ checkers'[s].live = checkers[s].live
                            /\ checkers'[s].active = checkers[s].active
                            /\ checkers'[s].told => checkers[s].told \/ checkers[s].active
    BY <1>4, CheckerTold DEF Shaped
  <1>6. Shaped'
    BY <1>1, <1>2, <1>5 DEF Shaped, Results, Workings, poolVars
  <1>7. Owners'
    BY <1>1, <1>5, PoolAssumption DEF Owners, Slots, poolVars
  <1>8. Quiet' /\ Asking'
    BY <1>1, <1>3, <1>5 DEF Quiet, Asking, Pending, poolVars
  <1>9. Counted'
    BY <1>1 DEF Counted, FailedJobs, poolVars
  <1> QED BY <1>6, <1>7, <1>8, <1>9

LEMMA StartAsks == ASSUME AskInv, StartPass PROVE AskInv'
  <1> USE DEF AskInv, StartPass, cancelVars, poolVars
  <1>1. Shaped'
    BY DEF Shaped, Results, Workings
  <1>2. \A s \in Slots : ~checkers[s].told
    <2>1. ASSUME NEW w \in Workers PROVE ~checkers[w].live
      BY DEF Owners
    <2>2. ~checkers[Planner].live
      BY DEF Owners
    <2> QED BY <2>1, <2>2 DEF Owners, Slots
  <1>3. Owners' /\ Quiet'
    BY DEF Owners, Quiet
  <1>6. handler.pc # "idle" => asked'
    BY Zenon
  <1>7. outcome # "canceled" /\ results = <<>> /\ ~superseded
    BY PoolAssumption DEF Quiet, PoolAssumption
  <1>4. Asking'
    BY <1>2, <1>6, <1>7, NothingInRange DEF Asking, Pending
  <1>5. Counted'
    BY DEF Counted, FailedJobs
  <1> QED BY <1>1, <1>3, <1>4, <1>5

LEMMA EndAsks == ASSUME AskInv, EndPass PROVE AskInv'
  <1> USE DEF AskInv, EndPass, cancelVars, countVars
  <1>1. /\ jobs' = 0 /\ next' = 1 /\ marks' = <<>> /\ results' = <<>>
        /\ workers' = [w \in Workers |-> Off] /\ stage' = "idle" /\ outcome' = None
        /\ UNCHANGED <<flags, monitor, handler, checkers, faults, asked>>
        /\ process' \in {process, "stopped"}
    OBVIOUS
  <1>2. /\ marks' \in [1 .. jobs' -> {"queued", "staged", "failed"}]
        /\ results' \in Seq(Results') /\ workers' \in [Workers -> Workings']
    BY <1>1 DEF Workings, Off
  <1>3. superseded' \in BOOLEAN /\ ~superseded'
    OBVIOUS
  <1>4. Shaped'
    BY <1>1, <1>2, <1>3 DEF Shaped
  <1>5. \A w \in Workers : ~checkers[w].live /\ workers'[w].pc = "off"
    BY <1>1 DEF Owners, Off
  <1>6. ~checkers[Planner].live
    BY DEF Owners
  <1>7. Owners'
    BY <1>1, <1>5, <1>6 DEF Owners
  <1>8. Quiet'
    BY <1>1, <1>3 DEF Quiet, Resting
  <1>9. Asking'
    BY <1>1, <1>3, NothingInRange, PoolAssumption DEF Asking, Pending, PoolAssumption
  <1>10. FailedJobs' = {}
    BY <1>1, NothingInRange DEF FailedJobs
  <1>11. Counted'
    BY <1>1, <1>10, FS_EmptySet DEF Counted, Shaped
  <1> QED BY <1>4, <1>7, <1>8, <1>9, <1>11

LEMMA StutterAsks == ASSUME AskInv, UNCHANGED vars PROVE AskInv'
  <1> USE DEF AskInv, vars, cancelVars, poolVars, countVars, historyVars
  <1>1. Shaped'
    BY DEF Shaped, Results, Workings
  <1>2. Owners' /\ Quiet' /\ Asking'
    BY DEF Owners, Quiet, Asking, Pending
  <1>3. Counted'
    BY DEF Counted, FailedJobs
  <1> QED BY <1>1, <1>2, <1>3

LEMMA StepAsks == AskInv /\ [Next]_vars => AskInv'
  BY CheckAsks, ClaimAsks, FinishAsks, RequestAsks, BeginAsks, PlannerFailsAsks,
     PlannedAsks, PrepareAsks, ReceiveAsks, SealAsks, SupersedeAsks, AsksAsks,
     TellsAsks, StartAsks, EndAsks, StutterAsks
     DEF Next, Coordinate, Work, Cancel, Over

(* A pass nobody superseded or interrupted never ends as canceled, whatever  *)
(* flags, told checkers and results the pass before it left behind, and no   *)
(* more projects are recorded as failed than failed: jobs.rs, process.rs and *)
(* enrich.rs, for any number of workers, projects and interrupts.            *)
THEOREM PoolCancelsWhenAsked == Spec => []OnlyAskedCanceled
  <1>1. AskInv => OnlyAskedCanceled
    <2> SUFFICES ASSUME AskInv PROVE OnlyAskedCanceled
      OBVIOUS
    <2>1. TypeOK
      BY DEF AskInv, Shaped, TypeOK, Flags, Checkers, Workings
    <2>2. {j \in 1 .. jobs : marks[j] = "failed"} \subseteq FailedJobs
      BY DEF FailedJobs
    <2>3. Cardinality({j \in 1 .. jobs : marks[j] = "failed"}) <= faults
      BY <2>2, FailuresFewer DEF AskInv, Shaped
    <2>4. outcome = "canceled" => asked
      BY DEF AskInv, Asking
    <2> QED BY <2>1, <2>3, <2>4 DEF OnlyAskedCanceled
  <1> QED BY <1>1, InitAsks, StepAsks, PTL DEF Spec
=============================================================================
