----------------------------- MODULE CheckerPool -----------------------------
(***************************************************************************)
(* How a checker enrichment is stopped: the pool of project workers        *)
(* (src/src/checker/jobs.rs), the process-wide cancellation flags and the  *)
(* registry of live checkers (src/src/checker/process.rs), the thread of   *)
(* enrich() that owns the results (src/src/checker/enrich.rs), and the two *)
(* threads that cancel: the monitor of the watch loop (src/src/watch.rs)   *)
(* and the handler of Ctrl-C.                                              *)
(*                                                                         *)
(* A checker is seen as CheckerCall promises it: a request in flight ends  *)
(* with its answer or a failure, or, if it was told to, as canceled.  The  *)
(* embedded checker is not told; it looks at the flags by itself.  The     *)
(* exact reuse, which ends a pass before its pool, is left out.            *)
(***************************************************************************)
EXTENDS Integers, Sequences, FiniteSets, SequencesExt

CONSTANTS
    Workers,        \* the pool's threads
    MaxProjects,    \* bound: projects of a pass
    MaxRequests,    \* bound: requests of one checker
    MaxPasses,      \* bound: enrichment passes
    MaxInterrupts,  \* bound: times Ctrl-C is pressed
    MaxFaults,      \* bound: requests, workers and writes that fail
    Backends,       \* the backends of a run: "process", "embedded"
    Planner, None

PoolAssumption ==
    /\ IsFiniteSet(Workers) /\ Workers # {} /\ Planner \notin Workers
    /\ MaxProjects \in Nat /\ MaxRequests \in Nat \ {0} /\ MaxPasses \in Nat
    /\ MaxInterrupts \in Nat /\ MaxFaults \in Nat
    /\ Backends \subseteq {"process", "embedded"}
    /\ None \notin {"canceled", "failed", "partial", "published"}
ASSUME PoolAssumption

(* The owners of a checker: the workers, and the enrichment's own thread.    *)
Slots == Workers \cup {Planner}

VARIABLES
    backend,     \* the configured backend
    process,     \* "running", "stopped" by the loop, or "exited"
    flags,       \* CANCELLATION_FLAGS
    checkers,    \* the live checker of each slot
    stage,       \* where enrich() stands
    jobs,        \* how many projects are queued
    next,        \* the queue's cursor
    stopped,     \* whether the pool takes no more jobs
    workers,     \* what each worker does, and with which job
    results,     \* the channel from the workers
    marks,       \* the outcome of each project, as the coordinator records it
    outcome,     \* how the pass ends
    superseded,  \* whether the watcher has a newer generation
    monitor,     \* the watch loop, while it cancels
    handler,     \* the thread of Ctrl-C
    passes, interrupts, faults,
    asked,       \* history: whether this pass was asked to stop
    overdue,     \* history: jobs a worker took although a cancel was pending
    doomed,      \* history: a cancel was pending before the results were in
    pressed      \* history: how often Ctrl-C was pressed in this scope

cancelVars  == <<flags, monitor, handler>>
poolVars    == <<jobs, next, stopped, workers, results, marks>>
countVars   == <<passes, interrupts, faults>>
historyVars == <<asked, overdue, doomed, pressed>>
vars == <<backend, process, cancelVars, checkers, stage, poolVars, outcome,
          superseded, countVars, historyVars>>

Running == process = "running"
Pending == flags.interrupt \/ flags.operation

Closed  == [live |-> FALSE, active |-> FALSE, told |-> FALSE, left |-> 0]
Resting == [pc |-> "idle", todo |-> {}, found |-> FALSE]
Off     == [pc |-> "off", job |-> None]
Unset   == [interrupt |-> FALSE, operation |-> FALSE, delivered |-> FALSE]

-----------------------------------------------------------------------------
(* Checkers and their requests.                                            *)

(* launch and register_interrupts; how many requests follow is not known.    *)
Launch(s) ==
    \E n \in 1 .. MaxRequests :
        checkers' = [checkers EXCEPT ![s] = [Closed EXCEPT !.live = TRUE, !.left = n]]

Drop(s) == checkers' = [checkers EXCEPT ![s] = Closed]

Idle(s) == checkers[s].live /\ ~checkers[s].active

Send(s) ==
    /\ Running /\ Idle(s) /\ checkers[s].left > 0
    /\ checkers' = [checkers EXCEPT ![s].active = TRUE, ![s].told = FALSE, ![s].left = @ - 1]
    /\ UNCHANGED <<backend, process, cancelVars, stage, poolVars, outcome,
                   superseded, countVars, historyVars>>

(* The answer, although a cancel may be on its way.                          *)
Answer(s) ==
    /\ Running /\ checkers[s].active
    /\ checkers' = [checkers EXCEPT ![s].active = FALSE]
    /\ UNCHANGED <<backend, process, cancelVars, stage, poolVars, outcome,
                   superseded, countVars, historyVars>>

(* Request::check of the embedded checker; the reply of a sidecar.           *)
EndsCanceled(s) ==
    /\ checkers[s].active
    /\ IF backend = "embedded" THEN Pending ELSE checkers[s].told

Breaks(s) == checkers[s].active /\ faults < MaxFaults
HasAnswers(s) == Idle(s) /\ checkers[s].left = 0

-----------------------------------------------------------------------------
(* The enrichment's own thread.                                            *)

EnrichRests == UNCHANGED <<backend, process, cancelVars, superseded, passes,
                           interrupts, historyVars>>

(* begin_interrupt_scope: only here are the flags forgotten, all of them.    *)
ForgetInterrupt == [flags EXCEPT !.interrupt = FALSE]
ForgetFlags == Unset

BeginScope ==
    /\ Running /\ stage = "begin"
    /\ flags' = ForgetFlags
    /\ stage' = "plan"
    /\ Launch(Planner)
    /\ pressed' = 0 /\ doomed' = FALSE
    /\ overdue' = [w \in Workers |-> 0]
    /\ UNCHANGED <<backend, process, monitor, handler, poolVars, outcome, superseded,
                   countVars, asked>>

(* An error leaves enrich() at once, the planner dropped.                    *)
PassEnds(result) == stage' = "done" /\ outcome' = result

PlannerFails ==
    /\ Running /\ stage \in {"plan", "revalidate"}
    /\ \/ EndsCanceled(Planner) /\ PassEnds("canceled") /\ UNCHANGED faults
       \/ Breaks(Planner) /\ PassEnds("failed") /\ faults' = faults + 1
    /\ Drop(Planner)
    /\ UNCHANGED <<poolVars>>
    /\ EnrichRests

Planned ==
    /\ Running /\ stage = "plan"
    /\ HasAnswers(Planner)
    /\ stage' = "prepare"
    /\ Drop(Planner)
    /\ UNCHANGED <<poolVars, outcome, faults>>
    /\ EnrichRests

(* The projects that are not complete and fresh become jobs.  The flags are  *)
(* read before each project, so a pass without projects does not see them.   *)
Prepare ==
    /\ Running /\ stage = "prepare"
    /\ \/ Pending /\ PassEnds("canceled") /\ UNCHANGED poolVars
       \/ \E n \in 0 .. MaxProjects :
             /\ Pending => n = 0
             /\ jobs' = n /\ next' = 1 /\ stopped' = FALSE
             /\ marks' = [j \in 1 .. n |-> "queued"]
             /\ results' = <<>>
             /\ workers' = [w \in Workers |-> [pc |-> "check", job |-> None]]
             /\ stage' = "pool"
             /\ UNCHANGED outcome
    /\ UNCHANGED <<checkers, faults>>
    /\ EnrichRests

(* project_was_interrupted: the error says so, or a flag is up.              *)
Interrupted(result) == Pending \/ result = "canceled"

(* The first error decides the pass; later results are received and dropped. *)
Receive ==
    /\ Running /\ stage = "pool" /\ results # <<>>
    /\ LET j == Head(results).job
           result == Head(results).result
           rejected == result # "answered" /\ Interrupted(result)
       IN
       IF outcome # None THEN UNCHANGED <<marks, outcome, stopped, faults>>
       ELSE \/ /\ result = "panicked" \/ rejected
               /\ outcome' = IF result = "panicked" THEN "failed" ELSE "canceled"
               /\ stopped' = TRUE
               /\ UNCHANGED <<marks, faults>>
            \/ /\ result = "answered"
               /\ marks' = [marks EXCEPT ![j] = "staged"]
               /\ UNCHANGED <<outcome, stopped, faults>>
            \/ /\ result \in {"failed", "canceled"} /\ ~Interrupted(result)
               /\ \/ /\ marks' = [marks EXCEPT ![j] = "failed"]
                     /\ UNCHANGED <<outcome, stopped, faults>>
                  \/ /\ faults < MaxFaults   \* mark_project_failed itself fails
                     /\ faults' = faults + 1
                     /\ outcome' = "failed" /\ stopped' = TRUE
                     /\ UNCHANGED marks
    /\ results' = Tail(results)
    /\ UNCHANGED <<checkers, stage, jobs, next, workers>>
    /\ EnrichRests

(* The channel closes when the last worker has left it.                      *)
PoolDrained == results = <<>> /\ \A w \in Workers : workers[w].pc = "exit"

SealUnread ==
    /\ Running /\ stage = "pool" /\ PoolDrained
    /\ IF outcome # None THEN stage' = "done" /\ UNCHANGED <<outcome, checkers>>
       ELSE stage' = "revalidate" /\ Launch(Planner) /\ UNCHANGED outcome
    /\ workers' = [w \in Workers |-> Off]
    /\ UNCHANGED <<jobs, next, stopped, results, marks, faults>>
    /\ EnrichRests

Seal ==
    /\ Running /\ stage = "pool" /\ PoolDrained
    /\ IF outcome # None THEN stage' = "done" /\ UNCHANGED <<outcome, checkers>>
       ELSE IF Pending THEN PassEnds("canceled") /\ UNCHANGED checkers
       ELSE stage' = "revalidate" /\ Launch(Planner) /\ UNCHANGED outcome
    /\ workers' = [w \in Workers |-> Off]
    /\ UNCHANGED <<jobs, next, stopped, results, marks, faults>>
    /\ EnrichRests

(* revalidate_package_gate has its own planner; then the activation, which   *)
(* a later cancel does not stop, and the error of a partial publication.     *)
Publish ==
    /\ Running /\ stage = "revalidate"
    /\ HasAnswers(Planner)
    /\ Drop(Planner)
    /\ PassEnds(IF \E j \in 1 .. jobs : marks[j] = "failed" THEN "partial" ELSE "published")
    /\ UNCHANGED <<poolVars, faults>>
    /\ EnrichRests

Coordinate == BeginScope \/ PlannerFails \/ Planned \/ Prepare \/ Receive \/ Seal \/ Publish

-----------------------------------------------------------------------------
(* The workers.                                                            *)

WorkerRests == UNCHANGED <<backend, process, cancelVars, stage, jobs, marks,
                           outcome, superseded, passes, interrupts, asked,
                           doomed, pressed>>

Becomes(w, pc, job) == workers' = [workers EXCEPT ![w] = [pc |-> pc, job |-> job]]

(* One worker, or one job, runs on the coordinator's thread: it has given    *)
(* its result before the flags are read again.                               *)
Serial == Cardinality(Workers) = 1 \/ jobs <= 1
HasTurn(w) == Serial => /\ results = <<>>
                        /\ \A v \in Workers \ {w} : workers[v].pc \in {"check", "exit"}

(* while !stopped && !canceled(): read, and then the cursor is moved.        *)
Check(w) ==
    /\ Running /\ stage = "pool" /\ workers[w].pc = "check"
    /\ HasTurn(w)
    /\ Becomes(w, IF stopped \/ Pending THEN "exit" ELSE "claim", None)
    /\ UNCHANGED <<checkers, next, stopped, results, faults, overdue>>
    /\ WorkerRests

(* A job starts its own checker, in the scope of the pass (execute_project); *)
(* until it has registered it is as little told as between two requests.     *)
Claim(w) ==
    /\ Running /\ workers[w].pc = "claim"
    /\ IF next <= jobs THEN Becomes(w, "work", next) /\ Launch(w)
                       ELSE Becomes(w, "exit", None) /\ UNCHANGED checkers
    /\ next' = next + 1
    /\ overdue' = [overdue EXCEPT ![w] = @ + (IF Pending /\ next <= jobs THEN 1 ELSE 0)]
    /\ UNCHANGED <<stopped, results, faults>>
    /\ WorkerRests

Give(w, result) ==
    /\ results' = Append(results, [job |-> workers[w].job, result |-> result])
    /\ Becomes(w, "check", None)
    /\ Drop(w)

(* The end of a project: every batch answered, its checker canceled, or an   *)
(* error of its own; a panic also stops the pool.                            *)
Finish(w) ==
    /\ Running /\ workers[w].pc = "work"
    /\ \/ HasAnswers(w) /\ Give(w, "answered") /\ UNCHANGED <<faults, stopped>>
       \/ EndsCanceled(w) /\ Give(w, "canceled") /\ UNCHANGED <<faults, stopped>>
       \/ Breaks(w) /\ Give(w, "failed") /\ faults' = faults + 1 /\ UNCHANGED stopped
       \/ Breaks(w) /\ Give(w, "panicked") /\ faults' = faults + 1 /\ stopped' = TRUE
    /\ UNCHANGED <<next, overdue>>
    /\ WorkerRests

Work(w) == Check(w) \/ Claim(w) \/ Finish(w)

-----------------------------------------------------------------------------
(* The two threads that cancel.                                            *)

CancelRests == UNCHANGED <<backend, stage, poolVars, outcome, passes, faults, overdue>>

(* cancel_active_request: a copy of the registry, and the embedded counter.  *)
Look ==
    [pc |-> "tell",
     todo |-> IF backend = "process" THEN {s \in Slots : checkers[s].live} ELSE {},
     found |-> backend = "embedded" /\ \E s \in Slots : checkers[s].live]

(* CheckerControl::cancel_active of one checker of that copy.                *)
Told(thread, s) ==
    [thread EXCEPT !.todo = @ \ {s}, !.found = @ \/ checkers[s].active]

Tell(s) == checkers' = [checkers EXCEPT ![s].told = @ \/ checkers[s].active]

Dooms == doomed \/ stage \in {"plan", "prepare", "pool"}

Supersede ==
    /\ Running /\ stage \notin {"idle", "done"} /\ ~superseded
    /\ superseded' = TRUE
    /\ asked' = TRUE
    /\ UNCHANGED <<process, cancelVars, checkers, interrupts, doomed, pressed>>
    /\ CancelRests

(* One round of the monitor: cancel_active_operation.                        *)
MonitorAsks ==
    /\ Running /\ stage # "idle" /\ superseded /\ monitor.pc = "idle"
    /\ ~flags.delivered \/ ~flags.operation   \* no step if nothing would change
    /\ flags' = [flags EXCEPT !.operation = TRUE]
    /\ doomed' = Dooms
    /\ monitor' = [Resting EXCEPT !.pc = "look"]
    /\ UNCHANGED <<process, handler, checkers, superseded, interrupts, asked, pressed>>
    /\ CancelRests

MonitorLooks ==
    /\ Running /\ monitor.pc = "look"
    /\ monitor' = IF flags.delivered THEN Resting ELSE Look
    /\ UNCHANGED <<process, flags, handler, checkers, superseded, interrupts, asked,
                   doomed, pressed>>
    /\ CancelRests

MonitorTells ==
    /\ Running /\ monitor.pc = "tell"
    /\ IF monitor.todo = {}
       THEN /\ flags' = [flags EXCEPT !.delivered = @ \/ monitor.found]
            /\ monitor' = Resting
            /\ UNCHANGED checkers
       ELSE /\ \E s \in monitor.todo : Tell(s) /\ monitor' = Told(monitor, s)
            /\ UNCHANGED flags
    /\ UNCHANGED <<process, handler, superseded, interrupts, asked, doomed, pressed>>
    /\ CancelRests

(* handle_interrupt.  The library calls it once per Ctrl-C, in order.        *)
Interrupt ==
    /\ Running /\ handler.pc = "idle" /\ interrupts < MaxInterrupts
    /\ passes > 0   \* installed with the first scope
    /\ interrupts' = interrupts + 1
    /\ pressed' = pressed + 1
    /\ asked' = TRUE
    /\ flags' = [flags EXCEPT !.interrupt = TRUE]
    /\ doomed' = Dooms
    /\ IF flags.interrupt THEN process' = "exited" /\ UNCHANGED handler
       ELSE handler' = [Resting EXCEPT !.pc = "look"] /\ UNCHANGED process
    /\ UNCHANGED <<monitor, checkers, superseded>>
    /\ CancelRests

HandlerLooks ==
    /\ Running /\ handler.pc = "look"
    /\ handler' = Look
    /\ UNCHANGED <<process, flags, monitor, checkers, superseded, interrupts, asked,
                   doomed, pressed>>
    /\ CancelRests

HandlerTells ==
    /\ Running /\ handler.pc = "tell"
    /\ IF handler.todo = {}
       THEN /\ process' = IF handler.found THEN process ELSE "exited"
            /\ handler' = Resting
            /\ UNCHANGED checkers
       ELSE /\ \E s \in handler.todo : Tell(s) /\ handler' = Told(handler, s)
            /\ UNCHANGED process
    /\ UNCHANGED <<flags, monitor, superseded, interrupts, asked, doomed, pressed>>
    /\ CancelRests

Cancel == Supersede \/ MonitorAsks \/ MonitorLooks \/ MonitorTells
              \/ Interrupt \/ HandlerLooks \/ HandlerTells

-----------------------------------------------------------------------------
(* The watch loop starts a pass and joins it when it does not cancel.        *)
StartPass ==
    /\ Running /\ stage = "idle" /\ passes < MaxPasses
    /\ stage' = "begin"
    /\ passes' = passes + 1
    /\ asked' = (handler.pc # "idle")
    /\ UNCHANGED <<backend, process, cancelVars, checkers, poolVars, outcome, superseded,
                   interrupts, faults, overdue, doomed, pressed>>

(* An error while an interrupt is pending stops the watcher.                 *)
EndPass ==
    /\ Running /\ stage = "done" /\ monitor.pc = "idle"
    /\ stage' = "idle"
    /\ process' = IF outcome # "published" /\ flags.interrupt THEN "stopped" ELSE process
    /\ jobs' = 0 /\ next' = 1 /\ stopped' = FALSE
    /\ workers' = [w \in Workers |-> Off]
    /\ results' = <<>> /\ marks' = <<>>
    /\ superseded' = FALSE /\ outcome' = None
    /\ overdue' = [w \in Workers |-> 0] /\ doomed' = FALSE
    /\ UNCHANGED <<backend, cancelVars, checkers, countVars, asked, pressed>>

Over ==
    /\ process # "running" \/ (stage = "idle" /\ passes = MaxPasses)
    /\ UNCHANGED vars

Init ==
    /\ backend \in Backends
    /\ process = "running" /\ flags = Unset
    /\ checkers = [s \in Slots |-> Closed]
    /\ stage = "idle" /\ outcome = None
    /\ jobs = 0 /\ next = 1 /\ stopped = FALSE
    /\ workers = [w \in Workers |-> Off]
    /\ results = <<>> /\ marks = <<>> /\ superseded = FALSE
    /\ monitor = Resting /\ handler = Resting
    /\ passes = 0 /\ interrupts = 0 /\ faults = 0
    /\ asked = FALSE /\ overdue = [w \in Workers |-> 0]
    /\ doomed = FALSE /\ pressed = 0

Next ==
    \/ \E s \in Slots : Send(s) \/ Answer(s)
    \/ Coordinate
    \/ \E w \in Workers : Work(w)
    \/ Cancel
    \/ StartPass \/ EndPass
    \/ Over

Spec == Init /\ [][Next]_vars

-----------------------------------------------------------------------------
TypeOK ==
    /\ flags \in [{"interrupt", "operation", "delivered"} -> BOOLEAN]
    /\ process \in {"running", "stopped", "exited"}
    /\ stage \in {"idle", "begin", "plan", "prepare", "pool", "revalidate", "done"}
    /\ outcome \in {None, "canceled", "failed", "partial", "published"}
    /\ checkers \in [Slots -> [live : BOOLEAN, active : BOOLEAN, told : BOOLEAN,
                               left : 0 .. MaxRequests]]
    /\ \A w \in Workers : /\ workers[w].pc \in {"off", "check", "claim", "work", "exit"}
                          /\ workers[w].job \in {None} \cup 1 .. jobs
    /\ marks \in [1 .. jobs -> {"queued", "staged", "failed"}]

(* A pass nobody superseded or interrupted never ends as canceled, whatever  *)
(* the pass before it left behind, and a project whose checker was canceled  *)
(* is not recorded as failed: it keeps its staged work and is run again.     *)
(* (With the types.)                                                         *)
OnlyAskedCanceled ==
    /\ TypeOK
    /\ outcome = "canceled" => asked
    /\ Cardinality({j \in 1 .. jobs : marks[j] = "failed"}) <= faults

(* A cancellation stops the pass although one delivery counts for the whole  *)
(* pool: each worker takes at most the one job it was about to take, nothing *)
(* is published that was canceled before all results were in, and a second   *)
(* Ctrl-C in a pass ends the process.                                        *)
StopsPromptly ==
    /\ \A w \in Workers : overdue[w] <= 1
    /\ doomed => outcome \notin {"partial", "published"}
    /\ pressed > 1 => ~Running
=============================================================================
