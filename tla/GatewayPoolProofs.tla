-------------------------- MODULE GatewayPoolProofs --------------------------
(***************************************************************************)
(* Proofs about GatewayPool, for any number of workers, waves and faults:  *)
(* the pool keeps what ConsoleInterrupt promises the user, a Ctrl-C        *)
(* overlooks no request in flight, and no connection falls out of step.    *)
(***************************************************************************)
EXTENDS GatewayPool, SequenceTheorems, TLAPS

InFlight == {"writing", "starting", "waiting", "leaving"}

WorkerPcs == {"idle", "spawned", "grace", "dropped"} \cup InFlight

Outcomes ==
    {"none", "refused", "lost", "protocol", "result", "canceled"} \cup Errors

Threads == [pc : WorkerPcs, poisoned : BOOLEAN, outcome : Outcomes]

Types ==
    /\ gate \in [registered : BOOLEAN, pending : BOOLEAN, generation : Nat]
    /\ process \in {"running", "exiting", "exited"}
    /\ command \in [pc : {"between", "wave", "over"}, wave : Nat, generation : Nat,
                    interrupted : BOOLEAN]
    /\ worker \in [Workers -> Threads]
    /\ active \in [Workers -> Nat]

(* Who may be in flight, and when the controls are registered.             *)
Control ==
    /\ \A w \in Workers :
          active[w] = IF worker[w].pc \in InFlight THEN command.wave ELSE None
    /\ command.pc = "between" => \A w \in Workers : worker[w].pc = "idle"
    /\ command.pc = "over" => \A w \in Workers : worker[w].pc \in {"idle", "grace", "dropped"}
    /\ command.pc = "wave" => \A w \in Workers : worker[w].pc \notin {"grace", "dropped"}
    /\ command.pc = "wave" => command.wave # 0
    /\ command.pc # "over" => gate.registered

ControlInv == Types /\ Control

-----------------------------------------------------------------------------
(* What an update does to the record of a thread, and to the others.       *)
LEMMA ThreadUpdate ==
    ASSUME NEW t \in Threads, NEW pc \in WorkerPcs, NEW how \in Outcomes
    PROVE  /\ [t EXCEPT !.pc = pc] \in Threads
           /\ [t EXCEPT !.pc = pc].pc = pc
           /\ [t EXCEPT !.pc = pc, !.outcome = how] \in Threads
           /\ [t EXCEPT !.pc = pc, !.outcome = how].pc = pc
  BY DEF Threads

LEMMA GoesTo ==
    ASSUME Types, NEW w \in Workers, NEW pc \in WorkerPcs, Goes(w, pc)
    PROVE  /\ worker' \in [Workers -> Threads]
           /\ worker'[w].pc = pc
           /\ \A v \in Workers \ {w} : worker'[v] = worker[v]
  <1>1. worker' = [worker EXCEPT ![w] = [worker[w] EXCEPT !.pc = pc]]
    BY DEF Goes
  <1>2. [worker[w] EXCEPT !.pc = pc] \in Threads /\ [worker[w] EXCEPT !.pc = pc].pc = pc
    <2>1. worker[w] \in Threads
      BY DEF Types
    <2>2. "none" \in Outcomes
      BY DEF Outcomes
    <2> QED
      BY <2>1, <2>2, ThreadUpdate, Zenon
  <1> QED
    BY <1>1, <1>2 DEF Types

LEMMA LeavesFor ==
    ASSUME Types, NEW w \in Workers, NEW how \in Outcomes, NEW poisons \in BOOLEAN,
           Leaves(w, how, poisons)
    PROVE  /\ worker' \in [Workers -> Threads]
           /\ worker'[w].pc = "leaving"
           /\ \A v \in Workers \ {w} : worker'[v] = worker[v]
  <1> DEFINE t == [pc |-> "leaving", poisoned |-> worker[w].poisoned \/ poisons,
                   outcome |-> how]
  <1>1. worker' = [worker EXCEPT ![w] = t]
    BY DEF Leaves
  <1>2. t \in Threads /\ t.pc = "leaving"
    BY DEF Threads, WorkerPcs, InFlight
  <1> HIDE DEF t
  <1> QED
    BY <1>1, <1>2 DEF Types

-----------------------------------------------------------------------------
(* Steps of the gateways change nothing on this side of the pipes.         *)
LEMMA GatewayFrame ==
    ASSUME NEW w \in Workers, Gateway(w)
    PROVE  UNCHANGED <<gate, process, command, worker, active, cancels>>
  BY DEF Gateway, HandleMessage, GatewayTimer, StartCompletion, ProviderReplies, Retry,
         AbortTakesEffect, GatewayDies, RustUnchanged

LEMMA NextCases ==
    ASSUME Next
    PROVE  \/ BeginWave \/ EndWave \/ Finished \/ Interrupt \/ Exit \/ Done
           \/ \E w \in Workers :
                 \/ SendComplete(w) \/ WriteComplete(w) \/ ReceiveFor(w)
                 \/ Disconnected(w) \/ ReceiveTimesOut(w) \/ DropGuard(w)
                 \/ WriteCancel(w) \/ Gateway(w) \/ DropWorker(w) \/ Reap(w)
  BY DEF Next, Thread

(* The steps of a receiving worker leave it receiving, or make it leave.   *)
LEMMA ReceiveFrame ==
    ASSUME Types, NEW w \in Workers,
           ReceiveFor(w) \/ Disconnected(w) \/ ReceiveTimesOut(w)
    PROVE  /\ UNCHANGED <<gate, process, command, active, cancels, stdin, gateway>>
           /\ worker[w].pc \in {"starting", "waiting"}
           /\ worker' \in [Workers -> Threads]
           /\ worker'[w].pc \in {"starting", "waiting", "leaving"}
           /\ \A v \in Workers \ {w} : worker'[v] = worker[v]
  <1>1. /\ UNCHANGED <<gate, process, command, active, cancels, stdin, gateway>>
        /\ worker[w].pc \in {"starting", "waiting"}
    BY DEF ReceiveFor, Disconnected, ReceiveTimesOut, Receiving
  <1>2. \/ worker' = worker
        \/ Goes(w, "waiting")
        \/ \E how \in Outcomes, poisons \in BOOLEAN : Leaves(w, how, poisons)
    <2>1. CASE Disconnected(w) \/ ReceiveTimesOut(w)
      BY <2>1 DEF Disconnected, ReceiveTimesOut, Outcomes
    <2>2. CASE ReceiveFor(w)
      BY <2>2 DEF ReceiveFor, Outcomes
    <2> QED
      BY <2>1, <2>2
  <1>3. CASE worker' = worker
    BY <1>1, <1>3 DEF Types
  <1>4. CASE Goes(w, "waiting")
    <2>1. "waiting" \in WorkerPcs
      BY DEF WorkerPcs, InFlight
    <2> QED
      BY <1>1, <1>4, <2>1, GoesTo
  <1>5. CASE \E how \in Outcomes, poisons \in BOOLEAN : Leaves(w, how, poisons)
    BY <1>1, <1>5, LeavesFor
  <1> QED
    BY <1>2, <1>3, <1>4, <1>5

(* A wave hands a task to some workers and leaves the others idle.         *)
LEMMA WaveFrame ==
    ASSUME ControlInv, BeginWave
    PROVE  /\ worker' \in [Workers -> Threads]
           /\ \A w \in Workers : worker'[w].pc \in {"idle", "spawned"}
  <1>1. PICK tasks \in Workers :
          worker' = [w \in Workers |->
              IF w <= tasks THEN [worker[w] EXCEPT !.pc = "spawned", !.outcome = "none"]
              ELSE worker[w]]
    BY DEF BeginWave
  <1>2. ASSUME NEW w \in Workers
        PROVE  worker'[w] \in Threads /\ worker'[w].pc \in {"idle", "spawned"}
    <2> DEFINE t == [worker[w] EXCEPT !.pc = "spawned", !.outcome = "none"]
    <2>1. worker[w] \in Threads /\ worker[w].pc = "idle"
      BY DEF ControlInv, Types, Control, BeginWave
    <2>2. "spawned" \in WorkerPcs /\ "none" \in Outcomes
      BY DEF WorkerPcs, Outcomes
    <2>3. t \in Threads /\ t.pc = "spawned"
      BY <2>1, <2>2, ThreadUpdate, Zenon
    <2> HIDE DEF t
    <2>4. worker'[w] = IF w <= tasks THEN t ELSE worker[w]
      BY <1>1 DEF t
    <2> QED
      BY <2>1, <2>3, <2>4
  <1> QED
    BY <1>1, <1>2

-----------------------------------------------------------------------------
(* ControlInv is inductive.                                                *)
LEMMA ControlStep ==
    ASSUME ControlInv, Next
    PROVE  ControlInv'
  <1>a. Types /\ Control
    BY DEF ControlInv
  <1>1. CASE BeginWave
    <2>1. command' = [pc |-> "wave", wave |-> command.wave + 1,
                      generation |-> gate.generation, interrupted |-> gate.pending]
          /\ UNCHANGED <<gate, process, active>> /\ command.pc = "between"
      BY <1>1 DEF BeginWave
    <2>2. gate.generation \in Nat /\ command.wave \in Nat /\ gate.pending \in BOOLEAN
      BY <1>a DEF Types
    <2>3. Types'
      BY <1>a, <1>1, <2>1, <2>2, WaveFrame DEF ControlInv, Types
    <2>4. \A w \in Workers : active[w] = None
      BY <1>a, <2>1 DEF Control, InFlight
    <2>5. command'.pc = "wave" /\ command'.wave # 0
      BY <2>1, <2>2
    <2>6. gate'.registered
      BY <1>a, <2>1 DEF Control
    <2>7. Control'
      BY <1>1, <2>1, <2>4, <2>5, <2>6, WaveFrame DEF ControlInv, Control, InFlight
    <2> QED
      BY <2>3, <2>7 DEF ControlInv
  <1>2. CASE EndWave \/ Finished
    <2>1. PICK pc \in {"between", "over"} : command' = [command EXCEPT !.pc = pc]
      BY <1>2 DEF EndWave, Finished
    <2>2. UNCHANGED <<gate, process, worker, active>>
      BY <1>2 DEF EndWave, Finished
    <2>3. command.pc # "over" /\ \A w \in Workers : worker[w].pc = "idle"
      BY <1>2, <1>a DEF EndWave, Finished, Control
    <2>4. command' \in [pc : {"between", "wave", "over"}, wave : Nat, generation : Nat,
                        interrupted : BOOLEAN]
          /\ command'.wave = command.wave /\ command'.pc = pc
      BY <1>a, <2>1 DEF Types
    <2>5. Types'
      BY <1>a, <2>2, <2>4 DEF Types
    <2>6. Control'
      BY <1>a, <2>2, <2>3, <2>4 DEF Control, InFlight
    <2> QED
      BY <2>5, <2>6 DEF ControlInv
  <1>3. CASE Interrupt
    <2>1. gate'.registered = gate.registered /\ gate' \in [registered : BOOLEAN,
                                          pending : BOOLEAN, generation : Nat]
      <3> DEFINE g == IF gate.pending THEN gate.generation ELSE gate.generation + 1
      <3>1. g \in Nat
        BY <1>a DEF Types
      <3>2. gate' = [gate EXCEPT !.pending = TRUE, !.generation = g]
        BY <1>3 DEF Interrupt
      <3> HIDE DEF g
      <3> QED
        BY <3>1, <3>2, <1>a DEF Types
    <2>2. process' \in {"exiting", process} /\ UNCHANGED <<command, worker, active>>
      BY <1>3 DEF Interrupt
    <2>3. Types'
      BY <1>a, <2>1, <2>2 DEF Types
    <2>4. Control'
      BY <1>a, <2>1, <2>2 DEF Control
    <2> QED
      BY <2>3, <2>4 DEF ControlInv
  <1>4. CASE Exit
    <2>1. Types'
      BY <1>4 DEF Exit, Launched, Types, Threads, Outcomes, WorkerPcs, None
    <2>2. Control'
      BY <1>4 DEF Exit, Launched, Control, InFlight
    <2> QED
      BY <2>1, <2>2 DEF ControlInv
  <1>5. CASE Done
    BY <1>a, <1>5 DEF Done, vars, ControlInv, Types, Control
  <1>6. ASSUME NEW w \in Workers, SendComplete(w) PROVE ControlInv'
    <2>1. command.pc = "wave" /\ worker[w].pc = "spawned"
      BY <1>6, <1>a DEF SendComplete, Types, Control
    <2>2. UNCHANGED <<gate, process, command>>
      BY <1>6 DEF SendComplete
    <2>3. CASE Goes(w, "writing") /\ active' = [active EXCEPT ![w] = command.wave]
      <3>1. "writing" \in WorkerPcs
        BY DEF WorkerPcs, InFlight
      <3>2. /\ worker' \in [Workers -> Threads]
            /\ worker'[w].pc = "writing"
            /\ \A v \in Workers \ {w} : worker'[v] = worker[v]
        BY <1>a, <2>3, <3>1, GoesTo
      <3>3. Types'
        BY <1>a, <2>2, <2>3, <3>2 DEF Types
      <3>4. Control'
        BY <1>a, <2>1, <2>2, <2>3, <3>2 DEF Types, Control, InFlight
      <3> QED
        BY <3>3, <3>4 DEF ControlInv
    <2>4. CASE /\ worker' = [worker EXCEPT ![w].pc = "idle", ![w].outcome = "refused"]
               /\ UNCHANGED active
      <3> DEFINE t == [worker[w] EXCEPT !.pc = "idle", !.outcome = "refused"]
      <3>1. worker[w] \in Threads
        BY <1>a DEF Types
      <3>2. t \in Threads /\ t.pc = "idle"
        BY <3>1 DEF Threads, WorkerPcs, Outcomes
      <3>3. worker' = [worker EXCEPT ![w] = t]
        BY <2>4, <1>a DEF Types
      <3>4. active' = active
        BY <2>4
      <3> HIDE DEF t
      <3>5. Types'
        BY <1>a, <2>2, <3>2, <3>3, <3>4 DEF Types
      <3>6. Control'
        BY <1>a, <2>1, <2>2, <3>2, <3>3, <3>4 DEF Types, Control, InFlight
      <3> QED
        BY <3>5, <3>6 DEF ControlInv
    <2> QED
      BY <1>6, <2>3, <2>4 DEF SendComplete
  <1>7. ASSUME NEW w \in Workers, WriteComplete(w) PROVE ControlInv'
    <2>1. UNCHANGED <<gate, process, command, active>> /\ worker[w].pc = "writing"
      BY <1>7 DEF WriteComplete
    <2>2. /\ worker' \in [Workers -> Threads]
          /\ worker'[w].pc \in {"starting", "leaving"}
          /\ \A v \in Workers \ {w} : worker'[v] = worker[v]
      <3>1. CASE Goes(w, "starting")
        <4>1. "starting" \in WorkerPcs
          BY DEF WorkerPcs, InFlight
        <4> QED
          BY <1>a, <3>1, <4>1, GoesTo
      <3>2. CASE Leaves(w, "lost", TRUE)
        <4>1. "lost" \in Outcomes
          BY DEF Outcomes
        <4> QED
          BY <1>a, <3>2, <4>1, LeavesFor
      <3> QED
        BY <1>7, <3>1, <3>2 DEF WriteComplete
    <2>3. Types'
      BY <1>a, <2>1, <2>2 DEF Types
    <2>4. Control'
      BY <1>a, <2>1, <2>2 DEF Control, InFlight
    <2> QED
      BY <2>3, <2>4 DEF ControlInv
  <1>8. ASSUME NEW w \in Workers,
               ReceiveFor(w) \/ Disconnected(w) \/ ReceiveTimesOut(w)
        PROVE  ControlInv'
    <2>1. Types'
      BY <1>a, <1>8, ReceiveFrame DEF Types
    <2>2. Control'
      BY <1>a, <1>8, ReceiveFrame DEF Control, InFlight
    <2> QED
      BY <2>1, <2>2 DEF ControlInv
  <1>9. ASSUME NEW w \in Workers, DropGuard(w) PROVE ControlInv'
    <2>1. UNCHANGED <<process, command>> /\ worker[w].pc = "leaving"
          /\ active' = [active EXCEPT ![w] = None] /\ Goes(w, "idle")
      BY <1>9 DEF DropGuard
    <2>2. "idle" \in WorkerPcs
      BY DEF WorkerPcs
    <2>3. /\ worker' \in [Workers -> Threads]
          /\ worker'[w].pc = "idle"
          /\ \A v \in Workers \ {w} : worker'[v] = worker[v]
      BY <1>a, <2>1, <2>2, GoesTo
    <2>4. gate'.registered = gate.registered /\ gate' \in [registered : BOOLEAN,
                                          pending : BOOLEAN, generation : Nat]
      <3>1. PICK p \in BOOLEAN : gate' = [gate EXCEPT !.pending = p]
        BY <1>9, <1>a DEF DropGuard, Types
      <3> QED
        BY <1>a, <3>1 DEF Types
    <2>5. Types'
      BY <1>a, <2>1, <2>3, <2>4 DEF Types, None
    <2>6. Control'
      BY <1>a, <2>1, <2>3, <2>4 DEF Types, Control, InFlight
    <2> QED
      BY <2>5, <2>6 DEF ControlInv
  <1>10. ASSUME NEW w \in Workers, WriteCancel(w) \/ Gateway(w) PROVE ControlInv'
    <2>1. UNCHANGED <<gate, process, command, worker, active>>
      BY <1>10, GatewayFrame DEF WriteCancel
    <2> QED
      BY <1>a, <2>1 DEF ControlInv, Types, Control
  <1>11. ASSUME NEW w \in Workers, DropWorker(w) PROVE ControlInv'
    <2>1. UNCHANGED <<process, command, active>> /\ command.pc = "over"
          /\ worker[w].pc = "idle"
      BY <1>11 DEF DropWorker
    <2>2. /\ worker' \in [Workers -> Threads]
          /\ worker'[w].pc \in {"grace", "dropped"}
          /\ \A v \in Workers \ {w} : worker'[v] = worker[v]
      <3>1. {"grace", "dropped"} \subseteq WorkerPcs
        BY DEF WorkerPcs
      <3>2. Goes(w, "grace") \/ Goes(w, "dropped")
        BY <1>11 DEF DropWorker
      <3> QED
        BY <1>a, <3>1, <3>2, GoesTo
    <2>3. gate' \in [registered : BOOLEAN, pending : BOOLEAN, generation : Nat]
      BY <1>a, <1>11 DEF DropWorker, Types
    <2>4. Types'
      BY <1>a, <2>1, <2>2, <2>3 DEF Types
    <2>5. Control'
      BY <1>a, <2>1, <2>2 DEF Control, InFlight
    <2> QED
      BY <2>4, <2>5 DEF ControlInv
  <1>12. ASSUME NEW w \in Workers, Reap(w) PROVE ControlInv'
    <2>1. UNCHANGED <<gate, process, command, active>> /\ worker[w].pc = "grace"
          /\ Goes(w, "dropped")
      BY <1>12 DEF Reap
    <2>2. "dropped" \in WorkerPcs
      BY DEF WorkerPcs
    <2>3. /\ worker' \in [Workers -> Threads]
          /\ worker'[w].pc = "dropped"
          /\ \A v \in Workers \ {w} : worker'[v] = worker[v]
      BY <1>a, <2>1, <2>2, GoesTo
    <2>4. Types'
      BY <1>a, <2>1, <2>3 DEF Types
    <2>5. Control'
      BY <1>a, <2>1, <2>3 DEF Control, InFlight
    <2> QED
      BY <2>4, <2>5 DEF ControlInv
  <1> QED
    BY <1>1, <1>2, <1>3, <1>4, <1>5, <1>6, <1>7, <1>8, <1>9, <1>10, <1>11, <1>12, NextCases

LEMMA ControlInit ==
    ASSUME Init
    PROVE  ControlInv
  <1>1. Types
    BY DEF Init, Launched, Types, Threads, Outcomes, WorkerPcs, None
  <1>2. Control
    BY DEF Init, Launched, Control, InFlight, None
  <1> QED
    BY <1>1, <1>2 DEF ControlInv

(* Type correctness, and that requests are in flight in a wave only, under *)
(* registered controls (process.rs register_controls and Drop).            *)
THEOREM ControlInvariant == Spec => []ControlInv
  <1>1. ControlInv /\ UNCHANGED vars => ControlInv'
    BY DEF vars, ControlInv, Types, Control
  <1> QED
    BY <1>1, ControlInit, ControlStep, PTL DEF Spec

-----------------------------------------------------------------------------
(* The pool implements the contract of Ctrl-C.                             *)

Busy == {w \in Workers : active[w] # None}

(* What ConsoleInterrupt's variables stand for is left alone.              *)
LEMMA ConsoleStutters ==
    ASSUME UNCHANGED <<active, gate, process>>
    PROVE  UNCHANGED Console!console
  BY DEF Console!console

(* Only a worker of a wave has a request in flight.                        *)
LEMMA BusyInWave ==
    ASSUME ControlInv, NEW w \in Workers
    PROVE  /\ w \in Busy <=> worker[w].pc \in InFlight
           /\ w \in Busy => command.pc = "wave" /\ gate.registered
  <1>1. Types /\ Control
    BY DEF ControlInv
  <1>2. worker[w].pc \in InFlight => command.pc = "wave"
    <2>1. command.pc \in {"between", "wave", "over"}
      BY <1>1 DEF Types
    <2> QED
      BY <1>1, <2>1 DEF Control, InFlight
  <1>3. worker[w].pc \in InFlight => command.wave # 0 /\ gate.registered
    BY <1>1, <1>2 DEF Control
  <1>4. active[w] = IF worker[w].pc \in InFlight THEN command.wave ELSE None
    BY <1>1 DEF Control
  <1> QED
    BY <1>2, <1>3, <1>4 DEF Busy, None

(* Ctrl-C tells every request in flight, or there is none to tell.         *)
LEMMA InterruptIsCtrlC ==
    ASSUME ControlInv, Interrupt
    PROVE  Console!CtrlC
  <1> DEFINE told == IF gate.registered /\ ~gate.pending THEN Busy ELSE {}
  <1>1. /\ process = "running"
        /\ process' = IF told = {} THEN "exiting" ELSE process
        /\ active' = active
    BY DEF Interrupt, Busy
  <1>2. gate'.pending
    <2>1. gate \in [registered : BOOLEAN, pending : BOOLEAN, generation : Nat]
      BY DEF ControlInv, Types
    <2> DEFINE g == IF gate.pending THEN gate.generation ELSE gate.generation + 1
    <2>2. gate' = [gate EXCEPT !.pending = TRUE, !.generation = g]
      BY DEF Interrupt
    <2> HIDE DEF g
    <2> QED
      BY <2>1, <2>2
  <1>3. Busy # {} => gate.registered
    BY BusyInWave DEF Busy
  <1>4. process' # "running" <=> gate.pending \/ Busy = {}
    BY <1>1, <1>3
  <1> QED
    BY <1>1, <1>2, <1>4 DEF Console!CtrlC, Busy

(* A request is dispatched, or refused because of a Ctrl-C.                *)
LEMMA SendIsDispatched ==
    ASSUME ControlInv, NEW w \in Workers, SendComplete(w)
    PROVE  Console!Dispatched(w) \/ UNCHANGED Console!console
  <1>1. Types /\ Control
    BY DEF ControlInv
  <1>2. UNCHANGED <<gate, process, command>>
    BY DEF SendComplete
  <1>3. CASE ~Admitted
    BY <1>2, <1>3, ConsoleStutters DEF SendComplete
  <1>4. CASE Admitted
    <2>1. command.pc = "wave"
      BY <1>1 DEF SendComplete, Types, Control
    <2>2. gate.registered /\ command.wave # None
      BY <1>1, <2>1 DEF Control, None
    <2>3. ~gate.pending
      BY <1>4, <2>2 DEF Admitted
    <2>4. active' = [active EXCEPT ![w] = command.wave]
      BY <1>4 DEF SendComplete
    <2>5. {v \in Workers : active'[v] # None} = Busy \cup {w}
      BY <1>1, <2>2, <2>4 DEF Types, Busy
    <2> QED
      BY <1>2, <2>3, <2>5 DEF Console!Dispatched, Busy
  <1> QED
    BY <1>3, <1>4

(* The guard of the last request in flight forgets the interrupt.          *)
LEMMA GuardIsEnded ==
    ASSUME ControlInv, NEW w \in Workers, DropGuard(w)
    PROVE  Console!Ended(w)
  <1>1. gate \in [registered : BOOLEAN, pending : BOOLEAN, generation : Nat]
        /\ active \in [Workers -> Nat]
    BY DEF ControlInv, Types
  <1>2. w \in Busy /\ gate.registered
    BY BusyInWave DEF DropGuard, InFlight
  <1>3. active' = [active EXCEPT ![w] = None] /\ process' = process
    BY DEF DropGuard
  <1>4. {v \in Workers : active'[v] # None} = Busy \ {w}
    BY <1>1, <1>3 DEF Busy
  <1> DEFINE p == gate.pending /\ (gate.registered => \E v \in Workers : active'[v] # None)
  <1>5. gate' = [gate EXCEPT !.pending = p]
    BY DEF DropGuard
  <1>6. gate'.pending = p
    BY <1>1, <1>5
  <1>7. gate'.pending = (gate.pending /\ {v \in Workers : active'[v] # None} # {})
    BY <1>2, <1>6
  <1> QED
    BY <1>2, <1>3, <1>4, <1>7 DEF Console!Ended, Busy

(* The first worker that is dropped closes the console to the pool.        *)
LEMMA DropIsClosed ==
    ASSUME ControlInv, NEW w \in Workers, DropWorker(w)
    PROVE  Console!Closed \/ UNCHANGED Console!console
  <1>1. UNCHANGED <<process, active>> /\ command.pc = "over"
    BY DEF DropWorker
  <1>2. CASE ~gate.registered
    BY <1>1, <1>2, ConsoleStutters DEF DropWorker
  <1>3. CASE gate.registered
    <2>1. gate' = [gate EXCEPT !.registered = FALSE, !.pending = FALSE]
      BY <1>3 DEF DropWorker
    <2>2. ~gate'.pending
      BY <2>1 DEF ControlInv, Types
    <2>3. Busy = {}
      BY <1>1, BusyInWave DEF Busy
    <2> QED
      BY <1>1, <2>2, <2>3 DEF Console!Closed, Busy
  <1> QED
    BY <1>2, <1>3

(* The memory of the process is gone.                                      *)
LEMMA ExitIsExited ==
    ASSUME Exit
    PROVE  Console!Exited
  BY DEF Exit, Launched, Console!Exited

LEMMA ConsoleStep ==
    ASSUME ControlInv, Next
    PROVE  Console!ConsoleNext \/ UNCHANGED Console!console
  <1>1. CASE BeginWave \/ EndWave \/ Finished \/ Done
    BY <1>1, ConsoleStutters DEF BeginWave, EndWave, Finished, Done, vars
  <1>2. CASE Interrupt
    BY <1>2, InterruptIsCtrlC DEF Console!ConsoleNext
  <1>3. CASE Exit
    BY <1>3, ExitIsExited DEF Console!ConsoleNext
  <1>4. ASSUME NEW w \in Workers, SendComplete(w)
        PROVE  Console!ConsoleNext \/ UNCHANGED Console!console
    BY <1>4, SendIsDispatched DEF Console!ConsoleNext
  <1>5. ASSUME NEW w \in Workers, DropGuard(w)
        PROVE  Console!ConsoleNext \/ UNCHANGED Console!console
    BY <1>5, GuardIsEnded DEF Console!ConsoleNext
  <1>6. ASSUME NEW w \in Workers, DropWorker(w)
        PROVE  Console!ConsoleNext \/ UNCHANGED Console!console
    BY <1>6, DropIsClosed DEF Console!ConsoleNext
  <1>7. ASSUME NEW w \in Workers,
               \/ WriteComplete(w) \/ WriteCancel(w) \/ Reap(w)
               \/ ReceiveFor(w) \/ Disconnected(w) \/ ReceiveTimesOut(w) \/ Gateway(w)
        PROVE  UNCHANGED Console!console
    <2>1. UNCHANGED <<active, gate, process>>
      BY <1>7, GatewayFrame
      DEF WriteComplete, WriteCancel, Reap, ReceiveFor, Disconnected, ReceiveTimesOut
    <2> QED
      BY <2>1, ConsoleStutters
  <1> QED
    BY <1>1, <1>2, <1>3, <1>4, <1>5, <1>6, <1>7, NextCases

(* What the user sees of an interrupt is what ConsoleInterrupt promises:   *)
(* the pool of process.rs implements it for any number of gateways, waves, *)
(* stalls and deaths.                                                      *)
THEOREM InterruptImplemented == Spec => ImplementsConsole
  <1>1. Init => Console!ConsoleInit
    BY DEF Init, Launched, Console!ConsoleInit, None
  <1>2. ControlInv /\ [Next]_vars => [Console!ConsoleNext]_(Console!console)
    <2>1. UNCHANGED vars => UNCHANGED Console!console
      BY ConsoleStutters DEF vars
    <2> QED
      BY <2>1, ConsoleStep
  <1> QED
    BY <1>1, <1>2, ControlInvariant, PTL DEF Spec, ImplementsConsole, Console!ConsoleSpec

-----------------------------------------------------------------------------
(* A Ctrl-C reaches every request in flight.  What is added for it follows *)
(* the number of the wave through a worker's pipe to its gateway: cancels  *)
(* of the wave come after its request, and the request comes once.         *)

Messages == [kind : {"complete", "cancel", "shutdown"}, id : Nat]

Gateways == [active : Nat, reason : {"none", "canceled", "timeout"},
             phase : {"none", "resolving", "attempt", "backoff"},
             timer : BOOLEAN, up : BOOLEAN]

PipeTypes ==
    /\ cancels \in [Workers -> Seq(Nat)]
    /\ stdin \in [Workers -> Seq(Messages)]
    /\ gateway \in [Workers -> Gateways]

(* No number is of a wave to come. *)
PastWaves(w) ==
    /\ \A i \in DOMAIN cancels[w] : cancels[w][i] <= command.wave
    /\ \A i \in DOMAIN stdin[w] : stdin[w][i].id <= command.wave
    /\ gateway[w].active <= command.wave

(* Before its request is written, a worker's pipe holds nothing of it.     *)
Unwritten(w) ==
    /\ worker[w].pc \in {"spawned", "writing"} =>
          /\ \A i \in DOMAIN stdin[w] : stdin[w][i].id # command.wave
          /\ gateway[w].active # command.wave
    /\ worker[w].pc = "spawned" =>
          \A i \in DOMAIN cancels[w] : cancels[w][i] # command.wave

IsRequest(message) == message = Frame("complete", command.wave)

(* The request of the wave is written once, and before any cancel of it.   *)
InOrder(w) ==
    /\ \A i, j \in DOMAIN stdin[w] :
          i < j /\ IsRequest(stdin[w][j]) => stdin[w][i].id # command.wave
    /\ gateway[w].active = command.wave =>
          \A i \in DOMAIN stdin[w] : ~IsRequest(stdin[w][i])

PipeOK(w) ==
    /\ PastWaves(w)
    /\ command.pc = "wave" => Unwritten(w) /\ InOrder(w)

Reached(w) ==
    active[w] # None /\ command.generation # gate.generation => Canceling(w)

ReachInv ==
    /\ ControlInv
    /\ PipeTypes
    /\ \A w \in Workers : PipeOK(w) /\ Reached(w)

(* What a worker's clauses depend on. *)
LEMMA PipeUnchanged ==
    ASSUME NEW w \in Workers, PipeOK(w),
           command' = command, worker'[w].pc = worker[w].pc,
           cancels'[w] = cancels[w], stdin'[w] = stdin[w], gateway'[w] = gateway[w]
    PROVE  PipeOK(w)'
  BY DEF PipeOK, PastWaves, Unwritten, InOrder, IsRequest, Frame

LEMMA ReachedUnchanged ==
    ASSUME NEW w \in Workers, Reached(w),
           command' = command, active'[w] = active[w],
           gate'.generation = gate.generation,
           worker'[w].pc = worker[w].pc \/ worker'[w].pc # "writing",
           cancels'[w] = cancels[w], stdin'[w] = stdin[w], gateway'[w] = gateway[w]
    PROVE  Reached(w)'
  BY DEF Reached, Canceling, Written, Aborted, Frame

(* A worker with no request in flight has nothing to reach.                *)
LEMMA ReachedIdle ==
    ASSUME NEW w \in Workers, active'[w] = None
    PROVE  Reached(w)'
  BY DEF Reached

-----------------------------------------------------------------------------
(* What Append and Tail do to the elements of a queue.                     *)
LEMMA Appended ==
    ASSUME NEW S, NEW q \in Seq(S), NEW e \in S
    PROVE  /\ Append(q, e) \in Seq(S)
           /\ \A i \in DOMAIN q : i \in DOMAIN Append(q, e) /\ Append(q, e)[i] = q[i]
           /\ \E n \in DOMAIN Append(q, e) :
                 /\ Append(q, e)[n] = e
                 /\ \A i \in DOMAIN Append(q, e) : i # n => i \in DOMAIN q /\ i < n
  <1>1. /\ Append(q, e) \in Seq(S)
        /\ Len(Append(q, e)) = Len(q) + 1
        /\ \A i \in 1 .. Len(q) : Append(q, e)[i] = q[i]
        /\ Append(q, e)[Len(q) + 1] = e
    BY AppendProperties
  <1>2. Len(q) \in Nat /\ DOMAIN q = 1 .. Len(q)
    OBVIOUS
  <1>3. DOMAIN Append(q, e) = 1 .. Len(Append(q, e))
    BY <1>1
  <1> DEFINE a == Append(q, e)
  <1>4. DOMAIN a = 1 .. Len(q) + 1
    BY <1>1, <1>3
  <1> HIDE DEF a
  <1>5. Len(q) + 1 \in DOMAIN a
    BY <1>2, <1>4
  <1>6. \A i \in DOMAIN a : i # Len(q) + 1 => i \in DOMAIN q /\ i < Len(q) + 1
    BY <1>2, <1>4
  <1>7. \A i \in DOMAIN q : i \in DOMAIN a
    BY <1>2, <1>4
  <1> QED
    BY <1>1, <1>2, <1>5, <1>6, <1>7 DEF a

(* An interrupt adds one wave to a control pipe: every other element of the
   longer pipe was there before, at the same place. *)
LEMMA AppendedWave ==
    ASSUME NEW q \in Seq(Nat), NEW e \in Nat
    PROVE  /\ Append(q, e) \in Seq(Nat)
           /\ \E n \in DOMAIN Append(q, e) :
                 /\ Append(q, e)[n] = e
                 /\ \A i \in DOMAIN Append(q, e) :
                       i # n => i \in DOMAIN q /\ Append(q, e)[i] = q[i]
  <1>1. Append(q, e) \in Seq(Nat)
    BY Appended
  <1>2. \A i \in DOMAIN q : Append(q, e)[i] = q[i]
    BY Appended
  <1>3. PICK n \in DOMAIN Append(q, e) :
           /\ Append(q, e)[n] = e
           /\ \A i \in DOMAIN Append(q, e) : i # n => i \in DOMAIN q /\ i < n
    BY Appended
  <1> DEFINE a == Append(q, e)
  <1>4. \A i \in DOMAIN a : i # n => i \in DOMAIN q /\ a[i] = q[i]
    BY <1>2, <1>3, Zenon
  <1> QED
    BY <1>1, <1>3, <1>4, Zenon

LEMMA Shifted ==
    ASSUME NEW S, NEW q \in Seq(S), q # <<>>
    PROVE  /\ Tail(q) \in Seq(S)
           /\ 1 \in DOMAIN q /\ Head(q) = q[1] /\ Head(q) \in S
           /\ \A i \in DOMAIN Tail(q) :
                 i \in Nat /\ i + 1 \in DOMAIN q /\ 1 < i + 1 /\ Tail(q)[i] = q[i + 1]
           /\ \A i \in DOMAIN q : i # 1 => \E j \in DOMAIN Tail(q) : i = j + 1
  <1>1. /\ Tail(q) \in Seq(S)
        /\ Len(Tail(q)) = Len(q) - 1
        /\ \A i \in 1 .. Len(Tail(q)) : Tail(q)[i] = q[i + 1]
        /\ Head(q) \in S
    BY HeadTailProperties
  <1>2. Len(q) \in Nat /\ DOMAIN q = 1 .. Len(q) /\ Len(q) # 0 /\ Head(q) = q[1]
    BY EmptySeq
  <1>3. DOMAIN Tail(q) = 1 .. Len(Tail(q))
    BY <1>1
  <1> DEFINE t == Tail(q)
  <1>4. DOMAIN t = 1 .. Len(q) - 1 /\ \A i \in DOMAIN t : t[i] = q[i + 1]
    BY <1>1, <1>3
  <1> HIDE DEF t
  <1>5. \A i \in DOMAIN t : i \in Nat /\ i + 1 \in DOMAIN q /\ 1 < i + 1
    BY <1>2, <1>4
  <1>6. \A i \in DOMAIN q : i # 1 => i - 1 \in DOMAIN t /\ i = (i - 1) + 1
    BY <1>2, <1>4
  <1> QED
    BY <1>1, <1>2, <1>4, <1>5, <1>6 DEF t

(* A worker whose own state is left alone keeps its clauses.               *)
LEMMA OthersKept ==
    ASSUME ReachInv, NEW w \in Workers,
           command' = command, gate'.generation = gate.generation,
           \A v \in Workers \ {w} :
               /\ worker'[v] = worker[v] /\ active'[v] = active[v]
               /\ cancels'[v] = cancels[v] /\ stdin'[v] = stdin[v]
               /\ gateway'[v] = gateway[v]
    PROVE  \A v \in Workers \ {w} : PipeOK(v)' /\ Reached(v)'
  <1>1. \A v \in Workers : PipeOK(v) /\ Reached(v)
    BY DEF ReachInv
  <1> QED
    BY <1>1, PipeUnchanged, ReachedUnchanged, Zenon

(* A frame and its fields. *)
LEMMA FrameFields ==
    ASSUME NEW kind \in {"complete", "cancel", "shutdown"}, NEW id \in Nat
    PROVE  /\ Frame(kind, id) \in Messages
           /\ Frame(kind, id).kind = kind /\ Frame(kind, id).id = id
  BY DEF Frame, Messages

LEMMA MessageIsFrame ==
    ASSUME NEW message \in Messages
    PROVE  message = Frame(message.kind, message.id)
  BY DEF Frame, Messages

-----------------------------------------------------------------------------
(* The steps of a gateway, as its worker's clauses see them.               *)

TakesComplete(w) ==
    /\ stdin[w] # <<>> /\ stdin'[w] = Tail(stdin[w])
    /\ Head(stdin[w]).kind = "complete"
    /\ \/ gateway[w].active # None /\ gateway'[w] = gateway[w]
       \/ gateway[w].active = None /\ gateway'[w].active = Head(stdin[w]).id

TakesCancel(w) ==
    /\ stdin[w] # <<>> /\ stdin'[w] = Tail(stdin[w])
    /\ Head(stdin[w]).kind = "cancel"
    /\ gateway'[w].active = gateway[w].active
    /\ gateway[w].active = Head(stdin[w]).id => gateway'[w].reason = "canceled"
    /\ gateway[w].reason # "none" => gateway'[w].reason # "none"

Stops(w) ==
    /\ \/ stdin[w] # <<>> /\ stdin'[w] = Tail(stdin[w])
       \/ stdin'[w] = <<>>
    /\ gateway'[w] = Gone

Works(w) ==
    /\ stdin'[w] = stdin[w]
    /\ gateway'[w].active = gateway[w].active
    /\ gateway[w].reason # "none" => gateway'[w].reason # "none"

Settles(w) ==
    /\ stdin'[w] = stdin[w]
    /\ gateway'[w] = Waiting

LEMMA WaitingTypes ==
    /\ Waiting \in Gateways /\ Waiting.active = None
    /\ Gone \in Gateways /\ Gone.active = None /\ ~Gone.up
  BY DEF Gateways, Waiting, Gone, None

LEMMA HandleCases ==
    ASSUME PipeTypes, NEW w \in Workers, HandleMessage(w)
    PROVE  /\ PipeTypes'
           /\ \A v \in Workers \ {w} : stdin'[v] = stdin[v] /\ gateway'[v] = gateway[v]
           /\ TakesComplete(w) \/ TakesCancel(w) \/ Stops(w)
  <1> DEFINE message == Head(stdin[w])
             g == gateway[w]
  <1>1. /\ stdin[w] # <<>> /\ stdin' = [stdin EXCEPT ![w] = Tail(stdin[w])]
        /\ cancels' = cancels
    BY DEF HandleMessage, RustUnchanged
  <1>2. /\ Tail(stdin[w]) \in Seq(Messages) /\ message \in Messages
    BY <1>1, Shifted DEF PipeTypes
  <1>3. /\ stdin' \in [Workers -> Seq(Messages)]
        /\ stdin'[w] = Tail(stdin[w])
        /\ \A v \in Workers \ {w} : stdin'[v] = stdin[v]
    BY <1>1, <1>2 DEF PipeTypes
  <1>4. g \in Gateways /\ gateway \in [Workers -> Gateways]
    BY DEF PipeTypes
  <1>5. \/ message.kind = "complete" /\ Complete(w, message.id)
        \/ message.kind = "cancel" /\ Cancel(w, message.id)
        \/ message.kind = "shutdown" /\ Shutdown(w)
    BY DEF HandleMessage
  <1>6. ASSUME NEW h \in Gateways, gateway' = [gateway EXCEPT ![w] = h]
        PROVE  /\ PipeTypes' /\ gateway'[w] = h
               /\ \A v \in Workers \ {w} : gateway'[v] = gateway[v]
    BY <1>1, <1>3, <1>4, <1>6 DEF PipeTypes
  <1>7. ASSUME gateway' = gateway
        PROVE  /\ PipeTypes' /\ \A v \in Workers : gateway'[v] = gateway[v]
    BY <1>1, <1>3, <1>4, <1>7 DEF PipeTypes
  <1>8. CASE message.kind = "complete" /\ Complete(w, message.id)
    <2>1. CASE g.active # None
      <3>1. gateway' = gateway
        BY <1>8, <2>1 DEF Complete
      <3> QED
        BY <1>1, <1>3, <1>7, <1>8, <2>1, <3>1 DEF TakesComplete
    <2>2. CASE g.active = None
      <3> DEFINE h == [Waiting EXCEPT !.active = message.id, !.phase = "resolving",
                                      !.timer = TRUE]
      <3>1. gateway' = [gateway EXCEPT ![w] = h]
        BY <1>8, <2>2 DEF Complete
      <3>2. h \in Gateways /\ h.active = message.id
        <4>1. message.id \in Nat
          BY <1>2 DEF Messages
        <4> QED
          BY <4>1 DEF Gateways, Waiting
      <3> HIDE DEF h
      <3>3. gateway'[w].active = message.id
        BY <1>6, <3>1, <3>2
      <3> QED
        BY <1>1, <1>3, <1>6, <1>8, <2>2, <3>1, <3>2, <3>3 DEF TakesComplete
    <2> QED
      BY <2>1, <2>2
  <1>9. CASE message.kind = "cancel" /\ Cancel(w, message.id)
    <2>1. CASE g.active = message.id
      <3> DEFINE h == [g EXCEPT !.reason = "canceled"]
      <3>1. gateway' = [gateway EXCEPT ![w] = h]
        BY <1>9, <2>1 DEF Cancel, Finds
      <3>2. h \in Gateways /\ h.active = g.active /\ h.reason = "canceled"
        BY <1>4 DEF Gateways
      <3> HIDE DEF h
      <3>3. gateway'[w].active = g.active /\ gateway'[w].reason = "canceled"
        BY <1>6, <3>1, <3>2
      <3> QED
        BY <1>1, <1>3, <1>6, <1>9, <3>1, <3>2, <3>3 DEF TakesCancel
    <2>2. CASE g.active # message.id
      <3>1. gateway' = gateway
        BY <1>9, <2>2 DEF Cancel, Finds
      <3> QED
        BY <1>1, <1>3, <1>7, <1>9, <2>2, <3>1 DEF TakesCancel
    <2> QED
      BY <2>1, <2>2
  <1>10. CASE message.kind = "shutdown" /\ Shutdown(w)
    <2>1. gateway' = [gateway EXCEPT ![w] = Gone]
      BY <1>10 DEF Shutdown
    <2> QED
      BY <1>1, <1>3, <1>6, <2>1, WaitingTypes DEF Stops
  <1> QED
    BY <1>5, <1>8, <1>9, <1>10

(* A gateway that works on its request, or ends it. *)
LEMMA WorkCases ==
    ASSUME PipeTypes, NEW w \in Workers,
           \/ GatewayTimer(w) \/ StartCompletion(w) \/ ProviderReplies(w)
           \/ Retry(w) \/ AbortTakesEffect(w) \/ GatewayDies(w)
    PROVE  /\ PipeTypes'
           /\ \A v \in Workers \ {w} : stdin'[v] = stdin[v] /\ gateway'[v] = gateway[v]
           /\ Works(w) \/ Settles(w) \/ Stops(w)
  <1> DEFINE g == gateway[w]
  <1>1. g \in Gateways /\ gateway \in [Workers -> Gateways]
        /\ stdin \in [Workers -> Seq(Messages)] /\ cancels \in [Workers -> Seq(Nat)]
    BY DEF PipeTypes
  <1>2. cancels' = cancels
    BY DEF GatewayTimer, StartCompletion, ProviderReplies, Retry, AbortTakesEffect,
           GatewayDies, RustUnchanged
  <1>3. ASSUME stdin' = stdin, NEW h \in Gateways, gateway' = [gateway EXCEPT ![w] = h]
        PROVE  /\ PipeTypes' /\ gateway'[w] = h /\ stdin'[w] = stdin[w]
               /\ \A v \in Workers \ {w} : stdin'[v] = stdin[v] /\ gateway'[v] = gateway[v]
    BY <1>1, <1>2, <1>3 DEF PipeTypes
  <1>4. ASSUME NEW phase \in {"attempt", "backoff"}, stdin' = stdin,
               gateway' = [gateway EXCEPT ![w].phase = phase]
        PROVE  /\ PipeTypes' /\ Works(w)
               /\ \A v \in Workers \ {w} : stdin'[v] = stdin[v] /\ gateway'[v] = gateway[v]
    <2> DEFINE h == [g EXCEPT !.phase = phase]
    <2>1. h \in Gateways /\ h.active = g.active /\ h.reason = g.reason
      BY <1>1 DEF Gateways
    <2>2. gateway' = [gateway EXCEPT ![w] = h]
      BY <1>4
    <2> HIDE DEF h
    <2>3. gateway'[w].active = g.active /\ gateway'[w].reason = g.reason
      BY <1>1, <2>1, <2>2
    <2> QED
      BY <1>3, <1>4, <2>1, <2>2, <2>3 DEF Works
  <1>5. CASE GatewayTimer(w)
    <2> DEFINE h == [g EXCEPT !.reason = "timeout", !.timer = FALSE]
    <2>1. h \in Gateways /\ h.active = g.active /\ h.reason # "none"
      BY <1>1 DEF Gateways
    <2>2. gateway' = [gateway EXCEPT ![w] = h] /\ stdin' = stdin
      BY <1>5 DEF GatewayTimer
    <2> HIDE DEF h
    <2>3. gateway'[w].active = g.active /\ gateway'[w].reason # "none"
      BY <1>1, <2>1, <2>2
    <2> QED
      BY <1>3, <2>1, <2>2, <2>3 DEF Works
  <1>6. CASE StartCompletion(w) \/ ProviderReplies(w) \/ Retry(w) \/ AbortTakesEffect(w)
    <2>1. stdin' = stdin
      BY <1>6 DEF StartCompletion, ProviderReplies, Retry, AbortTakesEffect
    <2>2. \/ gateway' = [gateway EXCEPT ![w] = Waiting]
          \/ \E phase \in {"attempt", "backoff"} : gateway' = [gateway EXCEPT ![w].phase = phase]
      BY <1>6 DEF StartCompletion, ProviderReplies, Retry, AbortTakesEffect, Settle
    <2> QED
      BY <1>3, <1>4, <2>1, <2>2, WaitingTypes DEF Settles
  <1>7. CASE GatewayDies(w)
    <2>1. gateway' = [gateway EXCEPT ![w] = Gone] /\ stdin' = [stdin EXCEPT ![w] = <<>>]
      BY <1>7 DEF GatewayDies, Shutdown
    <2>2. <<>> \in Seq(Messages)
      OBVIOUS
    <2> QED
      BY <1>1, <1>2, <2>1, <2>2, WaitingTypes DEF PipeTypes, Stops
  <1> QED
    BY <1>5, <1>6, <1>7

(* Whatever a gateway does, its worker's request is still reached.         *)
LEMMA GatewayKeeps ==
    ASSUME ReachInv, NEW w \in Workers, Gateway(w)
    PROVE  ReachInv'
  <1>1. ControlInv' /\ UNCHANGED <<gate, process, command, worker, active, cancels>>
    <2>1. UNCHANGED <<gate, process, command, worker, active, cancels>>
      BY GatewayFrame
    <2> QED
      BY <2>1 DEF ReachInv, ControlInv, Types, Control
  <1>2. /\ PipeTypes'
        /\ \A v \in Workers \ {w} : stdin'[v] = stdin[v] /\ gateway'[v] = gateway[v]
        /\ TakesComplete(w) \/ TakesCancel(w) \/ Works(w) \/ Settles(w) \/ Stops(w)
    BY HandleCases, WorkCases DEF Gateway, ReachInv
  <1>3. \A v \in Workers \ {w} : PipeOK(v)' /\ Reached(v)'
    BY <1>1, <1>2, OthersKept
  <1>4. /\ PipeOK(w) /\ Reached(w) /\ ControlInv
        /\ stdin[w] \in Seq(Messages) /\ gateway[w] \in Gateways /\ command.wave \in Nat
    BY DEF ReachInv, PipeTypes, ControlInv, Types
  <1>5. active[w] # None => /\ active[w] = command.wave
                            /\ command.pc = "wave" /\ Unwritten(w) /\ InOrder(w)
    <2>1. active[w] # None => active[w] = command.wave
      BY <1>4 DEF ControlInv, Control
    <2>2. active[w] # None => command.pc = "wave"
      BY <1>4, BusyInWave DEF Busy
    <2> QED
      BY <1>4, <2>1, <2>2 DEF PipeOK
  <1>6. CASE TakesComplete(w)
    <2>1. /\ stdin[w] # <<>> /\ stdin'[w] = Tail(stdin[w])
          /\ Head(stdin[w]) = stdin[w][1] /\ 1 \in DOMAIN stdin[w]
          /\ Head(stdin[w]) \in Messages
          /\ \A i \in DOMAIN stdin'[w] :
                i \in Nat /\ i + 1 \in DOMAIN stdin[w] /\ 1 < i + 1
                /\ stdin'[w][i] = stdin[w][i + 1]
          /\ \A i \in DOMAIN stdin[w] : i # 1 => \E j \in DOMAIN stdin'[w] : i = j + 1
      BY <1>4, <1>6, Shifted DEF TakesComplete
    <2>2. Head(stdin[w]) = Frame("complete", Head(stdin[w]).id)
      BY <2>1, <1>6, MessageIsFrame DEF TakesComplete
    <2>3. PastWaves(w)'
      BY <1>1, <1>4, <1>6, <2>1 DEF PipeOK, PastWaves, TakesComplete
    <2>4. ASSUME command.pc = "wave" PROVE Unwritten(w)' /\ InOrder(w)'
      <3>1. Unwritten(w) /\ InOrder(w)
        BY <1>4, <2>4 DEF PipeOK
      <3>2. Unwritten(w)'
        BY <1>1, <1>6, <2>1, <3>1 DEF Unwritten, TakesComplete
      <3>3. ASSUME NEW i \in DOMAIN stdin'[w], NEW j \in DOMAIN stdin'[w], i < j,
                   stdin'[w][j] = Frame("complete", command.wave)
            PROVE  stdin'[w][i].id # command.wave
        <4>1. i + 1 < j + 1 /\ stdin[w][j + 1] = Frame("complete", command.wave)
              /\ i + 1 \in DOMAIN stdin[w] /\ j + 1 \in DOMAIN stdin[w]
          BY <2>1, <3>3
        <4>2. stdin[w][i + 1].id # command.wave
          BY <3>1, <4>1 DEF InOrder, IsRequest
        <4> QED
          BY <2>1, <4>2
      <3>4. ASSUME gateway'[w].active = command.wave, NEW j \in DOMAIN stdin'[w]
            PROVE  stdin'[w][j] # Frame("complete", command.wave)
        <4>1. j + 1 \in DOMAIN stdin[w] /\ 1 < j + 1 /\ stdin'[w][j] = stdin[w][j + 1]
          BY <2>1
        <4>2. CASE gateway[w].active = command.wave
          BY <3>1, <4>1, <4>2 DEF InOrder, IsRequest
        <4>3. CASE gateway[w].active # command.wave
          <5>1. stdin[w][1].id = command.wave
            BY <1>6, <2>1, <3>4, <4>3 DEF TakesComplete
          <5> QED
            BY <2>1, <3>1, <4>1, <5>1 DEF InOrder, IsRequest
        <4> QED
          BY <4>2, <4>3
      <3>5. InOrder(w)'
        BY <1>1, <3>3, <3>4 DEF InOrder, IsRequest, Frame
      <3> QED
        BY <3>2, <3>5
    <2>5. ASSUME active[w] # None, command.generation # gate.generation
          PROVE  Canceling(w)'
      <3>1. Canceling(w) /\ active[w] = command.wave /\ Unwritten(w) /\ InOrder(w)
        BY <1>4, <1>5, <2>5 DEF Reached
      <3>2. gateway'[w].up = gateway[w].up \/ gateway[w].active = None
        BY <1>6 DEF TakesComplete
      <3>3. CASE \E i \in DOMAIN cancels[w] : cancels[w][i] = active[w]
        BY <1>1, <3>3 DEF Canceling
      <3>4. CASE Written(w, "cancel")
        <4>1. PICK i \in DOMAIN stdin[w] : stdin[w][i] = Frame("cancel", active[w])
          BY <3>4 DEF Written
        <4>2. i # 1
          BY <1>6, <2>1, <4>1 DEF TakesComplete, Frame
        <4>3. PICK j \in DOMAIN stdin'[w] : i = j + 1
          BY <2>1, <4>2
        <4>4. stdin'[w][j] = Frame("cancel", active[w])
          BY <2>1, <4>1, <4>3
        <4> QED
          BY <1>1, <4>4 DEF Canceling, Written, Frame
      <3>5. CASE gateway[w].active = active[w] /\ Aborted(w)
        BY <1>1, <1>6, <2>5, <3>5 DEF Canceling, Aborted, TakesComplete
      <3>6. CASE /\ worker[w].pc # "writing"
                 /\ gateway[w].active # active[w]
                 /\ ~Written(w, "complete")
        <4>1. Head(stdin[w]).id # active[w]
          BY <2>1, <2>2, <3>6 DEF Written
        <4>2. gateway'[w].active # active[w]
          BY <1>6, <3>6, <4>1 DEF TakesComplete
        <4>3. ~Written(w, "complete")'
          BY <1>1, <2>1, <3>6 DEF Written, Frame
        <4> QED
          BY <1>1, <3>6, <4>2, <4>3 DEF Canceling
      <3>7. CASE ~gateway[w].up
        BY <1>6, <1>1, <3>7 DEF Gateway, HandleMessage, GatewayTimer, StartCompletion,
           ProviderReplies, Retry, AbortTakesEffect, GatewayDies, InPhase
      <3> QED
        BY <3>1, <3>3, <3>4, <3>5, <3>6, <3>7 DEF Canceling
    <2>6. PipeOK(w)' /\ Reached(w)'
      BY <1>1, <2>3, <2>4, <2>5 DEF PipeOK, Reached
    <2> QED
      BY <1>1, <1>2, <1>3, <2>6 DEF ReachInv
  <1>7. CASE TakesCancel(w)
    <2>1. /\ stdin[w] # <<>> /\ stdin'[w] = Tail(stdin[w])
          /\ Head(stdin[w]) = stdin[w][1] /\ 1 \in DOMAIN stdin[w]
          /\ Head(stdin[w]) \in Messages
          /\ \A i \in DOMAIN stdin'[w] :
                i \in Nat /\ i + 1 \in DOMAIN stdin[w] /\ 1 < i + 1
                /\ stdin'[w][i] = stdin[w][i + 1]
          /\ \A i \in DOMAIN stdin[w] : i # 1 => \E j \in DOMAIN stdin'[w] : i = j + 1
      BY <1>4, <1>7, Shifted DEF TakesCancel
    <2>2. gateway'[w].active = gateway[w].active
      BY <1>7 DEF TakesCancel
    <2>3. PastWaves(w)'
      BY <1>1, <1>4, <2>1, <2>2 DEF PipeOK, PastWaves
    <2>4. ASSUME command.pc = "wave" PROVE Unwritten(w)' /\ InOrder(w)'
      <3>1. Unwritten(w) /\ InOrder(w)
        BY <1>4, <2>4 DEF PipeOK
      <3>2. Unwritten(w)'
        BY <1>1, <2>1, <2>2, <3>1 DEF Unwritten
      <3>3. ASSUME NEW i \in DOMAIN stdin'[w], NEW j \in DOMAIN stdin'[w], i < j,
                   stdin'[w][j] = Frame("complete", command.wave)
            PROVE  stdin'[w][i].id # command.wave
        <4>1. i + 1 < j + 1 /\ stdin[w][j + 1] = Frame("complete", command.wave)
              /\ i + 1 \in DOMAIN stdin[w] /\ j + 1 \in DOMAIN stdin[w]
          BY <2>1, <3>3
        <4>2. stdin[w][i + 1].id # command.wave
          BY <3>1, <4>1 DEF InOrder, IsRequest
        <4> QED
          BY <2>1, <4>2
      <3>4. ASSUME gateway'[w].active = command.wave, NEW j \in DOMAIN stdin'[w]
            PROVE  stdin'[w][j] # Frame("complete", command.wave)
        BY <2>1, <2>2, <3>1, <3>4 DEF InOrder, IsRequest
      <3>5. InOrder(w)'
        BY <1>1, <3>3, <3>4 DEF InOrder, IsRequest, Frame
      <3> QED
        BY <3>2, <3>5
    <2>5. ASSUME active[w] # None, command.generation # gate.generation
          PROVE  Canceling(w)'
      <3>1. Canceling(w) /\ active[w] = command.wave /\ Unwritten(w) /\ InOrder(w)
        BY <1>4, <1>5, <2>5 DEF Reached
      <3>2. CASE \E i \in DOMAIN cancels[w] : cancels[w][i] = active[w]
        BY <1>1, <3>2 DEF Canceling
      <3>3. CASE Head(stdin[w]).id = active[w]
        <4>1. CASE gateway[w].active = active[w]
          BY <1>1, <1>7, <2>2, <3>3, <4>1 DEF Canceling, Aborted, TakesCancel
        <4>2. CASE gateway[w].active # active[w]
          <5>1. worker[w].pc # "writing"
            BY <2>1, <3>1, <3>3 DEF Unwritten
          <5>2. ~Written(w, "complete")'
            BY <1>1, <2>1, <3>1, <3>3 DEF InOrder, IsRequest, Written, Frame
          <5> QED
            BY <1>1, <2>2, <4>2, <5>1, <5>2 DEF Canceling
        <4> QED
          BY <4>1, <4>2
      <3>4. CASE Written(w, "cancel") /\ Head(stdin[w]).id # active[w]
        <4>1. PICK i \in DOMAIN stdin[w] : stdin[w][i] = Frame("cancel", active[w])
          BY <3>4 DEF Written
        <4>2. i # 1
          BY <2>1, <3>4, <4>1 DEF Frame
        <4>3. PICK j \in DOMAIN stdin'[w] : i = j + 1
          BY <2>1, <4>2
        <4>4. stdin'[w][j] = Frame("cancel", active[w])
          BY <2>1, <4>1, <4>3
        <4> QED
          BY <1>1, <4>4 DEF Canceling, Written, Frame
      <3>5. CASE gateway[w].active = active[w] /\ Aborted(w)
        BY <1>1, <1>7, <3>5 DEF Canceling, Aborted, TakesCancel
      <3>6. CASE /\ worker[w].pc # "writing"
                 /\ gateway[w].active # active[w]
                 /\ ~Written(w, "complete")
        <4>1. ~Written(w, "complete")'
          BY <1>1, <2>1, <3>6 DEF Written, Frame
        <4> QED
          BY <1>1, <2>2, <3>6, <4>1 DEF Canceling
      <3>7. CASE ~gateway[w].up
        BY <3>7 DEF Gateway, HandleMessage, GatewayTimer, StartCompletion,
           ProviderReplies, Retry, AbortTakesEffect, GatewayDies, InPhase
      <3> QED
        BY <3>1, <3>2, <3>3, <3>4, <3>5, <3>6, <3>7 DEF Canceling
    <2>6. PipeOK(w)' /\ Reached(w)'
      BY <1>1, <2>3, <2>4, <2>5 DEF PipeOK, Reached
    <2> QED
      BY <1>1, <1>2, <1>3, <2>6 DEF ReachInv
  <1>8. CASE Works(w)
    <2>1. PipeOK(w)'
      BY <1>1, <1>4, <1>8 DEF Works, PipeOK, PastWaves, Unwritten, InOrder, IsRequest, Frame
    <2>2. gateway[w].up
      BY DEF Gateway, HandleMessage, GatewayTimer, StartCompletion,
         ProviderReplies, Retry, AbortTakesEffect, GatewayDies, InPhase
    <2>3. Reached(w)'
      BY <1>1, <1>4, <1>8, <2>2 DEF Works, Reached, Canceling, Written, Aborted, Frame
    <2> QED
      BY <1>1, <1>2, <1>3, <2>1, <2>3 DEF ReachInv
  <1>9. CASE Settles(w)
    <2>1. stdin'[w] = stdin[w] /\ gateway'[w].active = None
      BY <1>9, WaitingTypes DEF Settles
    <2>2. PipeOK(w)'
      BY <1>1, <1>4, <2>1, BusyInWave
      DEF PipeOK, PastWaves, Unwritten, InOrder, IsRequest, Frame, None, ControlInv, Control
    <2>3. gateway[w].up
      BY DEF Gateway, HandleMessage, GatewayTimer, StartCompletion,
         ProviderReplies, Retry, AbortTakesEffect, GatewayDies, InPhase
    <2>4. ASSUME active[w] # None, command.generation # gate.generation
          PROVE  Canceling(w)'
      <3>1. Canceling(w) /\ active[w] = command.wave /\ Unwritten(w) /\ InOrder(w)
        BY <1>4, <1>5, <2>4 DEF Reached
      <3>2. CASE gateway[w].active = active[w]
        <4>1. worker[w].pc # "writing" /\ ~Written(w, "complete")
          BY <3>1, <3>2 DEF Unwritten, InOrder, IsRequest, Written
        <4> QED
          BY <1>1, <2>1, <2>4, <4>1 DEF Canceling, Written, Frame
      <3>3. CASE gateway[w].active # active[w]
        BY <1>1, <2>1, <2>3, <2>4, <3>1, <3>3 DEF Canceling, Written, Frame
      <3> QED
        BY <3>2, <3>3
    <2>5. Reached(w)'
      BY <1>1, <2>4 DEF Reached
    <2> QED
      BY <1>1, <1>2, <1>3, <2>2, <2>5 DEF ReachInv
  <1>10. CASE Stops(w)
    <2>1. gateway'[w].active = None /\ ~gateway'[w].up
      BY <1>10, WaitingTypes DEF Stops
    <2>2. \A i \in DOMAIN stdin'[w] :
            \E k \in DOMAIN stdin[w] : stdin'[w][i] = stdin[w][k]
      <3>1. CASE stdin'[w] = <<>>
        BY <3>1
      <3>2. CASE stdin[w] # <<>> /\ stdin'[w] = Tail(stdin[w])
        BY <1>4, <3>2, Shifted
      <3> QED
        BY <1>10, <3>1, <3>2 DEF Stops
    <2>3. \A i, j \in DOMAIN stdin'[w] : i < j =>
            \E k, l \in DOMAIN stdin[w] :
              k < l /\ stdin'[w][i] = stdin[w][k] /\ stdin'[w][j] = stdin[w][l]
      <3>1. CASE stdin'[w] = <<>>
        BY <3>1
      <3>2. CASE stdin[w] # <<>> /\ stdin'[w] = Tail(stdin[w])
        <4>1. \A i \in DOMAIN stdin'[w] :
                i \in Nat /\ i + 1 \in DOMAIN stdin[w] /\ stdin'[w][i] = stdin[w][i + 1]
          BY <1>4, <3>2, Shifted
        <4> QED
          BY <4>1
      <3> QED
        BY <1>10, <3>1, <3>2 DEF Stops
    <2>4. PastWaves(w)'
      BY <1>1, <1>4, <2>1, <2>2 DEF PipeOK, PastWaves, None
    <2>5. ASSUME command.pc = "wave" PROVE Unwritten(w)' /\ InOrder(w)'
      <3>1. Unwritten(w) /\ InOrder(w) /\ command.wave # None
        BY <1>4, <2>5 DEF PipeOK, ControlInv, Control, None
      <3>2. Unwritten(w)'
        BY <1>1, <2>1, <2>2, <3>1 DEF Unwritten
      <3>3. InOrder(w)'
        BY <1>1, <2>1, <2>3, <3>1 DEF InOrder, IsRequest, Frame
      <3> QED
        BY <3>2, <3>3
    <2>6. PipeOK(w)' /\ Reached(w)'
      BY <1>1, <2>1, <2>4, <2>5 DEF PipeOK, Reached, Canceling
    <2> QED
      BY <1>1, <1>2, <1>3, <2>6 DEF ReachInv
  <1> QED
    BY <1>2, <1>6, <1>7, <1>8, <1>9, <1>10

-----------------------------------------------------------------------------
(* The other steps.                                                        *)

(* A number that no wave had yet is in no pipe.                            *)
LEMMA BeginReaches ==
    ASSUME ReachInv, BeginWave
    PROVE  \A w \in Workers : PipeOK(w)' /\ Reached(w)'
  <1>1. /\ command.pc = "between" /\ command'.wave = command.wave + 1
        /\ UNCHANGED <<gate, active, cancels, stdin, gateway>>
    BY DEF BeginWave
  <1>2. command.wave \in Nat /\ cancels \in [Workers -> Seq(Nat)]
        /\ stdin \in [Workers -> Seq(Messages)] /\ gateway \in [Workers -> Gateways]
    BY DEF ReachInv, ControlInv, Types, PipeTypes
  <1>3. ASSUME NEW w \in Workers
        PROVE  PipeOK(w)' /\ Reached(w)'
    <2>1. PastWaves(w) /\ active[w] = None
      BY <1>1 DEF ReachInv, PipeOK, ControlInv, Control, InFlight
    <2>2. /\ \A i \in DOMAIN cancels[w] : cancels[w][i] \in Nat
          /\ \A i \in DOMAIN stdin[w] : stdin[w][i].id \in Nat
          /\ gateway[w].active \in Nat
      <3>1. \A i \in DOMAIN cancels[w] : cancels[w][i] \in Nat
        BY <1>2
      <3>2. stdin[w] \in Seq(Messages)
        BY <1>2
      <3>3. \A i \in DOMAIN stdin[w] : stdin[w][i] \in Messages
        BY <3>2
      <3>4. \A message \in Messages : message.id \in Nat
        BY DEF Messages
      <3>5. gateway[w].active \in Nat
        BY <1>2 DEF Gateways
      <3> QED
        BY <3>1, <3>3, <3>4, <3>5
    <2>3. /\ \A i \in DOMAIN cancels[w] : cancels[w][i] < command.wave + 1
          /\ \A i \in DOMAIN stdin[w] : stdin[w][i].id < command.wave + 1
          /\ gateway[w].active < command.wave + 1
      BY <1>2, <2>1, <2>2 DEF PastWaves
    <2>4. PastWaves(w)' /\ Unwritten(w)'
      BY <1>1, <1>2, <2>2, <2>3 DEF PastWaves, Unwritten
    <2>5. \A i \in DOMAIN stdin[w] : stdin[w][i].id # command'.wave
      BY <1>1, <1>2, <2>2, <2>3
    <2>6. InOrder(w)'
      <3>1. gateway[w].active # command'.wave
        BY <1>1, <1>2, <2>2, <2>3
      <3> QED
        BY <1>1, <2>5, <3>1 DEF InOrder
    <2> QED
      BY <1>1, <2>1, <2>4, <2>6, ReachedIdle DEF PipeOK
  <1> QED
    BY <1>3

LEMMA EndReaches ==
    ASSUME ReachInv, EndWave \/ Finished
    PROVE  \A w \in Workers : PipeOK(w)' /\ Reached(w)'
  <1>1. PICK pc \in {"between", "over"} : command' = [command EXCEPT !.pc = pc]
    BY DEF EndWave, Finished
  <1>2. UNCHANGED <<gate, worker, active, cancels, stdin, gateway>>
    BY DEF EndWave, Finished
  <1>3. command'.wave = command.wave /\ command'.pc # "wave"
    BY <1>1 DEF ReachInv, ControlInv, Types
  <1>4. ASSUME NEW w \in Workers
        PROVE  PipeOK(w)' /\ Reached(w)'
    <2>1. PastWaves(w) /\ worker[w].pc = "idle"
      BY DEF ReachInv, PipeOK, ControlInv, Control, EndWave, Finished
    <2>2. active[w] = None
      BY <2>1 DEF ReachInv, ControlInv, Control, InFlight
    <2> QED
      BY <1>2, <1>3, <2>1, <2>2, ReachedIdle DEF PipeOK, PastWaves
  <1> QED
    BY <1>4

(* Ctrl-C queues a cancel of every request in flight, unless the last one  *)
(* still stands.                                                           *)
LEMMA InterruptReaches ==
    ASSUME ReachInv, Interrupt
    PROVE  PipeTypes' /\ \A w \in Workers : PipeOK(w)' /\ Reached(w)'
  <1> DEFINE told == IF gate.registered /\ ~gate.pending
                     THEN {w \in Workers : active[w] # None} ELSE {}
  <1>1. /\ UNCHANGED <<command, worker, active, stdin, gateway>>
        /\ cancels' = [w \in Workers |->
              IF w \in told THEN Append(cancels[w], active[w]) ELSE cancels[w]]
    BY DEF Interrupt
  <1>2. gate.pending => gate'.generation = gate.generation
    BY DEF Interrupt, ReachInv, ControlInv, Types
  <1>3. ASSUME NEW w \in Workers
        PROVE  cancels'[w] \in Seq(Nat) /\ PipeOK(w)' /\ Reached(w)'
    <2>1. /\ PipeOK(w) /\ Reached(w) /\ cancels[w] \in Seq(Nat) /\ active[w] \in Nat
          /\ command.wave \in Nat
      BY DEF ReachInv, PipeTypes, ControlInv, Types
    <2>2. CASE w \notin told
      <3>1. cancels'[w] = cancels[w]
        BY <1>1, <2>2
      <3>2. active[w] # None => gate.pending
        BY <2>2, BusyInWave DEF ReachInv, Busy
      <3>3. PipeOK(w)'
        BY <1>1, <2>1, <3>1, PipeUnchanged
      <3>4. Reached(w)'
        <4>1. CASE active[w] = None
          BY <1>1, <4>1, ReachedIdle
        <4>2. CASE active[w] # None
          BY <1>1, <1>2, <2>1, <3>1, <3>2, <4>2, ReachedUnchanged
        <4> QED
          BY <4>1, <4>2
      <3> QED
        BY <2>1, <3>1, <3>3, <3>4
    <2>3. CASE w \in told
      <3>1. cancels'[w] = Append(cancels[w], active[w])
        BY <1>1, <2>3
      <3>2. active[w] = command.wave /\ worker[w].pc \in InFlight
        BY <2>3, BusyInWave DEF ReachInv, ControlInv, Control, Busy
      <3>3. /\ cancels'[w] \in Seq(Nat)
            /\ \E n \in DOMAIN cancels'[w] :
                  /\ cancels'[w][n] = active[w]
                  /\ \A i \in DOMAIN cancels'[w] :
                        i # n => i \in DOMAIN cancels[w] /\ cancels'[w][i] = cancels[w][i]
        <4>1. cancels[w] \in Seq(Nat)
          BY <2>1
        <4>2. active[w] \in Nat
          BY <2>1
        <4>3. /\ Append(cancels[w], active[w]) \in Seq(Nat)
              /\ \E n \in DOMAIN Append(cancels[w], active[w]) :
                    /\ Append(cancels[w], active[w])[n] = active[w]
                    /\ \A i \in DOMAIN Append(cancels[w], active[w]) :
                          i # n => /\ i \in DOMAIN cancels[w]
                                   /\ Append(cancels[w], active[w])[i] = cancels[w][i]
          BY <4>1, <4>2, AppendedWave, Zenon
        <4> DEFINE q == Append(cancels[w], active[w])
        <4>4. cancels'[w] = q
          BY <3>1
        <4>5. /\ q \in Seq(Nat)
              /\ \E n \in DOMAIN q :
                    /\ q[n] = active[w]
                    /\ \A i \in DOMAIN q :
                          i # n => i \in DOMAIN cancels[w] /\ q[i] = cancels[w][i]
          BY <4>3
        <4> HIDE DEF q
        <4> QED
          BY <4>4, <4>5, Zenon
      <3>4. PastWaves(w)'
        BY <1>1, <2>1, <3>2, <3>3 DEF PipeOK, PastWaves
      <3>5. command.pc = "wave" => Unwritten(w)' /\ InOrder(w)'
        BY <1>1, <2>1, <3>2 DEF PipeOK, Unwritten, InOrder, IsRequest, Frame, InFlight
      <3>6. Reached(w)'
        BY <1>1, <3>3 DEF Reached, Canceling
      <3> QED
        BY <1>1, <3>3, <3>4, <3>5, <3>6 DEF PipeOK
    <2> QED
      BY <2>2, <2>3
  <1>4. PipeTypes'
    BY <1>1, <1>3 DEF ReachInv, PipeTypes
  <1> QED
    BY <1>3, <1>4

LEMMA ExitReaches ==
    ASSUME Exit
    PROVE  PipeTypes' /\ \A w \in Workers : PipeOK(w)' /\ Reached(w)'
  <1>1. /\ command' = Launched.command /\ active' = Launched.active
        /\ cancels' = Launched.queues /\ stdin' = Launched.queues
        /\ gateway' = [w \in Workers |-> Gone]
    BY DEF Exit
  <1>2. PipeTypes'
    BY <1>1, WaitingTypes DEF PipeTypes, Launched
  <1>3. ASSUME NEW w \in Workers
        PROVE  PipeOK(w)' /\ Reached(w)'
    <2>1. /\ cancels'[w] = <<>> /\ stdin'[w] = <<>> /\ gateway'[w].active = None
          /\ active'[w] = None
      BY <1>1, WaitingTypes DEF Launched
    <2>2. command'.pc = "between" /\ command'.wave = 0
      BY <1>1 DEF Launched
    <2> QED
      BY <2>1, <2>2, ReachedIdle DEF PipeOK, PastWaves, None
  <1> QED
    BY <1>2, <1>3

(* An admitted request belongs to the generation of the last Ctrl-C.       *)
LEMMA SendReaches ==
    ASSUME ReachInv, NEW w \in Workers, SendComplete(w)
    PROVE  \A v \in Workers : PipeOK(v)' /\ Reached(v)'
  <1>1. /\ UNCHANGED <<gate, command, cancels, stdin, gateway>>
        /\ worker[w].pc = "spawned" /\ PipeOK(w) /\ Types /\ Control
    BY DEF SendComplete, ReachInv, ControlInv
  <1>2. CASE Admitted
    <2>1. Goes(w, "writing") /\ active' = [active EXCEPT ![w] = command.wave]
      BY <1>2 DEF SendComplete
    <2>2. worker'[w].pc = "writing" /\ \A v \in Workers \ {w} : worker'[v] = worker[v]
      <3>1. "writing" \in WorkerPcs
        BY DEF WorkerPcs, InFlight
      <3> QED
        BY <1>1, <2>1, <3>1, GoesTo
    <2>3. \A v \in Workers \ {w} : active'[v] = active[v]
      BY <1>1, <2>1 DEF Types
    <2>4. command.generation = gate.generation
      <3>1. command.pc = "wave"
        BY <1>1 DEF Types, Control
      <3> QED
        BY <1>1, <1>2, <3>1 DEF Admitted, Control
    <2>5. PipeOK(w)'
      BY <1>1, <2>2 DEF PipeOK, PastWaves, Unwritten, InOrder, IsRequest, Frame
    <2>6. Reached(w)'
      BY <1>1, <2>4 DEF Reached
    <2> QED
      BY <1>1, <2>2, <2>3, <2>5, <2>6, OthersKept
  <1>3. CASE ~Admitted
    <2>1. worker' = [worker EXCEPT ![w].pc = "idle", ![w].outcome = "refused"]
          /\ active' = active
      BY <1>3 DEF SendComplete
    <2> DEFINE t == [worker[w] EXCEPT !.pc = "idle", !.outcome = "refused"]
    <2>2. worker' = [worker EXCEPT ![w] = t] /\ t.pc = "idle"
      <3>1. worker[w] \in Threads
        BY <1>1 DEF Types
      <3>2. t.pc = "idle"
        BY <3>1 DEF Threads
      <3> QED
        BY <1>1, <2>1, <3>2 DEF Types
    <2> HIDE DEF t
    <2>3. worker'[w].pc = "idle" /\ \A v \in Workers \ {w} : worker'[v] = worker[v]
      BY <1>1, <2>2 DEF Types
    <2>4. PipeOK(w)'
      BY <1>1, <2>3 DEF PipeOK, PastWaves, Unwritten, InOrder, IsRequest, Frame
    <2>5. active'[w] = None
      BY <1>1, <2>1 DEF Control, InFlight
    <2>6. Reached(w)'
      BY <2>5, ReachedIdle
    <2> QED
      BY <1>1, <2>1, <2>3, <2>4, <2>6, OthersKept
  <1> QED
    BY <1>2, <1>3

(* The request is written behind what is in the pipe.                      *)
LEMMA WriteReaches ==
    ASSUME ReachInv, NEW w \in Workers, WriteComplete(w)
    PROVE  PipeTypes' /\ \A v \in Workers : PipeOK(v)' /\ Reached(v)'
  <1>1. /\ UNCHANGED <<gate, command, active, cancels, gateway>>
        /\ worker[w].pc = "writing" /\ PipeOK(w) /\ Reached(w) /\ Types /\ Control
        /\ PipeTypes
    BY DEF WriteComplete, ReachInv, ControlInv
  <1>2. /\ command.pc = "wave" /\ active[w] = command.wave /\ command.wave \in Nat
        /\ Unwritten(w)
    BY <1>1, BusyInWave DEF ReachInv, Types, Control, InFlight, Busy, PipeOK
  <1>3. /\ worker'[w].pc \in {"starting", "leaving"}
        /\ \A v \in Workers \ {w} : worker'[v] = worker[v]
    <2>1. CASE Goes(w, "starting")
      <3>1. "starting" \in WorkerPcs
        BY DEF WorkerPcs, InFlight
      <3> QED
        BY <1>1, <2>1, <3>1, GoesTo
    <2>2. CASE Leaves(w, "lost", TRUE)
      <3>1. "lost" \in Outcomes
        BY DEF Outcomes
      <3> QED
        BY <1>1, <2>2, <3>1, LeavesFor
    <2> QED
      BY <2>1, <2>2 DEF WriteComplete
  <1>4. CASE ~gateway[w].up
    <2>1. stdin' = stdin
      BY <1>4 DEF WriteComplete
    <2>2. PipeOK(w)'
      BY <1>1, <1>3, <2>1 DEF PipeOK, PastWaves, Unwritten, InOrder, IsRequest, Frame
    <2>3. Reached(w)'
      BY <1>1, <1>4 DEF Reached, Canceling
    <2> QED
      BY <1>1, <1>3, <2>1, <2>2, <2>3, OthersKept DEF PipeTypes
  <1>5. CASE gateway[w].up
    <2> DEFINE request == Frame("complete", command.wave)
    <2>1. stdin' = [stdin EXCEPT ![w] = Append(stdin[w], request)]
      BY <1>2, <1>5 DEF WriteComplete
    <2>2. request \in Messages /\ request.id = command.wave
      BY <1>2, FrameFields
    <2>3. stdin[w] \in Seq(Messages) /\ stdin \in [Workers -> Seq(Messages)]
      BY <1>1 DEF PipeTypes
    <2>4. /\ Append(stdin[w], request) \in Seq(Messages)
          /\ \E n \in DOMAIN Append(stdin[w], request) :
                \A i \in DOMAIN Append(stdin[w], request) :
                   i # n => /\ i \in DOMAIN stdin[w] /\ i < n
                            /\ Append(stdin[w], request)[i] = stdin[w][i]
          /\ \E n \in DOMAIN Append(stdin[w], request) : Append(stdin[w], request)[n] = request
                /\ \A i \in DOMAIN Append(stdin[w], request) :
                      i # n => /\ i \in DOMAIN stdin[w] /\ i < n
                               /\ Append(stdin[w], request)[i] = stdin[w][i]
      <3> HIDE DEF request
      <3> QED
        BY <2>2, <2>3, Appended
    <2>5. /\ stdin' \in [Workers -> Seq(Messages)]
          /\ stdin'[w] = Append(stdin[w], request)
          /\ \A v \in Workers \ {w} : stdin'[v] = stdin[v]
      <3> HIDE DEF request
      <3> QED
        BY <2>1, <2>3, <2>4
    <2>6. PICK n \in DOMAIN stdin'[w] :
            /\ stdin'[w][n] = request
            /\ \A i \in DOMAIN stdin'[w] :
                  i # n => i \in DOMAIN stdin[w] /\ i < n /\ stdin'[w][i] = stdin[w][i]
      <3> HIDE DEF request
      <3> QED
        BY <2>4, <2>5
    <2>7. n \in Nat /\ \A i \in DOMAIN stdin'[w] : i \in Nat
      BY <2>5, <2>6
    <2>8. \A i \in DOMAIN stdin[w] : stdin[w][i].id # command.wave
      BY <1>1, <1>2 DEF Unwritten
    <2>9. PastWaves(w)'
      BY <1>1, <1>2, <2>2, <2>6 DEF PipeOK, PastWaves
    <2>10. ASSUME NEW i \in DOMAIN stdin'[w], NEW j \in DOMAIN stdin'[w], i < j,
                  stdin'[w][j] = request
           PROVE  stdin'[w][i].id # command.wave
      <3>1. j = n
        BY <2>2, <2>6, <2>8, <2>10
      <3>2. i # n
        BY <2>7, <2>10, <3>1
      <3> QED
        BY <2>6, <2>8, <3>2
    <2>11. InOrder(w)'
      <3>1. gateway'[w].active # command'.wave
        BY <1>1, <1>2 DEF Unwritten
      <3> QED
        BY <1>1, <2>10, <3>1 DEF InOrder, IsRequest, Frame
    <2>12. Unwritten(w)'
      BY <1>3 DEF Unwritten
    <2>13. Reached(w)'
      <3>1. CASE active[w] # None /\ command.generation # gate.generation
        <4>1. Canceling(w)
          BY <1>1, <3>1 DEF Reached
        <4>2. ~Written(w, "cancel")
          BY <1>2, <2>8 DEF Written, Frame
        <4>3. gateway[w].active # active[w]
          BY <1>1, <1>2 DEF Unwritten
        <4>4. \E i \in DOMAIN cancels[w] : cancels[w][i] = active[w]
          BY <1>1, <1>5, <4>1, <4>2, <4>3 DEF Canceling
        <4> QED
          BY <1>1, <4>4 DEF Reached, Canceling
      <3>2. CASE ~(active[w] # None /\ command.generation # gate.generation)
        BY <1>1, <3>2 DEF Reached
      <3> QED
        BY <3>1, <3>2
    <2>14. PipeOK(w)'
      BY <2>9, <2>11, <2>12 DEF PipeOK
    <2>15. PipeTypes'
      BY <1>1, <2>5 DEF PipeTypes
    <2>16. \A v \in Workers \ {w} : PipeOK(v)' /\ Reached(v)'
      BY <1>1, <1>3, <2>5, OthersKept
    <2> QED
      BY <2>13, <2>14, <2>15, <2>16
  <1> QED
    BY <1>4, <1>5

(* A cancel follows the request it is for.                                 *)
LEMMA CancelReaches ==
    ASSUME ReachInv, NEW w \in Workers, WriteCancel(w)
    PROVE  PipeTypes' /\ \A v \in Workers : PipeOK(v)' /\ Reached(v)'
  <1>1. /\ UNCHANGED <<gate, command, worker, active, gateway>>
        /\ worker[w].pc # "writing" /\ cancels[w] # <<>>
        /\ cancels' = [cancels EXCEPT ![w] = Tail(cancels[w])]
        /\ PipeOK(w) /\ Reached(w) /\ Types /\ Control /\ PipeTypes
    BY DEF WriteCancel, ReachInv, ControlInv
  <1> DEFINE id == Head(cancels[w])
             cancel == Frame("cancel", id)
  <1>2. /\ cancels[w] \in Seq(Nat) /\ cancels \in [Workers -> Seq(Nat)]
        /\ stdin[w] \in Seq(Messages) /\ stdin \in [Workers -> Seq(Messages)]
    BY <1>1 DEF PipeTypes
  <1>3. /\ Tail(cancels[w]) \in Seq(Nat) /\ id \in Nat
        /\ 1 \in DOMAIN cancels[w] /\ id = cancels[w][1]
        /\ \A i \in DOMAIN Tail(cancels[w]) :
              i + 1 \in DOMAIN cancels[w] /\ Tail(cancels[w])[i] = cancels[w][i + 1]
        /\ \A i \in DOMAIN cancels[w] : i # 1 => \E j \in DOMAIN Tail(cancels[w]) : i = j + 1
    BY <1>1, <1>2, Shifted
  <1>4. /\ cancels' \in [Workers -> Seq(Nat)]
        /\ cancels'[w] = Tail(cancels[w])
        /\ \A v \in Workers \ {w} : cancels'[v] = cancels[v]
    BY <1>1, <1>2, <1>3
  <1>5. \A i \in DOMAIN cancels'[w] :
          \E j \in DOMAIN cancels[w] : cancels'[w][i] = cancels[w][j]
    BY <1>3, <1>4
  <1>6. \A k \in DOMAIN cancels[w] :
          cancels[w][k] = id \/ \E i \in DOMAIN cancels'[w] : cancels'[w][i] = cancels[w][k]
    <2>1. TAKE k \in DOMAIN cancels[w]
    <2>2. CASE k = 1
      BY <1>3, <2>2
    <2>3. CASE k # 1
      <3>1. PICK j \in DOMAIN Tail(cancels[w]) : k = j + 1
        BY <1>3, <2>3
      <3>2. Tail(cancels[w])[j] = cancels[w][k]
        BY <1>3, <3>1
      <3> QED
        BY <1>4, <3>2
    <2> QED
      BY <2>2, <2>3
  <1> HIDE DEF id
  <1>7. CASE ~gateway[w].up
    <2>1. stdin' = stdin
      BY <1>7 DEF WriteCancel
    <2>2. PipeOK(w)'
      BY <1>1, <1>5, <2>1 DEF PipeOK, PastWaves, Unwritten, InOrder, IsRequest, Frame
    <2>3. Reached(w)'
      BY <1>1, <1>7 DEF Reached, Canceling
    <2> QED
      BY <1>1, <1>4, <2>1, <2>2, <2>3, OthersKept DEF PipeTypes
  <1>8. CASE gateway[w].up
    <2>1. stdin' = [stdin EXCEPT ![w] = Append(stdin[w], cancel)]
      BY <1>8 DEF WriteCancel, id
    <2>2. cancel \in Messages /\ cancel.id = id /\ cancel.kind = "cancel"
      BY <1>3, FrameFields
    <2> HIDE DEF cancel
    <2>3. /\ Append(stdin[w], cancel) \in Seq(Messages)
          /\ \A i \in DOMAIN stdin[w] : i \in DOMAIN Append(stdin[w], cancel)
                                       /\ Append(stdin[w], cancel)[i] = stdin[w][i]
          /\ \E n \in DOMAIN Append(stdin[w], cancel) :
                /\ Append(stdin[w], cancel)[n] = cancel
                /\ \A i \in DOMAIN Append(stdin[w], cancel) :
                      i # n => i \in DOMAIN stdin[w] /\ i < n
      BY <1>2, <2>2, Appended
    <2>4. /\ stdin' \in [Workers -> Seq(Messages)]
          /\ stdin'[w] = Append(stdin[w], cancel)
          /\ \A v \in Workers \ {w} : stdin'[v] = stdin[v]
      BY <1>2, <2>1, <2>3
    <2>5. \A i \in DOMAIN stdin[w] : i \in DOMAIN stdin'[w] /\ stdin'[w][i] = stdin[w][i]
      BY <2>3, <2>4
    <2>6. PICK n \in DOMAIN stdin'[w] :
            /\ stdin'[w][n] = cancel
            /\ \A i \in DOMAIN stdin'[w] : i # n => i \in DOMAIN stdin[w] /\ i < n
      BY <2>3, <2>4
    <2>7. \A i \in DOMAIN stdin'[w] :
            \/ stdin'[w][i] = cancel
            \/ i \in DOMAIN stdin[w] /\ stdin'[w][i] = stdin[w][i]
      <3>1. TAKE i \in DOMAIN stdin'[w]
      <3>2. CASE i = n
        BY <2>6, <3>2
      <3>3. CASE i # n
        <4>1. i \in DOMAIN stdin[w]
          BY <2>6, <3>3
        <4> QED
          BY <2>5, <4>1
      <3> QED
        BY <3>2, <3>3
    <2>8. n \in Nat /\ \A i \in DOMAIN stdin'[w] : i \in Nat
      BY <2>4, <2>6
    <2>9. PastWaves(w)'
      BY <1>1, <1>3, <1>5, <2>2, <2>7 DEF PipeOK, PastWaves
    <2>10. ASSUME command.pc = "wave" PROVE Unwritten(w)' /\ InOrder(w)'
      <3>1. Unwritten(w) /\ InOrder(w)
        BY <1>1, <2>10 DEF PipeOK
      <3>2. Unwritten(w)'
        BY <1>1, <1>3, <1>5, <2>2, <2>7, <3>1 DEF Unwritten
      <3>3. ASSUME NEW j \in DOMAIN stdin'[w],
                   stdin'[w][j] = Frame("complete", command.wave)
            PROVE  j # n /\ j \in DOMAIN stdin[w] /\ stdin[w][j] = Frame("complete", command.wave)
        <4>1. stdin'[w][j] # cancel
          BY <2>2, <3>3 DEF Frame
        <4> QED
          BY <2>6, <2>7, <3>3, <4>1
      <3>4. ASSUME NEW i \in DOMAIN stdin'[w], NEW j \in DOMAIN stdin'[w], i < j,
                   stdin'[w][j] = Frame("complete", command.wave)
            PROVE  stdin'[w][i].id # command.wave
        <4>1. j # n /\ j < n /\ j \in DOMAIN stdin[w]
              /\ stdin[w][j] = Frame("complete", command.wave)
          BY <2>6, <3>3, <3>4
        <4>2. i # n
          BY <2>8, <3>4, <4>1
        <4>3. i \in DOMAIN stdin[w] /\ stdin'[w][i] = stdin[w][i]
          BY <2>5, <2>6, <4>2
        <4> QED
          BY <3>1, <3>4, <4>1, <4>3 DEF InOrder, IsRequest
      <3>5. ASSUME gateway[w].active = command.wave, NEW j \in DOMAIN stdin'[w]
            PROVE  stdin'[w][j] # Frame("complete", command.wave)
        BY <3>1, <3>3, <3>5 DEF InOrder, IsRequest
      <3>6. InOrder(w)'
        BY <1>1, <3>4, <3>5 DEF InOrder, IsRequest, Frame
      <3> QED
        BY <3>2, <3>6
    <2>11. ASSUME active[w] # None, command.generation # gate.generation
           PROVE  Canceling(w)'
      <3>1. Canceling(w)
        BY <1>1, <2>11 DEF Reached
      <3>2. CASE id = active[w]
        <4>1. stdin'[w][n] = Frame("cancel", active[w])
          BY <2>6, <3>2 DEF cancel
        <4> QED
          BY <1>1, <4>1 DEF Canceling, Written, Frame
      <3>3. CASE id # active[w] /\ \E i \in DOMAIN cancels[w] : cancels[w][i] = active[w]
        BY <1>1, <1>6, <3>3 DEF Canceling
      <3>4. CASE Written(w, "cancel")
        BY <1>1, <2>5, <3>4 DEF Canceling, Written, Frame
      <3>5. CASE gateway[w].active = active[w] /\ Aborted(w)
        BY <1>1, <3>5 DEF Canceling, Aborted
      <3>6. CASE gateway[w].active # active[w] /\ ~Written(w, "complete")
        <4>1. cancel # Frame("complete", active[w])
          BY <2>2 DEF Frame
        <4>2. ~Written(w, "complete")'
          BY <1>1, <2>7, <3>6, <4>1 DEF Written, Frame
        <4> QED
          BY <1>1, <3>6, <4>2 DEF Canceling
      <3> QED
        BY <1>8, <3>1, <3>2, <3>3, <3>4, <3>5, <3>6 DEF Canceling
    <2>12. PipeOK(w)' /\ Reached(w)'
      BY <1>1, <2>9, <2>10, <2>11 DEF PipeOK, Reached
    <2>13. PipeTypes'
      BY <1>1, <1>4, <2>4 DEF PipeTypes
    <2>14. \A v \in Workers \ {w} : PipeOK(v)' /\ Reached(v)'
      BY <1>1, <1>4, <2>4, OthersKept
    <2> QED
      BY <2>12, <2>13, <2>14
  <1> QED
    BY <1>7, <1>8

(* A request that has ended needs no cancel.                               *)
LEMMA GuardReaches ==
    ASSUME ReachInv, NEW w \in Workers, DropGuard(w)
    PROVE  \A v \in Workers : PipeOK(v)' /\ Reached(v)'
  <1>1. /\ UNCHANGED <<command, cancels, stdin, gateway>> /\ Goes(w, "idle")
        /\ active' = [active EXCEPT ![w] = None]
        /\ PipeOK(w) /\ Types
    BY DEF DropGuard, ReachInv, ControlInv
  <1>2. gate'.generation = gate.generation
    BY DEF DropGuard, ReachInv, ControlInv, Types
  <1>3. worker'[w].pc = "idle" /\ \A v \in Workers \ {w} : worker'[v] = worker[v]
    <2>1. "idle" \in WorkerPcs
      BY DEF WorkerPcs
    <2> QED
      BY <1>1, <2>1, GoesTo
  <1>4. active'[w] = None /\ \A v \in Workers \ {w} : active'[v] = active[v]
    BY <1>1 DEF Types
  <1>5. PipeOK(w)'
    BY <1>1, <1>3 DEF PipeOK, PastWaves, Unwritten, InOrder, IsRequest, Frame
  <1> QED
    BY <1>1, <1>2, <1>3, <1>4, <1>5, ReachedIdle, OthersKept

(* Dropping the pool finds no request in flight.                           *)
LEMMA DropReaches ==
    ASSUME ReachInv, NEW w \in Workers, DropWorker(w) \/ Reap(w)
    PROVE  PipeTypes' /\ \A v \in Workers : PipeOK(v)' /\ Reached(v)'
  <1>1. /\ UNCHANGED <<command, active, cancels>> /\ Types /\ Control /\ PipeTypes
        /\ worker[w].pc \in {"idle", "grace"}
        /\ Goes(w, "grace") \/ Goes(w, "dropped")
    BY DEF DropWorker, Reap, ReachInv, ControlInv
  <1>2. command.pc = "over"
    <2>1. CASE DropWorker(w)
      BY <2>1 DEF DropWorker
    <2>2. CASE Reap(w)
      BY <1>1, <2>2 DEF Reap, Types, Control
    <2> QED
      BY <2>1, <2>2
  <1>3. gate'.generation = gate.generation
    BY <1>1 DEF DropWorker, Reap, Types
  <1>4. \A v \in Workers \ {w} : worker'[v] = worker[v]
    <2>1. {"grace", "dropped"} \subseteq WorkerPcs
      BY DEF WorkerPcs
    <2> QED
      BY <1>1, <2>1, GoesTo
  <1>5. gateway' = gateway \/ gateway' = [gateway EXCEPT ![w] = Gone]
    BY DEF DropWorker, Reap
  <1>6. /\ gateway' \in [Workers -> Gateways]
        /\ gateway'[w] = gateway[w] \/ gateway'[w] = Gone
        /\ \A v \in Workers \ {w} : gateway'[v] = gateway[v]
    BY <1>1, <1>5, WaitingTypes DEF PipeTypes
  <1> DEFINE shutdown == Frame("shutdown", None)
  <1>7. shutdown \in Messages /\ shutdown.id = None
    BY FrameFields DEF None
  <1>8. \/ stdin' = stdin
        \/ stdin' = [stdin EXCEPT ![w] = Append(stdin[w], shutdown)]
        \/ stdin' = [stdin EXCEPT ![w] = <<>>]
    BY DEF DropWorker, Reap
  <1> HIDE DEF shutdown
  <1>9. stdin[w] \in Seq(Messages) /\ stdin \in [Workers -> Seq(Messages)]
    BY <1>1 DEF PipeTypes
  <1>10. /\ stdin' \in [Workers -> Seq(Messages)]
         /\ \A i \in DOMAIN stdin'[w] :
               \/ stdin'[w][i] = shutdown
               \/ i \in DOMAIN stdin[w] /\ stdin'[w][i] = stdin[w][i]
         /\ \A v \in Workers \ {w} : stdin'[v] = stdin[v]
    <2>1. CASE stdin' = stdin
      BY <1>9, <2>1
    <2>2. CASE stdin' = [stdin EXCEPT ![w] = Append(stdin[w], shutdown)]
      <3>1. /\ Append(stdin[w], shutdown) \in Seq(Messages)
            /\ \A i \in DOMAIN stdin[w] : Append(stdin[w], shutdown)[i] = stdin[w][i]
            /\ \E n \in DOMAIN Append(stdin[w], shutdown) :
                  /\ Append(stdin[w], shutdown)[n] = shutdown
                  /\ \A i \in DOMAIN Append(stdin[w], shutdown) :
                        i # n => i \in DOMAIN stdin[w]
        BY <1>7, <1>9, Appended
      <3>2. /\ stdin' \in [Workers -> Seq(Messages)]
            /\ stdin'[w] = Append(stdin[w], shutdown)
            /\ \A v \in Workers \ {w} : stdin'[v] = stdin[v]
        BY <1>9, <2>2, <3>1
      <3>3. \A i \in DOMAIN stdin'[w] :
               \/ stdin'[w][i] = shutdown
               \/ i \in DOMAIN stdin[w] /\ stdin'[w][i] = stdin[w][i]
        <4>1. TAKE i \in DOMAIN stdin'[w]
        <4>2. CASE i \in DOMAIN stdin[w]
          BY <3>1, <3>2, <4>2
        <4>3. CASE i \notin DOMAIN stdin[w]
          BY <3>1, <3>2, <4>3
        <4> QED
          BY <4>2, <4>3
      <3> QED
        BY <3>2, <3>3
    <2>3. CASE stdin' = [stdin EXCEPT ![w] = <<>>]
      <3>1. <<>> \in Seq(Messages)
        OBVIOUS
      <3>2. stdin'[w] = <<>>
        BY <1>9, <2>3
      <3> QED
        BY <1>9, <2>3, <3>1, <3>2
    <2> QED
      BY <1>8, <2>1, <2>2, <2>3
  <1>11. PipeTypes'
    BY <1>1, <1>6, <1>10 DEF PipeTypes
  <1>12. PipeOK(w)'
    <2>1. PastWaves(w) /\ command.wave \in Nat
      BY <1>1 DEF ReachInv, PipeOK, Types
    <2>2. None <= command.wave
      BY <2>1 DEF None
    <2>3. PastWaves(w)'
      BY <1>1, <1>6, <1>7, <1>10, <2>1, <2>2, WaitingTypes DEF PastWaves
    <2> QED
      BY <1>1, <1>2, <2>3 DEF PipeOK
  <1>13. Reached(w)'
    <2>1. active[w] = None
      BY <1>1 DEF Control, InFlight
    <2> QED
      BY <1>1, <2>1, ReachedIdle
  <1>14. \A v \in Workers \ {w} : PipeOK(v)' /\ Reached(v)'
    BY <1>1, <1>3, <1>4, <1>6, <1>10, OthersKept
  <1> QED
    BY <1>11, <1>12, <1>13, <1>14

(* A worker that receives changes neither pipe to its gateway.             *)
LEMMA ReceiveReaches ==
    ASSUME ReachInv, NEW w \in Workers,
           ReceiveFor(w) \/ Disconnected(w) \/ ReceiveTimesOut(w)
    PROVE  \A v \in Workers : PipeOK(v)' /\ Reached(v)'
  <1>1. /\ UNCHANGED <<gate, process, command, active, cancels, stdin, gateway>>
        /\ worker[w].pc \in {"starting", "waiting"}
        /\ worker'[w].pc \in {"starting", "waiting", "leaving"}
        /\ \A v \in Workers \ {w} : worker'[v] = worker[v]
    BY ReceiveFrame DEF ReachInv, ControlInv
  <1>2. PipeOK(w) /\ Reached(w)
    BY DEF ReachInv
  <1>3. PipeOK(w)'
    BY <1>1, <1>2 DEF PipeOK, PastWaves, Unwritten, InOrder, IsRequest, Frame
  <1>4. Reached(w)'
    BY <1>1, <1>2, ReachedUnchanged
  <1> QED
    BY <1>1, <1>3, <1>4, OthersKept

-----------------------------------------------------------------------------
(* ReachInv is inductive.                                                  *)
LEMMA ReachStep ==
    ASSUME ReachInv, Next
    PROVE  ReachInv'
  <1>1. ControlInv' /\ PipeTypes
    BY ControlStep DEF ReachInv
  <1>2. UNCHANGED <<cancels, stdin, gateway>> => PipeTypes'
    BY <1>1 DEF PipeTypes
  <1>3. CASE BeginWave
    BY <1>1, <1>2, <1>3, BeginReaches DEF ReachInv, BeginWave
  <1>4. CASE EndWave \/ Finished
    BY <1>1, <1>2, <1>4, EndReaches DEF ReachInv, EndWave, Finished
  <1>5. CASE Interrupt
    BY <1>1, <1>5, InterruptReaches DEF ReachInv
  <1>6. CASE Exit
    BY <1>1, <1>6, ExitReaches DEF ReachInv
  <1>7. CASE Done
    <2>1. UNCHANGED vars
      BY <1>7 DEF Done
    <2>2. \A w \in Workers : PipeOK(w)' /\ Reached(w)'
      BY <2>1, PipeUnchanged, ReachedUnchanged DEF ReachInv, vars
    <2> QED
      BY <1>1, <1>2, <2>1, <2>2 DEF ReachInv, vars
  <1>8. ASSUME NEW w \in Workers, SendComplete(w) PROVE ReachInv'
    BY <1>1, <1>2, <1>8, SendReaches DEF ReachInv, SendComplete
  <1>9. ASSUME NEW w \in Workers, WriteComplete(w) PROVE ReachInv'
    BY <1>1, <1>9, WriteReaches DEF ReachInv
  <1>10. ASSUME NEW w \in Workers,
                ReceiveFor(w) \/ Disconnected(w) \/ ReceiveTimesOut(w)
         PROVE  ReachInv'
    <2>1. UNCHANGED <<cancels, stdin, gateway>>
      BY <1>10, ReceiveFrame DEF ReachInv, ControlInv
    <2> QED
      BY <1>1, <1>2, <1>10, <2>1, ReceiveReaches DEF ReachInv
  <1>11. ASSUME NEW w \in Workers, DropGuard(w) PROVE ReachInv'
    BY <1>1, <1>2, <1>11, GuardReaches DEF ReachInv, DropGuard
  <1>12. ASSUME NEW w \in Workers, WriteCancel(w) PROVE ReachInv'
    BY <1>1, <1>12, CancelReaches DEF ReachInv
  <1>13. ASSUME NEW w \in Workers, Gateway(w) PROVE ReachInv'
    BY <1>13, GatewayKeeps
  <1>14. ASSUME NEW w \in Workers, DropWorker(w) \/ Reap(w) PROVE ReachInv'
    BY <1>1, <1>14, DropReaches DEF ReachInv
  <1> QED
    BY <1>3, <1>4, <1>5, <1>6, <1>7, <1>8, <1>9, <1>10, <1>11, <1>12, <1>13, <1>14,
       NextCases

LEMMA ReachInit ==
    ASSUME Init
    PROVE  ReachInv
  <1>1. PipeTypes
    BY WaitingTypes DEF Init, Launched, PipeTypes
  <1>2. ASSUME NEW w \in Workers PROVE PipeOK(w) /\ Reached(w)
    <2>1. /\ cancels[w] = <<>> /\ stdin[w] = <<>> /\ gateway[w].active = None
          /\ active[w] = None
      BY WaitingTypes DEF Init, Launched
    <2>2. command.pc = "between" /\ command.wave = 0
      BY DEF Init, Launched
    <2> QED
      BY <2>1, <2>2 DEF PipeOK, PastWaves, Reached, None
  <1> QED
    BY <1>1, <1>2, ControlInit DEF ReachInv

(* Whatever thread of a wave is early or late, every request in flight     *)
(* that was admitted before the last Ctrl-C is being canceled by it, and   *)
(* no cancel overtakes the request it is for: the admission generation,    *)
(* the lock on stdin and the order of the pipe do their work for any       *)
(* number of workers and waves (process.rs send_complete and              *)
(* request_interrupt).                                                     *)
THEOREM NothingOverlooked == Spec => []InterruptReachesAll
  <1>1. ReachInv /\ UNCHANGED vars => ReachInv'
    <2> SUFFICES ASSUME ReachInv, UNCHANGED vars PROVE ReachInv'
      OBVIOUS
    <2>1. ControlInv' /\ PipeTypes'
      BY DEF ReachInv, ControlInv, Types, Control, PipeTypes, vars
    <2>2. \A w \in Workers : PipeOK(w)' /\ Reached(w)'
      BY PipeUnchanged, ReachedUnchanged DEF ReachInv, vars
    <2> QED
      BY <2>1, <2>2 DEF ReachInv
  <1>2. ReachInv => InterruptReachesAll
    BY DEF ReachInv, Reached, InterruptReachesAll
  <1> QED
    BY <1>1, <1>2, ReachInit, ReachStep, PTL DEF Spec

-----------------------------------------------------------------------------
(* A connection stays in step.  A worker that waits has its request on       *)
(* stdin, at the gateway, or answered on stdout, where nothing of it follows *)
(* the answer; a worker that does not wait, and whose last request may be    *)
(* followed by another, has nothing left on its connection but refusals of   *)
(* late cancels.                                                            *)

Held(q) == {q[i] : i \in DOMAIN q}

Terminals == {"result", "timeout", "tool_contract", "provider", "canceled"}

Kinds == {"started", "acknowledged", "ignored", "busy"} \cup Terminals

Frames == [kind : Kinds, id : Nat]

FrameTypes == stdout \in [Workers -> Seq(Frames)]

(* Cancels and requests are of waves, and a gateway works at no other.      *)
Numbered(w) ==
    /\ \A id \in Held(cancels[w]) : id # None
    /\ \A m \in Held(stdin[w]) : m.kind # "shutdown" => m.id # None
    /\ gateway[w].active = None <=> gateway[w].phase = "none"

Requested(w) == \E m \in Held(stdin[w]) : m.kind = "complete"
Told(w, kinds) == \E f \in Held(stdout[w]) : f.kind \in kinds

OneRequest(q) ==
    \A i, j \in DOMAIN q : i < j => ~(q[i].kind = "complete" /\ q[j].kind = "complete")

(* After the end of a request come refusals only, and it starts once.       *)
Proper(q) ==
    \A i, j \in DOMAIN q :
        i < j /\ q[j].kind # "ignored" =>
            /\ q[i].kind \notin Terminals
            /\ ~(q[i].kind = "started" /\ q[j].kind = "started")

Silent(w) ==
    /\ ~Requested(w)
    /\ gateway[w].active = None
    /\ \A f \in Held(stdout[w]) : f.kind = "ignored"

Talking(w) ==
    /\ OneRequest(stdin[w]) /\ Proper(stdout[w])
    /\ \A m \in Held(stdin[w]) : m.kind = "complete" => m.id = command.wave
    /\ \A f \in Held(stdout[w]) : f.kind # "ignored" => f.id = command.wave /\ f.kind # "busy"
    /\ gateway[w].active \in {None, command.wave}
    /\ Requested(w) => /\ worker[w].pc = "starting"
                       /\ gateway[w].active = None
                       /\ \A f \in Held(stdout[w]) : f.kind = "ignored"
    /\ gateway[w].active # None => ~Told(w, Terminals)
    /\ gateway[w].phase = "resolving" => worker[w].pc = "starting" /\ ~Told(w, {"started"})
    /\ gateway[w].phase \in {"attempt", "backoff"} =>
          worker[w].pc = "waiting" \/ Told(w, {"started"})
    /\ Told(w, {"started"}) => worker[w].pc = "starting"
    /\ Told(w, {"result"}) => worker[w].pc = "waiting" \/ Told(w, {"started"})

Clean(w) == worker[w].outcome \in SubjectLocal \cup {"none"}

InStep(w) ==
    /\ worker[w].outcome \notin {"protocol", "busy"}
    /\ worker[w].pc \in {"spawned", "writing", "starting", "waiting"} =>
          worker[w].outcome = "none"
    /\ Receiving(w) => Talking(w)
    /\ worker[w].pc \in {"idle", "spawned", "writing", "leaving"} /\ Clean(w) => Silent(w)

StepInv ==
    /\ FrameTypes
    /\ \A w \in Workers : Numbered(w) /\ InStep(w)
    /\ command.pc = "between" => \A w \in Workers : Clean(w)

Local(w) == Numbered(w) /\ InStep(w)

-----------------------------------------------------------------------------
(* What Append and Tail do to what a queue holds.                          *)
LEMMA HeldAppended ==
    ASSUME NEW S, NEW q \in Seq(S), NEW e \in S
    PROVE  Append(q, e) \in Seq(S) /\ Held(Append(q, e)) = Held(q) \cup {e}
  <1>1. PICK n \in DOMAIN Append(q, e) :
           /\ Append(q, e)[n] = e
           /\ \A i \in DOMAIN Append(q, e) : i # n => i \in DOMAIN q /\ i < n
    BY Appended
  <1>2. \A i \in DOMAIN q : i \in DOMAIN Append(q, e) /\ Append(q, e)[i] = q[i]
    BY Appended
  <1>3. \A i \in DOMAIN Append(q, e) : Append(q, e)[i] = e \/ Append(q, e)[i] \in Held(q)
    BY <1>1, <1>2, Zenon DEF Held
  <1>4. e \in Held(Append(q, e)) /\ \A i \in DOMAIN q : q[i] \in Held(Append(q, e))
    BY <1>1, <1>2, Zenon DEF Held
  <1> QED
    BY <1>3, <1>4, Appended DEF Held

LEMMA HeldShifted ==
    ASSUME NEW S, NEW q \in Seq(S), q # <<>>
    PROVE  /\ Tail(q) \in Seq(S) /\ Head(q) \in S /\ Head(q) \in Held(q)
           /\ \A e \in Held(Tail(q)) : e \in Held(q)
           /\ \A e \in Held(q) : e = Head(q) \/ e \in Held(Tail(q))
  <1>1. \A e \in Held(Tail(q)) : e \in Held(q)
    BY Shifted DEF Held
  <1>2. ASSUME NEW i \in DOMAIN q PROVE q[i] = Head(q) \/ q[i] \in Held(Tail(q))
    <2>1. CASE i = 1
      BY <2>1, Shifted
    <2>2. CASE i # 1
      <3>1. PICK j \in DOMAIN Tail(q) : i = j + 1
        BY <2>2, Shifted
      <3>2. Tail(q)[j] = q[i]
        BY <3>1, Shifted
      <3> QED
        BY <3>2 DEF Held
    <2> QED
      BY <2>1, <2>2
  <1>3. Head(q) \in Held(q)
    BY Shifted DEF Held
  <1> QED
    BY <1>1, <1>2, <1>3, Shifted DEF Held

LEMMA ProperAppended ==
    ASSUME NEW q \in Seq(Frames), NEW e \in Frames, Proper(q),
           e.kind # "ignored" => \A f \in Held(q) :
               f.kind \notin Terminals /\ ~(f.kind = "started" /\ e.kind = "started")
    PROVE  Proper(Append(q, e))
  <1> DEFINE a == Append(q, e)
  <1>1. PICK n \in DOMAIN a : a[n] = e /\ \A i \in DOMAIN a : i # n => i \in DOMAIN q /\ i < n
    BY Appended
  <1>2. \A i \in DOMAIN q : i \in DOMAIN a /\ a[i] = q[i]
    BY Appended
  <1>3. DOMAIN a \subseteq Nat /\ DOMAIN q \subseteq Nat
    BY Appended
  <1> HIDE DEF a
  <1>4. SUFFICES ASSUME NEW i \in DOMAIN a, NEW j \in DOMAIN a, i < j, a[j].kind # "ignored"
                 PROVE  a[i].kind \notin Terminals
                        /\ ~(a[i].kind = "started" /\ a[j].kind = "started")
    BY DEF Proper, a
  <1>5. i # n /\ i \in DOMAIN q /\ a[i] = q[i]
    BY <1>1, <1>2, <1>3, <1>4
  <1>6. CASE j = n
    <2>1. q[i] \in Held(q) /\ a[j] = e
      BY <1>1, <1>5, <1>6 DEF Held
    <2> QED
      BY <1>4, <1>5, <2>1
  <1>7. CASE j # n
    <2>1. j \in DOMAIN q /\ a[j] = q[j]
      BY <1>1, <1>2, <1>7
    <2> QED
      BY <1>4, <1>5, <2>1 DEF Proper
  <1> QED
    BY <1>6, <1>7

LEMMA ProperShifted ==
    ASSUME NEW q \in Seq(Frames), q # <<>>, Proper(q)
    PROVE  /\ Proper(Tail(q))
           /\ \A f \in Held(Tail(q)) : f.kind # "ignored" =>
                 /\ Head(q).kind \notin Terminals
                 /\ ~(Head(q).kind = "started" /\ f.kind = "started")
  <1>1. /\ 1 \in DOMAIN q /\ Head(q) = q[1]
        /\ \A i \in DOMAIN Tail(q) :
              i \in Nat /\ i + 1 \in DOMAIN q /\ 1 < i + 1 /\ Tail(q)[i] = q[i + 1]
    BY Shifted
  <1>2. Proper(Tail(q))
    <2> SUFFICES ASSUME NEW i \in DOMAIN Tail(q), NEW j \in DOMAIN Tail(q), i < j,
                        Tail(q)[j].kind # "ignored"
                 PROVE  Tail(q)[i].kind \notin Terminals
                        /\ ~(Tail(q)[i].kind = "started" /\ Tail(q)[j].kind = "started")
      BY DEF Proper
    <2>1. i + 1 < j + 1
      BY <1>1
    <2> QED
      BY <1>1, <2>1 DEF Proper
  <1>3. ASSUME NEW j \in DOMAIN Tail(q), Tail(q)[j].kind # "ignored"
        PROVE  /\ Head(q).kind \notin Terminals
               /\ ~(Head(q).kind = "started" /\ Tail(q)[j].kind = "started")
    BY <1>1, <1>3 DEF Proper
  <1> QED
    BY <1>2, <1>3 DEF Held

LEMMA RequestAppended ==
    ASSUME NEW q \in Seq(Messages), NEW e \in Messages, OneRequest(q),
           e.kind = "complete" => \A m \in Held(q) : m.kind # "complete"
    PROVE  OneRequest(Append(q, e))
  <1> DEFINE a == Append(q, e)
  <1>1. PICK n \in DOMAIN a : a[n] = e /\ \A i \in DOMAIN a : i # n => i \in DOMAIN q /\ i < n
    BY Appended
  <1>2. \A i \in DOMAIN q : i \in DOMAIN a /\ a[i] = q[i]
    BY Appended
  <1>3. DOMAIN a \subseteq Nat /\ DOMAIN q \subseteq Nat
    BY Appended
  <1> HIDE DEF a
  <1>4. SUFFICES ASSUME NEW i \in DOMAIN a, NEW j \in DOMAIN a, i < j
                 PROVE  ~(a[i].kind = "complete" /\ a[j].kind = "complete")
    BY DEF OneRequest, a
  <1>5. i # n /\ i \in DOMAIN q /\ a[i] = q[i]
    BY <1>1, <1>2, <1>3, <1>4
  <1>6. CASE j = n
    <2>1. q[i] \in Held(q) /\ a[j] = e
      BY <1>1, <1>5, <1>6 DEF Held
    <2> QED
      BY <1>5, <2>1
  <1>7. CASE j # n
    <2>1. j \in DOMAIN q /\ a[j] = q[j]
      BY <1>1, <1>2, <1>7
    <2> QED
      BY <1>4, <1>5, <2>1 DEF OneRequest
  <1> QED
    BY <1>6, <1>7

LEMMA RequestShifted ==
    ASSUME NEW q \in Seq(Messages), q # <<>>, OneRequest(q)
    PROVE  /\ OneRequest(Tail(q))
           /\ Head(q).kind = "complete" => \A m \in Held(Tail(q)) : m.kind # "complete"
  <1>1. /\ 1 \in DOMAIN q /\ Head(q) = q[1]
        /\ \A i \in DOMAIN Tail(q) :
              i \in Nat /\ i + 1 \in DOMAIN q /\ 1 < i + 1 /\ Tail(q)[i] = q[i + 1]
    BY Shifted
  <1>2. OneRequest(Tail(q))
    <2> SUFFICES ASSUME NEW i \in DOMAIN Tail(q), NEW j \in DOMAIN Tail(q), i < j
                 PROVE  ~(Tail(q)[i].kind = "complete" /\ Tail(q)[j].kind = "complete")
      BY DEF OneRequest
    <2>1. i + 1 < j + 1
      BY <1>1
    <2> QED
      BY <1>1, <2>1 DEF OneRequest
  <1>3. ASSUME NEW j \in DOMAIN Tail(q), Head(q).kind = "complete"
        PROVE  Tail(q)[j].kind # "complete"
    BY <1>1, <1>3 DEF OneRequest
  <1> QED
    BY <1>2, <1>3 DEF Held

-----------------------------------------------------------------------------
(* What the clauses of a worker depend on.                                 *)
LEMMA LocalUnchanged ==
    ASSUME NEW w \in Workers, Local(w), command'.wave = command.wave, worker'[w] = worker[w],
           cancels'[w] = cancels[w], stdin'[w] = stdin[w], stdout'[w] = stdout[w],
           gateway'[w] = gateway[w]
    PROVE  Local(w)' /\ (Clean(w)' <=> Clean(w))
  BY DEF Local, Numbered, InStep, Receiving, Talking, Silent, Requested, Told, Clean

(* A worker in flight works at the request of the wave.                    *)
LEMMA OfTheWave ==
    ASSUME ControlInv, NEW w \in Workers, worker[w].pc \in {"spawned"} \cup InFlight
    PROVE  /\ command.pc = "wave" /\ command.wave \in Nat /\ command.wave # None
           /\ worker[w].pc \in InFlight => active[w] = command.wave
  BY DEF ControlInv, Control, Types, InFlight, None

LEMMA StepTypes ==
    ASSUME ReachInv, NEW w \in Workers
    PROVE  /\ worker[w] \in Threads /\ worker \in [Workers -> Threads]
           /\ cancels[w] \in Seq(Nat) /\ stdin[w] \in Seq(Messages)
           /\ gateway[w] \in Gateways
           /\ cancels \in [Workers -> Seq(Nat)] /\ stdin \in [Workers -> Seq(Messages)]
           /\ gateway \in [Workers -> Gateways]
           /\ active[w] \in Nat /\ command.wave \in Nat
  BY DEF ReachInv, ControlInv, Types, PipeTypes

(* A thread that goes to another place, or leaves.                         *)
LEMMA Went ==
    ASSUME ReachInv, NEW w \in Workers, NEW pc, Goes(w, pc)
    PROVE  /\ worker'[w].pc = pc /\ worker'[w].outcome = worker[w].outcome
           /\ \A v \in Workers \ {w} : worker'[v] = worker[v]
  BY StepTypes DEF Goes, Threads

LEMMA Left ==
    ASSUME ReachInv, NEW w \in Workers, NEW how, NEW poisons, Leaves(w, how, poisons)
    PROVE  /\ worker'[w].pc = "leaving" /\ worker'[w].outcome = how
           /\ \A v \in Workers \ {w} : worker'[v] = worker[v]
  BY StepTypes DEF Leaves

(* A worker that lost its connection uses it no more.                      *)
LEMMA LostInStep ==
    ASSUME NEW w \in Workers, Numbered(w)', worker'[w].pc = "leaving",
           worker'[w].outcome \in {"lost", "provider", "canceled"}
    PROVE  Local(w)'
  BY DEF Local, InStep, Receiving, Clean, SubjectLocal

LEMMA SendInStep ==
    ASSUME ReachInv, NEW w \in Workers, SendComplete(w), Local(w)
    PROVE  Local(w)'
  <1>1. /\ worker[w].pc = "spawned" /\ worker[w].outcome = "none" /\ worker[w] \in Threads
        /\ UNCHANGED <<command, cancels, stdin, stdout, gateway>>
    BY StepTypes DEF SendComplete, Local, InStep
  <1>2. Silent(w)
    BY <1>1 DEF Local, InStep, Clean
  <1>3. Silent(w)' /\ Numbered(w)'
    BY <1>1, <1>2 DEF Silent, Requested, Local, Numbered
  <1>4. CASE Goes(w, "writing")
    <2>1. worker'[w].pc = "writing" /\ worker'[w].outcome = "none"
      BY <1>1, <1>4, Went
    <2> QED
      BY <1>3, <2>1 DEF Local, InStep, Receiving
  <1>5. CASE worker' = [worker EXCEPT ![w].pc = "idle", ![w].outcome = "refused"]
    <2>1. worker'[w].pc = "idle" /\ worker'[w].outcome = "refused"
      BY <1>1, <1>5, StepTypes DEF Threads
    <2> QED
      BY <1>3, <2>1 DEF Local, InStep, Receiving, Clean, SubjectLocal
  <1> QED
    BY <1>4, <1>5 DEF SendComplete

LEMMA WriteInStep ==
    ASSUME ReachInv, NEW w \in Workers, WriteComplete(w), Local(w)
    PROVE  Local(w)'
  <1>1. /\ worker[w].pc = "writing" /\ worker[w].outcome = "none" /\ stdin[w] \in Seq(Messages)
        /\ UNCHANGED <<command, cancels, stdout, gateway>>
        /\ active[w] = command.wave /\ command.wave \in Nat /\ command.wave # None
    BY StepTypes, OfTheWave DEF WriteComplete, Local, InStep, InFlight, ReachInv
  <1>2. Silent(w) /\ Numbered(w)
    BY <1>1 DEF Local, InStep, Clean
  <1>3. CASE Goes(w, "starting") /\ stdin' = [stdin EXCEPT ![w] = Append(@, Frame("complete", active[w]))]
    <2> DEFINE m == Frame("complete", command.wave)
    <2>1. m \in Messages /\ m.kind = "complete" /\ m.id = command.wave
      BY <1>1, FrameFields
    <2> HIDE DEF m
    <2>2. stdin'[w] = Append(stdin[w], m)
      BY <1>1, <1>3, StepTypes DEF m
    <2>3. Held(stdin'[w]) = Held(stdin[w]) \cup {m}
      BY <1>1, <2>1, <2>2, HeldAppended
    <2>4. \A e \in Held(stdin[w]) : e.kind # "complete"
      BY <1>2 DEF Silent, Requested
    <2>5. OneRequest(stdin[w])
      BY <2>4 DEF OneRequest, Held
    <2>6. OneRequest(stdin'[w])
      BY <1>1, <2>1, <2>2, <2>4, <2>5, RequestAppended
    <2>7. Proper(stdout[w])
      BY <1>2 DEF Silent, Proper, Held
    <2>8. worker'[w].pc = "starting" /\ worker'[w].outcome = "none"
      BY <1>1, <1>3, Went
    <2>9. gateway'[w] = gateway[w] /\ gateway[w].active = None /\ gateway[w].phase = "none"
          /\ stdout'[w] = stdout[w] /\ command' = command /\ cancels'[w] = cancels[w]
      BY <1>1, <1>2 DEF Silent, Numbered
    <2>10. \A f \in Held(stdout'[w]) : f.kind = "ignored"
      BY <1>2, <2>9 DEF Silent
    <2>11. Talking(w)'
      BY <2>1, <2>3, <2>4, <2>6, <2>7, <2>8, <2>9, <2>10 DEF Talking, Requested, Told, Terminals
    <2>12. Numbered(w)'
      BY <1>1, <1>2, <2>1, <2>3, <2>9 DEF Numbered
    <2> QED
      BY <2>8, <2>11, <2>12 DEF Local, InStep, Clean
  <1>4. CASE Leaves(w, "lost", TRUE) /\ UNCHANGED stdin
    <2>1. Numbered(w)'
      BY <1>1, <1>2, <1>4 DEF Numbered
    <2> QED
      BY <1>4, <2>1, Left, LostInStep
  <1> QED
    BY <1>3, <1>4 DEF WriteComplete

LEMMA LosesInStep ==
    ASSUME ReachInv, NEW w \in Workers, Disconnected(w) \/ ReceiveTimesOut(w), Local(w)
    PROVE  Local(w)'
  <1>1. Leaves(w, "lost", TRUE) /\ UNCHANGED <<command, cancels, stdin, stdout, gateway>>
    BY DEF Disconnected, ReceiveTimesOut
  <1>2. Numbered(w)'
    BY <1>1 DEF Local, Numbered
  <1> QED
    BY <1>1, <1>2, Left, LostInStep

(* A worker reads only frames of its request, and its end is the last.     *)
LEMMA ReceiveInStep ==
    ASSUME ReachInv, FrameTypes, NEW w \in Workers, ReceiveFor(w), Local(w)
    PROVE  Local(w)'
  <1> DEFINE frame == Head(stdout[w])
  <1>1. /\ Receiving(w) /\ stdout[w] # <<>> /\ stdout[w] \in Seq(Frames)
        /\ stdout'[w] = Tail(stdout[w])
        /\ UNCHANGED <<command, active, cancels, stdin, gateway>>
    BY DEF ReceiveFor, FrameTypes
  <1>2. Talking(w) /\ Numbered(w) /\ worker[w].outcome = "none"
    BY <1>1 DEF Local, InStep, Receiving
  <1>3. active[w] = command.wave
    BY <1>1, OfTheWave DEF Receiving, InFlight, ReachInv
  <1>4. /\ Tail(stdout[w]) \in Seq(Frames) /\ frame \in Frames /\ frame \in Held(stdout[w])
        /\ \A e \in Held(stdout'[w]) : e \in Held(stdout[w])
        /\ \A e \in Held(stdout[w]) : e = frame \/ e \in Held(stdout'[w])
    BY <1>1, HeldShifted
  <1>5. /\ Proper(stdout'[w])
        /\ \A f \in Held(stdout'[w]) : f.kind # "ignored" =>
              frame.kind \notin Terminals /\ ~(frame.kind = "started" /\ f.kind = "started")
    <2>1. Proper(stdout[w])
      BY <1>2 DEF Talking
    <2> QED
      BY <1>1, <2>1, ProperShifted
  <1>6. frame.kind # "ignored" => frame.id = active[w] /\ frame.kind # "busy"
    BY <1>2, <1>3, <1>4 DEF Talking
  <1> HIDE DEF frame
  <1>7. Numbered(w)'
    BY <1>1, <1>2 DEF Numbered
  <1>8. CASE frame.kind \in {"acknowledged", "ignored"}
    <2>1. worker' = worker
      BY <1>6, <1>8 DEF ReceiveFor, Errors, frame
    <2>2. \A kinds : "acknowledged" \notin kinds /\ "ignored" \notin kinds =>
             (Told(w, kinds)' <=> Told(w, kinds))
      BY <1>4, <1>8 DEF Told
    <2>3. (Told(w, Terminals)' <=> Told(w, Terminals))
          /\ (Told(w, {"started"})' <=> Told(w, {"started"}))
          /\ (Told(w, {"result"})' <=> Told(w, {"result"}))
      BY <2>2 DEF Terminals
    <2>4. Talking(w)'
      BY <1>1, <1>2, <1>4, <1>5, <2>1, <2>3 DEF Talking, Requested
    <2> QED
      BY <1>1, <1>2, <1>7, <2>1, <2>4 DEF Local, InStep, Receiving
  <1>9. ASSUME frame.kind \in Terminals
        PROVE  ~Requested(w) /\ gateway[w].active = None
               /\ \A f \in Held(stdout'[w]) : f.kind = "ignored"
    <2>1. Told(w, Terminals)
      BY <1>4, <1>9 DEF Told
    <2>2. frame.kind # "ignored"
      BY <1>9 DEF Terminals
    <2> QED
      BY <1>2, <1>4, <1>5, <1>9, <2>1, <2>2 DEF Talking
  <1>10. ASSUME frame.kind \in Terminals PROVE Silent(w)'
    BY <1>1, <1>9, <1>10 DEF Silent, Requested
  <1>11. CASE frame.kind \in {"timeout", "tool_contract", "provider", "canceled"}
    <2>1. Leaves(w, frame.kind, FALSE)
      BY <1>6, <1>11 DEF ReceiveFor, frame
    <2>2. worker'[w].pc = "leaving" /\ worker'[w].outcome = frame.kind
      BY <2>1, Left
    <2> QED
      BY <1>7, <1>10, <1>11, <2>2 DEF Local, InStep, Receiving, Terminals
  <1>12. CASE frame.kind = "started"
    <2>1. Told(w, {"started"})
      BY <1>4, <1>12 DEF Told
    <2>2. worker[w].pc = "starting" /\ gateway[w].phase # "resolving" /\ ~Requested(w)
      BY <1>2, <1>4, <1>12, <2>1 DEF Talking
    <2>3. Goes(w, "waiting")
      BY <1>6, <1>12, <2>2 DEF ReceiveFor, Errors, frame
    <2>4. worker'[w].pc = "waiting" /\ worker'[w].outcome = "none"
      BY <1>2, <2>3, Went
    <2>5. ~Told(w, {"started"})'
      BY <1>5, <1>12 DEF Told
    <2>6. Told(w, Terminals)' => Told(w, Terminals)
      BY <1>4 DEF Told
    <2>7. Talking(w)'
      BY <1>1, <1>2, <1>4, <1>5, <2>2, <2>4, <2>5, <2>6 DEF Talking, Requested
    <2> QED
      BY <1>7, <2>4, <2>7 DEF Local, InStep, Receiving
  <1>13. CASE frame.kind = "result"
    <2>1. Told(w, {"result"}) /\ frame.kind \in Terminals
      BY <1>4, <1>13 DEF Told, Terminals
    <2>2. worker[w].pc = "waiting"
      <3>1. ~Told(w, {"started"})
        BY <1>4, <1>9, <1>13, <2>1 DEF Told
      <3> QED
        BY <1>2, <2>1, <3>1 DEF Talking
    <2>3. Leaves(w, "result", FALSE)
      BY <1>6, <1>13, <2>2 DEF ReceiveFor, frame
    <2>4. worker'[w].pc = "leaving" /\ worker'[w].outcome = "result"
      BY <2>3, Left
    <2> QED
      BY <1>7, <1>10, <2>1, <2>4 DEF Local, InStep, Receiving
  <1> QED
    BY <1>4, <1>6, <1>8, <1>11, <1>12, <1>13 DEF Frames, Kinds, Terminals

-----------------------------------------------------------------------------
(* The steps of a gateway.                                                 *)

LEMMA NumbersKept ==
    ASSUME NEW w \in Workers, Numbered(w), cancels' = cancels,
           \A m \in Held(stdin'[w]) : m \in Held(stdin[w]),
           gateway'[w].active = None <=> gateway'[w].phase = "none"
    PROVE  Numbered(w)'
  BY DEF Numbered

LEMMA FrameSent ==
    ASSUME FrameTypes, NEW w \in Workers, NEW id \in Nat,
           NEW kind \in Kinds, Sends(w, kind, id)
    PROVE  /\ FrameTypes'
           /\ Frame(kind, id) \in Frames /\ Frame(kind, id).kind = kind /\ Frame(kind, id).id = id
           /\ stdout[w] \in Seq(Frames) /\ stdout'[w] = Append(stdout[w], Frame(kind, id))
           /\ Held(stdout'[w]) = Held(stdout[w]) \cup {Frame(kind, id)}
           /\ \A v \in Workers \ {w} : stdout'[v] = stdout[v]
  <1> DEFINE e == Frame(kind, id)
  <1>1. e \in Frames /\ e.kind = kind /\ e.id = id
    BY DEF Frame, Frames
  <1>2. stdout' = [stdout EXCEPT ![w] = Append(stdout[w], e)]
    BY DEF Sends
  <1> HIDE DEF e
  <1>3. stdout[w] \in Seq(Frames)
    BY DEF FrameTypes
  <1>4. Append(stdout[w], e) \in Seq(Frames) /\ Held(Append(stdout[w], e)) = Held(stdout[w]) \cup {e}
    BY <1>1, <1>3, HeldAppended
  <1>5. /\ FrameTypes' /\ stdout'[w] = Append(stdout[w], e)
        /\ \A v \in Workers \ {w} : stdout'[v] = stdout[v]
    BY <1>2, <1>4 DEF FrameTypes
  <1> QED
    BY <1>1, <1>3, <1>4, <1>5 DEF e

(* What a gateway that is gone leaves on its pipes.                        *)
LEMMA GoneInStep ==
    ASSUME NEW w \in Workers, Local(w), UNCHANGED <<command, worker, cancels, stdout>>,
           gateway'[w].active = None, gateway'[w].phase = "none",
           \A m \in Held(stdin'[w]) : m \in Held(stdin[w]), OneRequest(stdin[w]) => OneRequest(stdin'[w])
    PROVE  Local(w)'
  <1>1. Numbered(w)'
    BY NumbersKept DEF Local
  <1>2. Silent(w) => Silent(w)'
    BY DEF Silent, Requested
  <1>3. Talking(w) => Talking(w)'
    BY DEF Talking, Requested, Told
  <1> QED
    BY <1>1, <1>2, <1>3 DEF Local, InStep, Receiving, Clean

LEMMA MessageTaken ==
    ASSUME ReachInv, NEW w \in Workers, HandleMessage(w)
    PROVE  LET message == Head(stdin[w]) IN
           /\ message \in Messages /\ message \in Held(stdin[w])
           /\ stdin'[w] = Tail(stdin[w]) /\ stdin[w] \in Seq(Messages) /\ stdin[w] # <<>>
           /\ \A m \in Held(stdin'[w]) : m \in Held(stdin[w])
           /\ OneRequest(stdin[w]) => OneRequest(stdin'[w])
  <1>1. stdin[w] # <<>> /\ stdin[w] \in Seq(Messages) /\ stdin'[w] = Tail(stdin[w])
    BY StepTypes DEF HandleMessage
  <1> QED
    BY <1>1, HeldShifted, RequestShifted

LEMMA CompleteInStep ==
    ASSUME ReachInv, FrameTypes, NEW w \in Workers, HandleMessage(w), Local(w),
           Head(stdin[w]).kind = "complete", Complete(w, Head(stdin[w]).id)
    PROVE  Local(w)'
  <1> DEFINE message == Head(stdin[w])
  <1>1. /\ message \in Messages /\ message \in Held(stdin[w])
        /\ stdin'[w] = Tail(stdin[w]) /\ stdin[w] \in Seq(Messages) /\ stdin[w] # <<>>
        /\ \A m \in Held(stdin'[w]) : m \in Held(stdin[w])
        /\ OneRequest(stdin[w]) => OneRequest(stdin'[w])
    BY MessageTaken
  <1>2. UNCHANGED <<command, worker, cancels>> /\ message.id # None
    BY <1>1 DEF HandleMessage, RustUnchanged, Local, Numbered
  <1>3. Requested(w) /\ ~Silent(w)
    BY <1>1 DEF Requested, Silent
  <1>4. CASE gateway[w].active # None
    <2>1. gateway' = gateway
      BY <1>4 DEF Complete
    <2>2. Numbered(w)'
      BY <1>1, <1>2, <2>1, NumbersKept DEF Local, Numbered
    <2>3. ~Talking(w)
      BY <1>3, <1>4 DEF Talking
    <2> QED
      BY <1>2, <1>3, <2>2, <2>3 DEF Local, InStep, Receiving, Clean
  <1>5. CASE gateway[w].active = None
    <2> DEFINE g == [Waiting EXCEPT !.active = message.id, !.phase = "resolving", !.timer = TRUE]
    <2>1. g.active = message.id /\ g.phase = "resolving"
      BY DEF Waiting
    <2>2. gateway' = [gateway EXCEPT ![w] = g] /\ stdout' = stdout
      BY <1>5 DEF Complete
    <2> HIDE DEF g
    <2>3. gateway'[w].active = message.id /\ gateway'[w].phase = "resolving"
      BY <2>1, <2>2, StepTypes
    <2>4. Numbered(w)'
      BY <1>1, <1>2, <2>3, NumbersKept DEF Local
    <2>5. ASSUME Talking(w) PROVE Talking(w)'
      <3>1. /\ worker[w].pc = "starting" /\ message.id = command.wave
            /\ \A f \in Held(stdout[w]) : f.kind = "ignored"
        BY <1>1, <1>3, <2>5 DEF Talking
      <3>2. ~Requested(w)'
        BY <1>1, <2>5, RequestShifted DEF Requested, Talking
      <3>3. \A f \in Held(stdout'[w]) : f.kind = "ignored"
        BY <2>2, <3>1
      <3>4. ~Told(w, Terminals)' /\ ~Told(w, {"started"})' /\ ~Told(w, {"result"})'
        BY <3>3 DEF Told, Terminals
      <3> QED
        BY <1>1, <1>2, <2>2, <2>3, <2>5, <3>1, <3>2, <3>4 DEF Talking
    <2> QED
      BY <1>2, <1>3, <2>4, <2>5 DEF Local, InStep, Receiving, Clean
  <1> QED
    BY <1>4, <1>5

(* A frame that is no news of the request.                                 *)
LEMMA AnswersCancel ==
    ASSUME ReachInv, FrameTypes, NEW w \in Workers, HandleMessage(w), Local(w),
           Head(stdin[w]).kind = "cancel",
           NEW kind \in {"acknowledged", "ignored"}, Sends(w, kind, Head(stdin[w]).id),
           kind = "acknowledged" => gateway[w].active = Head(stdin[w]).id,
           gateway'[w].active = gateway[w].active, gateway'[w].phase = gateway[w].phase
    PROVE  Local(w)'
  <1> DEFINE message == Head(stdin[w])
             e == Frame(kind, message.id)
  <1>1. /\ message \in Messages /\ message \in Held(stdin[w])
        /\ stdin'[w] = Tail(stdin[w]) /\ stdin[w] \in Seq(Messages) /\ stdin[w] # <<>>
        /\ \A m \in Held(stdin'[w]) : m \in Held(stdin[w])
        /\ OneRequest(stdin[w]) => OneRequest(stdin'[w])
    BY MessageTaken
  <1>2. UNCHANGED <<command, worker, cancels>> /\ message.id # None /\ message.id \in Nat
    BY <1>1 DEF HandleMessage, RustUnchanged, Local, Numbered, Messages
  <1>3. /\ e \in Frames /\ e.kind = kind /\ e.id = message.id
        /\ stdout[w] \in Seq(Frames) /\ stdout'[w] = Append(stdout[w], e)
        /\ Held(stdout'[w]) = Held(stdout[w]) \cup {e}
    <2>1. kind \in Kinds
      BY DEF Kinds
    <2>2. Sends(w, kind, message.id)
      OBVIOUS
    <2> HIDE DEF message
    <2> QED
      BY <1>2, <2>1, <2>2, FrameSent
  <1>4. Numbered(w)'
    BY <1>1, <1>2, NumbersKept DEF Local, Numbered
  <1> HIDE DEF e, message
  <1>5. ASSUME Silent(w) PROVE Silent(w)'
    <2>1. kind = "ignored"
      BY <1>2, <1>5 DEF Silent, message
    <2> QED
      BY <1>1, <1>3, <1>5, <2>1 DEF Silent, Requested
  <1>6. ASSUME Talking(w) PROVE Talking(w)'
    <2>1. /\ Told(w, Terminals)' <=> Told(w, Terminals)
          /\ Told(w, {"started"})' <=> Told(w, {"started"})
          /\ Told(w, {"result"})' <=> Told(w, {"result"})
      BY <1>3 DEF Told, Terminals
    <2>2. kind = "acknowledged" => /\ e.id = command.wave /\ ~Requested(w) /\ ~Told(w, Terminals)
      BY <1>2, <1>3, <1>6 DEF Talking, message
    <2>3. Proper(stdout'[w])
      <3>1. e.kind # "ignored" => \A f \in Held(stdout[w]) :
               f.kind \notin Terminals /\ ~(f.kind = "started" /\ e.kind = "started")
        BY <1>3, <2>2 DEF Told
      <3> QED
        BY <1>3, <1>6, <3>1, ProperAppended DEF Talking
    <2>4. Requested(w)' => Requested(w)
      BY <1>1 DEF Requested
    <2>5. \A f \in Held(stdout'[w]) : f.kind # "ignored" => f.id = command.wave /\ f.kind # "busy"
      BY <1>3, <1>6, <2>2 DEF Talking
    <2>6. Requested(w)' => \A f \in Held(stdout'[w]) : f.kind = "ignored"
      BY <1>3, <1>6, <2>2, <2>4 DEF Talking
    <2> QED
      BY <1>1, <1>2, <1>6, <2>1, <2>3, <2>4, <2>5, <2>6 DEF Talking
  <1> QED
    BY <1>2, <1>4, <1>5, <1>6 DEF Local, InStep, Receiving, Clean

LEMMA HandleInStep ==
    ASSUME ReachInv, FrameTypes, NEW w \in Workers, HandleMessage(w), Local(w)
    PROVE  Local(w)' /\ FrameTypes' /\ \A v \in Workers \ {w} : stdout'[v] = stdout[v]
  <1> DEFINE message == Head(stdin[w])
  <1>1. /\ message \in Messages
        /\ \A m \in Held(stdin'[w]) : m \in Held(stdin[w])
        /\ OneRequest(stdin[w]) => OneRequest(stdin'[w])
    BY MessageTaken
  <1>2. message.id \in Nat /\ gateway[w] \in Gateways
    BY <1>1, StepTypes DEF Messages
  <1>3. stdout' = stdout \/ \E kind \in {"acknowledged", "ignored", "busy"} :
                               Sends(w, kind, message.id)
    BY DEF HandleMessage, Complete, Cancel, Shutdown
  <1>4. FrameTypes' /\ \A v \in Workers \ {w} : stdout'[v] = stdout[v]
    <2>1. CASE stdout' = stdout
      BY <2>1 DEF FrameTypes
    <2>2. CASE \E kind \in {"acknowledged", "ignored", "busy"} : Sends(w, kind, message.id)
      <3>1. PICK kind \in {"acknowledged", "ignored", "busy"} : Sends(w, kind, message.id)
        BY <2>2
      <3>2. kind \in Kinds
        BY DEF Kinds
      <3> HIDE DEF message
      <3> QED
        BY <1>2, <3>1, <3>2, FrameSent
    <2> QED
      BY <1>3, <2>1, <2>2
  <1>5. ASSUME message.kind = "complete" PROVE Local(w)'
    BY <1>5, CompleteInStep DEF HandleMessage
  <1>6. ASSUME message.kind = "cancel" PROVE Local(w)'
    <2>1. CASE Finds(w, message.id)
      <3>1. Sends(w, "acknowledged", message.id)
            /\ gateway' = [gateway EXCEPT ![w].reason = "canceled"]
        BY <1>6, <2>1 DEF HandleMessage, Cancel
      <3>2. gateway'[w].active = gateway[w].active /\ gateway'[w].phase = gateway[w].phase
        BY <1>2, <3>1, StepTypes DEF Gateways
      <3>3. gateway[w].active = Head(stdin[w]).id /\ Head(stdin[w]).kind = "cancel"
            /\ Sends(w, "acknowledged", Head(stdin[w]).id)
        BY <1>6, <2>1, <3>1 DEF Finds
      <3>4. "acknowledged" \in {"acknowledged", "ignored"}
        OBVIOUS
      <3> HIDE DEF message
      <3> QED
        BY <3>2, <3>3, <3>4, AnswersCancel
    <2>2. CASE ~Finds(w, message.id)
      <3>1. Sends(w, "ignored", message.id) /\ gateway' = gateway
        BY <1>6, <2>2 DEF HandleMessage, Cancel
      <3>2. gateway'[w].active = gateway[w].active /\ gateway'[w].phase = gateway[w].phase
        BY <3>1
      <3>3. Head(stdin[w]).kind = "cancel" /\ Sends(w, "ignored", Head(stdin[w]).id)
        BY <1>6, <3>1
      <3>4. "ignored" \in {"acknowledged", "ignored"} /\ "ignored" # "acknowledged"
        OBVIOUS
      <3> HIDE DEF message
      <3> QED
        BY <3>2, <3>3, <3>4, AnswersCancel
    <2> QED
      BY <2>1, <2>2
  <1>7. ASSUME message.kind = "shutdown" PROVE Local(w)'
    <2>1. gateway' = [gateway EXCEPT ![w] = Gone] /\ stdout' = stdout
          /\ UNCHANGED <<command, worker, cancels>>
      BY <1>7 DEF HandleMessage, Shutdown, RustUnchanged
    <2>2. gateway'[w].active = None /\ gateway'[w].phase = "none"
      BY <2>1, StepTypes DEF Gone, Waiting
    <2>3. UNCHANGED <<command, worker, cancels, stdout>>
      BY <2>1
    <2> HIDE DEF message
    <2> QED
      BY <1>1, <2>2, <2>3, GoneInStep
  <1> QED
    BY <1>1, <1>4, <1>5, <1>6, <1>7 DEF Messages

(* A gateway that works on goes on being silent or talking.                *)
LEMMA WorksInStep ==
    ASSUME NEW w \in Workers, Local(w), UNCHANGED <<command, worker, cancels, stdin, stdout>>,
           gateway'[w].active = gateway[w].active,
           \/ gateway'[w].phase = gateway[w].phase
           \/ gateway[w].phase \in {"attempt", "backoff"} /\ gateway'[w].phase \in {"attempt", "backoff"}
    PROVE  Local(w)'
  <1>1. Numbered(w)'
    BY DEF Local, Numbered
  <1>2. Silent(w) => Silent(w)'
    BY DEF Silent, Requested
  <1>3. Talking(w) => Talking(w)'
    BY DEF Talking, Requested, Told
  <1> QED
    BY <1>1, <1>2, <1>3 DEF Local, InStep, Receiving, Clean

(* The end of a request: its only one, and nothing of it follows.          *)
LEMMA SettlesInStep ==
    ASSUME ReachInv, FrameTypes, NEW w \in Workers, Local(w),
           UNCHANGED <<command, worker, cancels, stdin>>, gateway[w].active # None,
           NEW kind \in {"result", "provider", "tool_contract", "canceled"}, Settle(w, kind),
           kind = "result" => gateway[w].phase = "attempt"
    PROVE  Local(w)' /\ FrameTypes' /\ \A v \in Workers \ {w} : stdout'[v] = stdout[v]
  <1> DEFINE how == Reported(w, kind)
             id == gateway[w].active
             e == Frame(how, id)
  <1>1. how \in Terminals /\ id \in Nat /\ (how = "result" => gateway[w].phase = "attempt")
    BY StepTypes DEF Reported, Terminals, Gateways
  <1>2. Sends(w, how, id) /\ gateway' = [gateway EXCEPT ![w] = Waiting]
    BY DEF Settle
  <1> HIDE DEF how, id
  <1>3. /\ FrameTypes' /\ e \in Frames /\ e.kind = how /\ e.id = id
        /\ stdout[w] \in Seq(Frames) /\ stdout'[w] = Append(stdout[w], e)
        /\ Held(stdout'[w]) = Held(stdout[w]) \cup {e}
        /\ \A v \in Workers \ {w} : stdout'[v] = stdout[v]
    <2>1. how \in Kinds
      BY <1>1 DEF Kinds
    <2> QED
      BY <1>1, <1>2, <2>1, FrameSent
  <1> HIDE DEF e
  <1>4. gateway'[w].active = None /\ gateway'[w].phase = "none"
    BY <1>2, StepTypes DEF Waiting
  <1>5. Numbered(w)'
    BY <1>4 DEF Local, Numbered
  <1>6. ~Silent(w)
    BY DEF Silent
  <1>7. ASSUME Talking(w) PROVE Talking(w)'
    <2>1. ~Requested(w) /\ ~Told(w, Terminals) /\ id = command.wave
      BY <1>7 DEF Talking, id
    <2>2. \A f \in Held(stdout[w]) : f.kind \notin Terminals
      BY <2>1 DEF Told
    <2>3. Proper(stdout'[w])
      <3>1. ~(e.kind = "started")
        BY <1>1, <1>3 DEF Terminals
      <3> QED
        BY <1>3, <1>7, <2>2, <3>1, ProperAppended DEF Talking
    <2>4. Told(w, {"started"})' <=> Told(w, {"started"})
      BY <1>1, <1>3 DEF Told, Terminals
    <2>5. Told(w, {"result"})' => how = "result"
      BY <1>3, <2>2 DEF Told, Terminals
    <2>6. how = "result" => worker[w].pc = "waiting" \/ Told(w, {"started"})
      BY <1>1, <1>7 DEF Talking
    <2>7. \A f \in Held(stdout'[w]) : f.kind # "ignored" => f.id = command.wave /\ f.kind # "busy"
      BY <1>1, <1>3, <1>7, <2>1 DEF Talking, Terminals
    <2>8. ~Requested(w)'
      BY <2>1 DEF Requested
    <2> QED
      BY <1>4, <1>7, <2>3, <2>4, <2>5, <2>6, <2>7, <2>8 DEF Talking
  <1> QED
    BY <1>3, <1>5, <1>6, <1>7 DEF Local, InStep, Receiving, Clean

LEMMA StartsInStep ==
    ASSUME ReachInv, FrameTypes, NEW w \in Workers, Local(w),
           UNCHANGED <<command, worker, cancels, stdin>>, gateway[w].phase = "resolving",
           NEW kind \in {"started"}, NEW id \in {gateway[w].active}, Sends(w, kind, id),
           gateway'[w].active = id, gateway'[w].phase = "attempt"
    PROVE  Local(w)' /\ FrameTypes' /\ \A v \in Workers \ {w} : stdout'[v] = stdout[v]
  <1> DEFINE e == Frame(kind, id)
  <1>1. id \in Nat /\ gateway[w] \in Gateways /\ id # None
    BY StepTypes DEF Gateways, Local, Numbered
  <1>6. kind \in Kinds /\ kind = "started"
    BY DEF Kinds
  <1>2. /\ FrameTypes' /\ e \in Frames /\ e.kind = kind /\ e.id = id
        /\ stdout[w] \in Seq(Frames) /\ stdout'[w] = Append(stdout[w], e)
        /\ Held(stdout'[w]) = Held(stdout[w]) \cup {e}
        /\ \A v \in Workers \ {w} : stdout'[v] = stdout[v]
    BY <1>1, <1>6, FrameSent
  <1> HIDE DEF e
  <1>3. gateway'[w].active = id /\ gateway'[w].phase = "attempt"
    OBVIOUS
  <1>4. Numbered(w)' /\ ~Silent(w)
    BY <1>1, <1>3 DEF Local, Numbered, Silent
  <1>5. ASSUME Talking(w) PROVE Talking(w)'
    <2>1. /\ ~Requested(w) /\ ~Told(w, Terminals) /\ id = command.wave
          /\ worker[w].pc = "starting" /\ ~Told(w, {"started"})
      BY <1>1, <1>5 DEF Talking
    <2>2. \A f \in Held(stdout[w]) : f.kind \notin Terminals /\ f.kind # "started"
      BY <2>1 DEF Told
    <2>3. Proper(stdout'[w])
      BY <1>2, <1>5, <1>6, <2>2, ProperAppended DEF Talking
    <2>4. Told(w, {"started"})' /\ ~Told(w, Terminals)'
      BY <1>2, <1>6, <2>2 DEF Told, Terminals
    <2>5. \A f \in Held(stdout'[w]) : f.kind # "ignored" => f.id = command.wave /\ f.kind # "busy"
      BY <1>2, <1>5, <1>6, <2>1 DEF Talking
    <2>6. ~Requested(w)'
      BY <2>1 DEF Requested
    <2> QED
      BY <1>3, <1>5, <2>1, <2>3, <2>4, <2>5, <2>6 DEF Talking
  <1> QED
    BY <1>2, <1>4, <1>5 DEF Local, InStep, Receiving, Clean

LEMMA GatewayInStep ==
    ASSUME ReachInv, FrameTypes, NEW w \in Workers, Gateway(w), Local(w)
    PROVE  /\ Local(w)' /\ FrameTypes' /\ UNCHANGED <<command, worker, cancels>>
           /\ \A v \in Workers \ {w} : /\ stdin'[v] = stdin[v] /\ stdout'[v] = stdout[v]
                                       /\ gateway'[v] = gateway[v]
  <1>1. UNCHANGED <<command, worker, cancels>>
    BY GatewayFrame
  <1>2. \A v \in Workers \ {w} : stdin'[v] = stdin[v] /\ gateway'[v] = gateway[v]
    BY HandleCases, WorkCases DEF Gateway, ReachInv
  <1>3. gateway[w] \in Gateways /\ gateway \in [Workers -> Gateways]
    BY StepTypes
  <1>4. stdout' = stdout => FrameTypes' /\ \A v \in Workers \ {w} : stdout'[v] = stdout[v]
    BY DEF FrameTypes
  <1>5. gateway[w].phase # "none" => gateway[w].active # None
    BY DEF Local, Numbered
  <1>6. CASE HandleMessage(w)
    BY <1>1, <1>2, <1>6, HandleInStep
  <1>7. CASE GatewayTimer(w)
    <2>1. gateway' = [gateway EXCEPT ![w].reason = "timeout", ![w].timer = FALSE]
          /\ UNCHANGED <<stdin, stdout>>
      BY <1>7 DEF GatewayTimer
    <2>2. gateway'[w].active = gateway[w].active /\ gateway'[w].phase = gateway[w].phase
      BY <1>3, <2>1 DEF Gateways
    <2> QED
      BY <1>1, <1>2, <1>4, <2>1, <2>2, WorksInStep
  <1>8. CASE StartCompletion(w)
    <2>1. gateway[w].phase = "resolving" /\ UNCHANGED stdin
      BY <1>8 DEF StartCompletion, InPhase
    <2>2. "provider" \in {"result", "provider", "tool_contract", "canceled"}
          /\ "provider" # "result"
      OBVIOUS
    <2>3. ASSUME NEW kind \in {"started"}, NEW id \in {gateway[w].active}, Sends(w, kind, id),
                 gateway' = [gateway EXCEPT ![w].phase = "attempt"]
          PROVE  Local(w)' /\ FrameTypes' /\ \A v \in Workers \ {w} : stdout'[v] = stdout[v]
      <3>1. gateway'[w].active = id /\ gateway'[w].phase = "attempt"
        BY <1>3, <2>3 DEF Gateways
      <3> QED
        BY <1>1, <2>1, <2>3, <3>1, StartsInStep
    <2>4. Settle(w, "provider") =>
             Local(w)' /\ FrameTypes' /\ \A v \in Workers \ {w} : stdout'[v] = stdout[v]
      BY <1>1, <1>5, <2>1, <2>2, SettlesInStep
    <2> QED
      BY <1>1, <1>2, <1>8, <2>3, <2>4 DEF StartCompletion
  <1>9. ASSUME NEW phase \in {"attempt", "backoff"}, gateway[w].phase \in {"attempt", "backoff"},
               gateway' = [gateway EXCEPT ![w].phase = phase], UNCHANGED <<stdin, stdout>>
        PROVE  Local(w)'
    <2>1. gateway'[w].active = gateway[w].active /\ gateway'[w].phase = phase
      BY <1>3, <1>9 DEF Gateways
    <2> QED
      BY <1>1, <1>9, <2>1, WorksInStep
  <1>10. CASE ProviderReplies(w)
    <2>1. gateway[w].phase = "attempt" /\ UNCHANGED stdin
      BY <1>10 DEF ProviderReplies, InPhase
    <2>2. CASE \E kind \in {"result", "provider", "tool_contract"} : Settle(w, kind)
      BY <1>1, <1>2, <1>5, <2>1, <2>2, SettlesInStep
    <2>3. CASE gateway' = [gateway EXCEPT ![w].phase = "backoff"] /\ UNCHANGED stdout
      BY <1>1, <1>2, <1>4, <1>9, <2>1, <2>3
    <2> QED
      BY <1>10, <2>2, <2>3 DEF ProviderReplies
  <1>11. CASE Retry(w)
    BY <1>1, <1>2, <1>4, <1>9, <1>11 DEF Retry, InPhase
  <1>12. CASE AbortTakesEffect(w)
    BY <1>1, <1>2, <1>12, SettlesInStep DEF AbortTakesEffect
  <1>13. CASE GatewayDies(w)
    <2>1. gateway' = [gateway EXCEPT ![w] = Gone] /\ stdout' = stdout
          /\ stdin' = [stdin EXCEPT ![w] = <<>>]
      BY <1>13 DEF GatewayDies, Shutdown
    <2>2. gateway'[w].active = None /\ gateway'[w].phase = "none" /\ stdin'[w] = <<>>
      BY <2>1, StepTypes DEF Gone, Waiting
    <2>3. OneRequest(stdin'[w]) /\ \A m \in Held(stdin'[w]) : m \in Held(stdin[w])
      BY <2>2 DEF OneRequest, Held
    <2> QED
      BY <1>1, <1>2, <1>4, <2>1, <2>2, <2>3, GoneInStep
  <1> QED
    BY <1>6, <1>7, <1>8, <1>10, <1>11, <1>12, <1>13 DEF Gateway

-----------------------------------------------------------------------------
(* A worker that goes on, or whose cancel is queued or written.            *)

LEMMA StaysInStep ==
    ASSUME NEW w \in Workers, InStep(w), UNCHANGED stdout,
           command'.wave = command.wave, worker'[w] = worker[w], gateway'[w] = gateway[w],
           \A m \in Held(stdin'[w]) : m \in Held(stdin[w]) \/ m.kind = "cancel",
           OneRequest(stdin[w]) => OneRequest(stdin'[w])
    PROVE  InStep(w)'
  <1>1. Requested(w)' => Requested(w)
    BY DEF Requested
  <1>2. Silent(w) => Silent(w)'
    BY <1>1 DEF Silent
  <1>3. Talking(w) => Talking(w)'
    BY <1>1 DEF Talking, Told
  <1> QED
    BY <1>2, <1>3 DEF InStep, Receiving, Clean

LEMMA GuardInStep ==
    ASSUME ReachInv, NEW w \in Workers, DropGuard(w), Local(w)
    PROVE  Local(w)'
  <1>1. /\ worker[w].pc = "leaving" /\ worker'[w].pc = "idle"
        /\ worker'[w].outcome = worker[w].outcome
        /\ UNCHANGED <<command, cancels, stdin, stdout, gateway>>
    BY Went DEF DropGuard
  <1>2. Silent(w) => Silent(w)'
    BY <1>1 DEF Silent, Requested
  <1> QED
    BY <1>1, <1>2 DEF Local, Numbered, InStep, Receiving, Clean

LEMMA ToldInStep ==
    ASSUME ReachInv, Interrupt, NEW w \in Workers, Local(w)
    PROVE  Local(w)'
  <1>1. UNCHANGED <<command, worker, stdin, stdout, gateway>>
    BY DEF Interrupt
  <1>2. cancels'[w] = cancels[w] \/ (active[w] # None /\ cancels'[w] = Append(cancels[w], active[w]))
    BY DEF Interrupt
  <1>3. \A id \in Held(cancels'[w]) : id # None
    <2>1. active[w] \in Nat /\ cancels[w] \in Seq(Nat)
      BY StepTypes
    <2>2. Held(Append(cancels[w], active[w])) = Held(cancels[w]) \cup {active[w]}
      BY <2>1, HeldAppended
    <2> QED
      BY <1>2, <2>2 DEF Local, Numbered
  <1>4. Numbered(w)'
    BY <1>1, <1>3 DEF Local, Numbered
  <1>5. InStep(w)'
    BY <1>1, StaysInStep DEF Local
  <1> QED
    BY <1>4, <1>5 DEF Local

LEMMA CancelInStep ==
    ASSUME ReachInv, NEW w \in Workers, WriteCancel(w), Local(w)
    PROVE  Local(w)'
  <1> DEFINE id == Head(cancels[w])
             m == Frame("cancel", id)
  <1>1. /\ cancels[w] # <<>> /\ cancels[w] \in Seq(Nat) /\ cancels'[w] = Tail(cancels[w])
        /\ UNCHANGED <<command, worker, stdout, gateway>>
    BY StepTypes DEF WriteCancel
  <1>2. /\ id \in Nat /\ id \in Held(cancels[w])
        /\ \A e \in Held(cancels'[w]) : e \in Held(cancels[w])
    BY <1>1, HeldShifted
  <1>3. id # None /\ \A e \in Held(cancels'[w]) : e # None
    BY <1>2 DEF Local, Numbered
  <1>4. stdin[w] \in Seq(Messages) /\ (stdin'[w] = stdin[w] \/ stdin'[w] = Append(stdin[w], m))
    BY StepTypes DEF WriteCancel
  <1> HIDE DEF id
  <1>5. m \in Messages /\ m.kind = "cancel" /\ m.id = id
    BY <1>2, FrameFields
  <1> HIDE DEF m
  <1>6. \A e \in Held(stdin'[w]) : e \in Held(stdin[w]) \/ e = m
    <2>1. Held(Append(stdin[w], m)) = Held(stdin[w]) \cup {m}
      BY <1>4, <1>5, HeldAppended
    <2> QED
      BY <1>4, <2>1
  <1>7. OneRequest(stdin[w]) => OneRequest(stdin'[w])
    <2>1. m.kind # "complete"
      BY <1>5
    <2> QED
      BY <1>4, <1>5, <2>1, RequestAppended
  <1>8. InStep(w)'
    BY <1>1, <1>5, <1>6, <1>7, StaysInStep DEF Local
  <1>9. Numbered(w)'
    BY <1>1, <1>3, <1>5, <1>6 DEF Local, Numbered
  <1> QED
    BY <1>8, <1>9 DEF Local

LEMMA DropInStep ==
    ASSUME ReachInv, FrameTypes, NEW w \in Workers, DropWorker(w) \/ Reap(w), Local(w)
    PROVE  /\ Local(w)' /\ FrameTypes'
           /\ \A v \in Workers \ {w} : /\ worker'[v] = worker[v] /\ stdin'[v] = stdin[v]
                                       /\ stdout'[v] = stdout[v] /\ gateway'[v] = gateway[v]
  <1>1. UNCHANGED <<command, cancels>>
    BY DEF DropWorker, Reap
  <1>2. /\ worker'[w].pc \in {"grace", "dropped"} /\ worker'[w].outcome = worker[w].outcome
        /\ \A v \in Workers \ {w} : worker'[v] = worker[v]
    <2>1. PICK pc \in {"grace", "dropped"} : Goes(w, pc)
      BY DEF DropWorker, Reap
    <2> QED
      BY <2>1, Went
  <1>3. gateway' = gateway \/ gateway' = [gateway EXCEPT ![w] = Gone]
    BY DEF DropWorker, Reap
  <1>4. /\ \A v \in Workers \ {w} : gateway'[v] = gateway[v]
        /\ gateway'[w] = gateway[w]
              \/ (gateway'[w].active = None /\ gateway'[w].phase = "none")
    BY <1>3, StepTypes DEF Gone, Waiting
  <1>5. /\ FrameTypes'
        /\ \A v \in Workers \ {w} : stdout'[v] = stdout[v]
    <2>1. stdout' = stdout \/ stdout' = [stdout EXCEPT ![w] = <<>>]
      BY DEF DropWorker, Reap
    <2>2. <<>> \in Seq(Frames)
      BY EmptySeq
    <2> QED
      BY <2>1, <2>2 DEF FrameTypes
  <1> DEFINE m == Frame("shutdown", None)
  <1>6. \/ stdin' = stdin \/ stdin' = [stdin EXCEPT ![w] = <<>>]
        \/ stdin' = [stdin EXCEPT ![w] = Append(stdin[w], m)]
    BY DEF DropWorker, Reap
  <1>7. m \in Messages /\ m.kind = "shutdown"
    BY FrameFields DEF None
  <1> HIDE DEF m
  <1>8. /\ \A v \in Workers \ {w} : stdin'[v] = stdin[v]
        /\ stdin'[w] \in {stdin[w], <<>>, Append(stdin[w], m)} /\ stdin[w] \in Seq(Messages)
    BY <1>6, StepTypes
  <1>9. \A e \in Held(stdin'[w]) : e \in Held(stdin[w]) \/ e.kind = "shutdown"
    <2>1. Held(<<>>) = {}
      BY DEF Held
    <2>2. Held(Append(stdin[w], m)) = Held(stdin[w]) \cup {m}
      BY <1>7, <1>8, HeldAppended
    <2> QED
      BY <1>7, <1>8, <2>1, <2>2
  <1>10. Numbered(w)'
    BY <1>1, <1>4, <1>9 DEF Local, Numbered
  <1>11. InStep(w)'
    BY <1>2 DEF Local, InStep, Receiving
  <1> QED
    BY <1>2, <1>4, <1>5, <1>8, <1>10, <1>11 DEF Local

-----------------------------------------------------------------------------
(* The invariant is inductive.                                             *)

LEMMA ThreadInStep ==
    ASSUME ReachInv, FrameTypes, NEW w \in Workers, Local(w),
           SendComplete(w) \/ WriteComplete(w) \/ ReceiveFor(w) \/ Disconnected(w)
              \/ ReceiveTimesOut(w) \/ DropGuard(w)
    PROVE  /\ Local(w)' /\ FrameTypes' /\ command' = command /\ command.pc # "between"
           /\ \A v \in Workers \ {w} :
                 /\ worker'[v] = worker[v] /\ cancels'[v] = cancels[v]
                 /\ stdin'[v] = stdin[v] /\ stdout'[v] = stdout[v] /\ gateway'[v] = gateway[v]
  <1>1. Local(w)'
    BY SendInStep, WriteInStep, LosesInStep, ReceiveInStep, GuardInStep
  <1>2. worker[w].pc \in {"spawned"} \cup InFlight
    BY DEF SendComplete, WriteComplete, ReceiveFor, Disconnected, ReceiveTimesOut, DropGuard,
           Receiving, InFlight
  <1>3. command.pc # "between"
    BY <1>2, OfTheWave DEF ReachInv
  <1>4. UNCHANGED <<command, cancels, gateway>>
    BY DEF SendComplete, WriteComplete, ReceiveFor, Disconnected, ReceiveTimesOut, DropGuard
  <1>5. \A v \in Workers \ {w} : stdin'[v] = stdin[v]
    BY StepTypes DEF SendComplete, WriteComplete, ReceiveFor, Disconnected, ReceiveTimesOut,
                     DropGuard
  <1>6. stdout' = stdout
           \/ (stdout[w] # <<>> /\ stdout' = [stdout EXCEPT ![w] = Tail(stdout[w])])
    BY DEF SendComplete, WriteComplete, ReceiveFor, Disconnected, ReceiveTimesOut, DropGuard
  <1>7. FrameTypes' /\ \A v \in Workers \ {w} : stdout'[v] = stdout[v]
    <2>1. stdout[w] # <<>> => Tail(stdout[w]) \in Seq(Frames)
      BY HeldShifted DEF FrameTypes
    <2> QED
      BY <1>6, <2>1 DEF FrameTypes
  <1>8. \A v \in Workers \ {w} : worker'[v] = worker[v]
    <2>1. CASE ReceiveFor(w) \/ Disconnected(w) \/ ReceiveTimesOut(w)
      BY <2>1, ReceiveFrame DEF ReachInv, ControlInv
    <2>2. CASE SendComplete(w)
      BY <2>2, StepTypes DEF SendComplete, Goes
    <2>3. CASE WriteComplete(w)
      BY <2>3, StepTypes DEF WriteComplete, Goes, Leaves
    <2>4. CASE DropGuard(w)
      BY <2>4, StepTypes DEF DropGuard, Goes
    <2> QED
      BY <2>1, <2>2, <2>3, <2>4
  <1> QED
    BY <1>1, <1>3, <1>4, <1>5, <1>7, <1>8

(* A step of one worker.                                                   *)
LEMMA OneInStep ==
    ASSUME StepInv, NEW w \in Workers, Local(w)', FrameTypes', command' = command,
           worker' = worker \/ command.pc # "between",
           \A v \in Workers \ {w} :
              /\ worker'[v] = worker[v] /\ cancels'[v] = cancels[v]
              /\ stdin'[v] = stdin[v] /\ stdout'[v] = stdout[v] /\ gateway'[v] = gateway[v]
    PROVE  StepInv'
  <1>1. \A v \in Workers : Local(v)'
    BY LocalUnchanged DEF StepInv, Local
  <1>2. worker' = worker => \A v \in Workers : Clean(v)' <=> Clean(v)
    BY DEF Clean
  <1> QED
    BY <1>1, <1>2 DEF StepInv, Local

LEMMA BeginInStep ==
    ASSUME ReachInv, StepInv, BeginWave
    PROVE  StepInv'
  <1>1. /\ command.pc = "between" /\ command'.pc = "wave"
        /\ UNCHANGED <<cancels, stdin, stdout, gateway>>
    BY DEF BeginWave
  <1>2. ASSUME NEW w \in Workers PROVE Local(w)'
    <2>1. worker[w].pc = "idle" /\ Clean(w) /\ Local(w) /\ worker[w] \in Threads
      BY <1>1, StepTypes DEF ReachInv, ControlInv, Control, StepInv, Local
    <2>2. Silent(w)
      BY <2>1 DEF Local, InStep
    <2>3. Silent(w)' /\ Numbered(w)'
      BY <1>1, <2>1, <2>2 DEF Silent, Requested, Local, Numbered
    <2>4. worker'[w] = worker[w]
             \/ (worker'[w].pc = "spawned" /\ worker'[w].outcome = "none")
      <3>1. worker'[w] \in {worker[w], [worker[w] EXCEPT !.pc = "spawned", !.outcome = "none"]}
        BY DEF BeginWave
      <3> QED
        BY <2>1, <3>1 DEF Threads
    <2> QED
      BY <2>1, <2>3, <2>4 DEF Local, InStep, Receiving, Clean
  <1>3. FrameTypes'
    BY <1>1 DEF StepInv, FrameTypes
  <1> QED
    BY <1>1, <1>2, <1>3 DEF StepInv, Local

LEMMA StepInvInit ==
    ASSUME Init
    PROVE  StepInv
  <1>1. ASSUME NEW w \in Workers PROVE Local(w) /\ Clean(w)
    <2>1. gateway[w].active = None /\ gateway[w].phase = "none"
      <3>1. gateway[w] = Waiting
        BY DEF Init
      <3> QED
        BY <3>1 DEF Waiting
    <2>2. cancels[w] = <<>> /\ stdin[w] = <<>> /\ stdout[w] = <<>>
          /\ worker[w].pc = "idle" /\ worker[w].outcome = "none"
      BY DEF Init, Launched
    <2>3. Held(<<>>) = {}
      BY DEF Held
    <2> QED
      BY <2>1, <2>2, <2>3 DEF Local, Numbered, InStep, Receiving, Silent, Requested, Clean
  <1>2. FrameTypes
    BY EmptySeq DEF Init, Launched, FrameTypes
  <1> QED
    BY <1>1, <1>2 DEF StepInv, Local

LEMMA StepInvStep ==
    ASSUME ReachInv, StepInv, Next
    PROVE  StepInv'
  <1>1. FrameTypes /\ \A w \in Workers : Local(w)
    BY DEF StepInv, Local
  <1>2. CASE BeginWave
    BY <1>2, BeginInStep
  <1>3. CASE EndWave \/ Finished
    <2>1. UNCHANGED <<worker, cancels, stdin, stdout, gateway>> /\ command'.wave = command.wave
      BY <1>3 DEF EndWave, Finished, ReachInv, ControlInv, Types
    <2>2. \A w \in Workers : Local(w)' /\ (Clean(w)' <=> Clean(w))
      BY <1>1, <2>1, LocalUnchanged
    <2>3. command'.pc = "between" => \A w \in Workers : Clean(w)
      BY <1>3 DEF EndWave, Finished, ReachInv, ControlInv, Types, Clean
    <2>4. FrameTypes'
      BY <1>1, <2>1 DEF FrameTypes
    <2> QED
      BY <2>2, <2>3, <2>4 DEF StepInv, Local
  <1>4. CASE Interrupt
    <2>1. \A w \in Workers : Local(w)'
      BY <1>1, <1>4, ToldInStep
    <2>2. UNCHANGED <<command, worker, stdout>>
      BY <1>4 DEF Interrupt
    <2> QED
      BY <2>1, <2>2 DEF StepInv, Local, FrameTypes, Clean
  <1>5. CASE Exit
    <2>1. Gone = [Waiting EXCEPT !.up = FALSE]
      BY DEF Gone
    <2>2. ASSUME NEW w \in Workers PROVE Local(w)' /\ Clean(w)'
      <3>1. gateway'[w] = [Waiting EXCEPT !.up = FALSE] /\ Waiting' = Waiting
        BY <1>5, <2>1 DEF Exit, Waiting
      <3>2. gateway'[w].active = None /\ gateway'[w].phase = "none"
        BY <3>1 DEF Waiting
      <3>3. cancels'[w] = <<>> /\ stdin'[w] = <<>> /\ stdout'[w] = <<>>
            /\ worker'[w].pc = "idle" /\ worker'[w].outcome = "none"
        BY <1>5 DEF Exit, Launched
      <3>4. Held(<<>>) = {}
        BY DEF Held
      <3> QED
        BY <3>2, <3>3, <3>4 DEF Local, Numbered, InStep, Receiving, Silent, Requested, Clean
    <2>3. FrameTypes'
      BY <1>5, EmptySeq DEF Exit, Launched, FrameTypes
    <2> QED
      BY <2>2, <2>3 DEF StepInv, Local
  <1>6. CASE Done
    <2>1. \A w \in Workers : Local(w)' /\ (Clean(w)' <=> Clean(w))
      BY <1>1, <1>6, LocalUnchanged DEF Done, vars
    <2> QED
      BY <1>6, <2>1 DEF StepInv, Local, FrameTypes, Done, vars
  <1>7. ASSUME NEW w \in Workers,
               SendComplete(w) \/ WriteComplete(w) \/ ReceiveFor(w) \/ Disconnected(w)
                  \/ ReceiveTimesOut(w) \/ DropGuard(w)
        PROVE  StepInv'
    BY <1>1, <1>7, ThreadInStep, OneInStep
  <1>8. ASSUME NEW w \in Workers, WriteCancel(w) PROVE StepInv'
    <2>1. UNCHANGED <<command, worker, stdout, gateway>>
      BY <1>8 DEF WriteCancel
    <2>2. \A v \in Workers \ {w} : cancels'[v] = cancels[v] /\ stdin'[v] = stdin[v]
      BY <1>8, StepTypes DEF WriteCancel
    <2>3. Local(w)' /\ FrameTypes'
      BY <1>1, <1>8, <2>1, CancelInStep DEF FrameTypes
    <2> QED
      BY <2>1, <2>2, <2>3, OneInStep
  <1>9. ASSUME NEW w \in Workers, Gateway(w) PROVE StepInv'
    BY <1>1, <1>9, GatewayInStep, OneInStep
  <1>10. ASSUME NEW w \in Workers, DropWorker(w) \/ Reap(w) PROVE StepInv'
    <2>1. UNCHANGED <<command, cancels>> /\ worker[w].pc \in {"idle", "grace"}
      BY <1>10 DEF DropWorker, Reap
    <2>2. command.pc # "between"
      BY <1>10 DEF DropWorker, Reap, ReachInv, ControlInv, Control
    <2> QED
      BY <1>1, <1>10, <2>1, <2>2, DropInStep, OneInStep
  <1> QED
    BY <1>2, <1>3, <1>4, <1>5, <1>6, <1>7, <1>8, <1>9, <1>10, NextCases

(* Requests, late acknowledgements and timeouts of one wave never put the  *)
(* connection out of step for a later one: no worker ever meets a frame it *)
(* does not expect, or a busy gateway, although it is used again after a   *)
(* failed subject (receive_for in process.rs against handleComplete and    *)
(* cancelCompletion of the gateway), for any number of workers and waves.  *)
THEOREM NeverOutOfStep == Spec => []ConnectionsInStep
  <1>1. Init => ReachInv /\ StepInv
    BY ReachInit, StepInvInit
  <1>2. ReachInv /\ StepInv /\ [Next]_vars => ReachInv' /\ StepInv'
    <2> SUFFICES ASSUME ReachInv, StepInv, [Next]_vars PROVE ReachInv' /\ StepInv'
      OBVIOUS
    <2>1. CASE Next
      BY <2>1, ReachStep, StepInvStep
    <2>2. CASE UNCHANGED vars
      <3>1. ControlInv' /\ PipeTypes'
        BY <2>2 DEF ReachInv, ControlInv, Types, Control, PipeTypes, vars
      <3>2. \A w \in Workers : PipeOK(w)' /\ Reached(w)'
        BY <2>2, PipeUnchanged, ReachedUnchanged DEF ReachInv, vars
      <3>3. \A w \in Workers : Local(w)' /\ (Clean(w)' <=> Clean(w))
        BY <2>2, LocalUnchanged DEF vars, StepInv, Local
      <3>4. StepInv'
        BY <2>2, <3>3 DEF StepInv, Local, FrameTypes, vars
      <3> QED
        BY <3>1, <3>2, <3>4 DEF ReachInv
    <2> QED
      BY <2>1, <2>2
  <1>3. StepInv => ConnectionsInStep
    BY DEF StepInv, InStep, ConnectionsInStep
  <1> QED
    BY <1>1, <1>2, <1>3, PTL DEF Spec

(* An interrupt takes what it has to, and nothing a later wave needs.      *)
THEOREM InterruptIsSound == Spec => []InterruptSound
  BY NothingOverlooked, NeverOutOfStep, PTL DEF InterruptSound

=============================================================================
