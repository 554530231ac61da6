----------------------------- MODULE GatewayPool -----------------------------
(***************************************************************************)
(* A pool of LLM gateways (llm/process.rs and gateway/src): the command    *)
(* that dispatches waves of completions, one scoped thread per worker, the *)
(* Ctrl-C handler, the thread that writes queued cancellations to each     *)
(* gateway's stdin, and the Node processes with their provider calls.      *)
(*                                                                         *)
(* A wave has at most one task per worker, as its callers make them, so    *)
(* the number of a wave identifies the request a worker sends in it.  The  *)
(* two pipes of a gateway are FIFO.  A critical section of the interrupt   *)
(* gate (INTERRUPT_CONTROL) is one step; the lock on a gateway's stdin is  *)
(* held from the publication of a request to the end of its write.         *)
(***************************************************************************)
EXTENDS Naturals, Sequences

CONSTANTS
    Concurrency,   \* max_concurrency: the workers of the pool
    MaxWaves,      \* bound on the waves of the command
    MaxFaults,     \* bound on stalls and deaths of gateways
    FaultyWaves    \* the waves during or after which they may happen

ASSUME PoolAssumption ==
    /\ Concurrency \in Nat \ {0}
    /\ {MaxWaves, MaxFaults} \subseteq Nat
    /\ FaultyWaves \subseteq Nat

VARIABLES
    gate,       \* INTERRUPT_CONTROL, _PENDING and _GENERATION
    process,    \* what the Ctrl-C handler has done to the process
    command,    \* the caller: its wave and the admission captured for it
    worker,     \* per worker, its thread and its ProcessGateway
    active,     \* per worker, active_request, shared with its GatewayControl
    cancels,    \* per worker, the queue of its cancellation writer
    stdin,      \* per worker, the pipe to the gateway
    stdout,     \* per worker, the pipe back and the inbound channel
    gateway,    \* per worker, the Node process
    faults      \* stalls and deaths so far, against MaxFaults

vars == <<gate, process, command, worker, active, cancels, stdin, stdout,
          gateway, faults>>

-----------------------------------------------------------------------------
Workers == 1 .. Concurrency
None == 0

Waiting == [active |-> None, reason |-> "none", phase |-> "none", timer |-> FALSE,
            up |-> TRUE]
Gone == [Waiting EXCEPT !.up = FALSE]

Launched ==
    [gate    |-> [registered |-> TRUE, pending |-> FALSE, generation |-> 0],
     command |-> [pc |-> "between", wave |-> 0, generation |-> 0, interrupted |-> FALSE],
     worker  |-> [w \in Workers |-> [pc |-> "idle", poisoned |-> FALSE, outcome |-> "none"]],
     active  |-> [w \in Workers |-> None],
     queues  |-> [w \in Workers |-> <<>>]]

Init ==
    /\ gate = Launched.gate
    /\ process = "running"
    /\ command = Launched.command
    /\ worker = Launched.worker
    /\ active = Launched.active
    /\ cancels = Launched.queues
    /\ stdin = Launched.queues
    /\ stdout = Launched.queues
    /\ gateway = [w \in Workers |-> Waiting]
    /\ faults = 0

Alive == process # "exited"
Faulty == faults < MaxFaults /\ command.wave \in FaultyWaves
Frame(kind, id) == [kind |-> kind, id |-> id]

-----------------------------------------------------------------------------
(* The command: complete_batch and the caller's reaction to its outcomes.  *)

Goes(w, pc) == worker' = [worker EXCEPT ![w].pc = pc]

BeginWave ==
    /\ Alive
    /\ command.pc = "between"
    /\ command.wave < MaxWaves
    /\ command' = [pc |-> "wave", wave |-> command.wave + 1,
                   generation |-> gate.generation, interrupted |-> gate.pending]
    /\ \E tasks \in Workers :
         worker' = [w \in Workers |->
            IF w <= tasks THEN [worker[w] EXCEPT !.pc = "spawned", !.outcome = "none"]
            ELSE worker[w]]
    /\ UNCHANGED <<gate, process, active, cancels, stdin, stdout, gateway, faults>>

(* A subject that failed leaves the connection in step; anything else but  *)
(* a result ends the command.                                              *)
SubjectLocal == {"result", "timeout", "tool_contract"}

EndWave ==
    /\ Alive
    /\ command.pc = "wave"
    /\ \A w \in Workers : worker[w].pc = "idle"
    /\ \E pc \in {"between", "over"} :
         /\ pc = "between" => \A w \in Workers : worker[w].outcome \in SubjectLocal \cup {"none"}
         /\ command' = [command EXCEPT !.pc = pc]
    /\ UNCHANGED <<gate, process, worker, active, cancels, stdin, stdout, gateway, faults>>

Finished ==
    /\ Alive
    /\ command.pc = "between"
    /\ command' = [command EXCEPT !.pc = "over"]
    /\ UNCHANGED <<gate, process, worker, active, cancels, stdin, stdout, gateway, faults>>

(* Drop: the first worker that goes unregisters the controls of the pool.  *)
DropWorker(w) ==
    /\ Alive
    /\ command.pc = "over"
    /\ worker[w].pc = "idle"
    /\ \A v \in Workers : v < w => worker[v].pc = "dropped"
    /\ gate' = IF gate.registered THEN [gate EXCEPT !.registered = FALSE, !.pending = FALSE]
               ELSE gate
    /\ IF worker[w].poisoned \/ ~gateway[w].up
       THEN Goes(w, "dropped") /\ UNCHANGED stdin
       ELSE /\ Goes(w, "grace")
            /\ stdin' = [stdin EXCEPT ![w] = Append(@, Frame("shutdown", None))]
    /\ gateway' = IF worker[w].poisoned THEN [gateway EXCEPT ![w] = Gone] ELSE gateway
    /\ UNCHANGED <<process, command, active, cancels, stdout, faults>>

(* The gateway exits by itself or is killed when the grace has passed.     *)
Reap(w) ==
    /\ Alive
    /\ worker[w].pc = "grace"
    /\ Goes(w, "dropped")
    /\ gateway' = [gateway EXCEPT ![w] = Gone]
    /\ stdin' = [stdin EXCEPT ![w] = <<>>]
    /\ stdout' = [stdout EXCEPT ![w] = <<>>]
    /\ UNCHANGED <<gate, process, command, active, cancels, faults>>

-----------------------------------------------------------------------------
(* A worker thread: complete_with_grace_and_admission.                     *)

Admitted ==
    \/ ~gate.registered
    \/ /\ ~command.interrupted
       /\ ~gate.pending
       /\ command.generation = gate.generation

Leaves(w, how, poisons) ==
    worker' = [worker EXCEPT ![w] =
        [pc |-> "leaving", poisoned |-> @.poisoned \/ poisons, outcome |-> how]]

(* The locks on stdin and on the gate are held; stdin is kept.             *)
SendComplete(w) ==
    /\ Alive
    /\ worker[w].pc = "spawned"
    /\ IF Admitted
       THEN /\ Goes(w, "writing")
            /\ active' = [active EXCEPT ![w] = command.wave]
       ELSE /\ worker' = [worker EXCEPT ![w].pc = "idle", ![w].outcome = "refused"]
            /\ UNCHANGED active
    /\ UNCHANGED <<gate, process, command, cancels, stdin, stdout, gateway, faults>>

WriteComplete(w) ==
    /\ Alive
    /\ worker[w].pc = "writing"
    /\ IF gateway[w].up
       THEN /\ Goes(w, "starting")
            /\ stdin' = [stdin EXCEPT ![w] = Append(@, Frame("complete", active[w]))]
       ELSE Leaves(w, "lost", TRUE) /\ UNCHANGED stdin
    /\ UNCHANGED <<gate, process, command, active, cancels, stdout, gateway, faults>>

Receiving(w) == worker[w].pc \in {"starting", "waiting"}
Errors == {"timeout", "tool_contract", "provider", "busy"}

ReceiveFor(w) ==
    /\ Alive
    /\ Receiving(w)
    /\ stdout[w] # <<>>
    /\ LET frame == Head(stdout[w])
           mine  == frame.id = active[w]
       IN  \/ /\ frame.kind \in {"acknowledged", "ignored"}
              /\ IF frame.kind = "acknowledged" /\ ~mine
                 THEN Leaves(w, "protocol", TRUE)
                 ELSE UNCHANGED worker
           \/ /\ frame.kind \notin {"acknowledged", "ignored"}
              /\ ~mine
              /\ Leaves(w, "protocol", TRUE)
           \/ /\ frame.kind \in Errors \cup {"canceled"}
              /\ mine
              /\ Leaves(w, frame.kind, FALSE)
           \/ /\ frame.kind \in {"started", "result"}
              /\ mine
              /\ IF frame.kind = "started" /\ worker[w].pc = "starting"
                 THEN Goes(w, "waiting")
                 ELSE IF frame.kind = "result" /\ worker[w].pc = "waiting"
                 THEN Leaves(w, "result", FALSE)
                 ELSE Leaves(w, "protocol", FALSE)
    /\ stdout' = [stdout EXCEPT ![w] = Tail(@)]
    /\ UNCHANGED <<gate, process, command, active, cancels, stdin, gateway, faults>>

(* The gateway has neither answered nor timed out the request: it stalls.  *)
ReceiveTimesOut(w) ==
    /\ Alive
    /\ Receiving(w)
    /\ Faulty
    /\ faults' = faults + 1
    /\ Leaves(w, "lost", TRUE)
    /\ UNCHANGED <<gate, process, command, active, cancels, stdin, stdout, gateway>>

Disconnected(w) ==
    /\ Alive
    /\ Receiving(w)
    /\ ~gateway[w].up
    /\ stdout[w] = <<>>
    /\ Leaves(w, "lost", TRUE)
    /\ UNCHANGED <<gate, process, command, active, cancels, stdin, stdout, gateway, faults>>

(* Mutant: the guard does not look at the other workers.                   *)
DropGuardAlone(w) ==
    /\ Alive
    /\ worker[w].pc = "leaving"
    /\ Goes(w, "idle")
    /\ active' = [active EXCEPT ![w] = None]
    /\ gate' = [gate EXCEPT !.pending = FALSE]
    /\ UNCHANGED <<process, command, cancels, stdin, stdout, gateway, faults>>

(* ActiveRequestGuard::drop.                                               *)
DropGuard(w) ==
    /\ Alive
    /\ worker[w].pc = "leaving"
    /\ Goes(w, "idle")
    /\ active' = [active EXCEPT ![w] = None]
    /\ gate' = [gate EXCEPT !.pending =
                   @ /\ (gate.registered => \E v \in Workers : active'[v] # None)]
    /\ UNCHANGED <<process, command, cancels, stdin, stdout, gateway, faults>>

Thread(w) ==
    \/ SendComplete(w) \/ WriteComplete(w) \/ ReceiveFor(w) \/ Disconnected(w)
    \/ DropGuard(w)

-----------------------------------------------------------------------------
(* Ctrl-C and the cancellation writers.                                    *)

Interrupt ==
    /\ process = "running"
    /\ gate' = [gate EXCEPT !.pending = TRUE, !.generation = IF gate.pending THEN @ ELSE @ + 1]
    /\ LET told == IF gate.registered /\ ~gate.pending
                   THEN {w \in Workers : active[w] # None} ELSE {}
       IN  /\ cancels' = [w \in Workers |->
                 IF w \in told THEN Append(cancels[w], active[w]) ELSE cancels[w]]
           /\ process' = IF told = {} THEN "exiting" ELSE process
    /\ UNCHANGED <<command, worker, active, stdin, stdout, gateway, faults>>

(* The memory of the process is gone; the gateways see the end of their    *)
(* stdin (onEnd in main.mjs), abort what they do and exit.                 *)
Exit ==
    /\ process = "exiting"
    /\ process' = "exited"
    /\ gate' = Launched.gate
    /\ command' = Launched.command
    /\ worker' = Launched.worker
    /\ active' = Launched.active
    /\ cancels' = Launched.queues
    /\ stdin' = Launched.queues
    /\ stdout' = Launched.queues
    /\ gateway' = [w \in Workers |-> Gone]
    /\ UNCHANGED faults

(* Mutant: the writer of cancellations does not wait for the lock on stdin. *)
WriteCancelUnlocked(w) ==
    /\ Alive
    /\ cancels[w] # <<>>
    /\ cancels' = [cancels EXCEPT ![w] = Tail(@)]
    /\ stdin' = [stdin EXCEPT ![w] = Append(@, Frame("cancel", Head(cancels[w])))]
    /\ UNCHANGED <<gate, process, command, worker, active, stdout, gateway, faults>>

WriteCancel(w) ==
    /\ Alive
    /\ cancels[w] # <<>>
    /\ worker[w].pc # "writing"
    /\ cancels' = [cancels EXCEPT ![w] = Tail(@)]
    /\ stdin' = IF gateway[w].up
                THEN [stdin EXCEPT ![w] = Append(@, Frame("cancel", Head(cancels[w])))]
                ELSE stdin
    /\ UNCHANGED <<gate, process, command, worker, active, stdout, gateway, faults>>

-----------------------------------------------------------------------------
(* A gateway: server.mjs and completion.mjs.                               *)

Sends(w, kind, id) ==
    stdout' = [stdout EXCEPT ![w] = Append(@, Frame(kind, id))]
RustUnchanged == UNCHANGED <<gate, process, command, worker, active, cancels>>

Complete(w, id) ==
    IF gateway[w].active # None
    THEN Sends(w, "busy", id) /\ UNCHANGED gateway
    ELSE /\ gateway' = [gateway EXCEPT ![w] =
                 [Waiting EXCEPT !.active = id, !.phase = "resolving", !.timer = TRUE]]
         /\ UNCHANGED stdout

(* Mutant: a cancel ends whatever completion is active.                    *)
FindsAny(w, target) == gateway[w].active # None

Finds(w, target) == gateway[w].active = target

Cancel(w, target) ==
    IF Finds(w, target)
    THEN /\ gateway' = [gateway EXCEPT ![w].reason = "canceled"]
         /\ Sends(w, "acknowledged", target)
    ELSE Sends(w, "ignored", target) /\ UNCHANGED gateway

(* process.exit with the reply written, which nobody reads.                *)
Shutdown(w) ==
    /\ gateway' = [gateway EXCEPT ![w] = Gone]
    /\ UNCHANGED stdout

HandleMessage(w) ==
    /\ gateway[w].up
    /\ stdin[w] # <<>>
    /\ stdin' = [stdin EXCEPT ![w] = Tail(@)]
    /\ LET message == Head(stdin[w])
       IN  \/ message.kind = "complete" /\ Complete(w, message.id)
           \/ message.kind = "cancel" /\ Cancel(w, message.id)
           \/ message.kind = "shutdown" /\ Shutdown(w)
    /\ RustUnchanged /\ UNCHANGED faults

GatewayTimer(w) ==
    /\ gateway[w].up
    /\ gateway[w].timer
    /\ gateway' = [gateway EXCEPT ![w].reason = "timeout", ![w].timer = FALSE]
    /\ RustUnchanged /\ UNCHANGED <<stdin, stdout, faults>>

(* The catch and finally clauses of handleComplete: the reason of an abort *)
(* is reported before the error it caused.                                 *)
Reported(w, kind) ==
    IF kind = "result" \/ gateway[w].reason = "none" THEN kind ELSE gateway[w].reason

Settle(w, kind) ==
    /\ Sends(w, Reported(w, kind), gateway[w].active)
    /\ gateway' = [gateway EXCEPT ![w] = Waiting]

InPhase(w, phase) ==
    /\ gateway[w].up
    /\ gateway[w].phase = phase

(* startCompletion: an unknown model or no credentials; or the first       *)
(* attempt is on its way and the client is told.                           *)
StartCompletion(w) ==
    /\ InPhase(w, "resolving")
    /\ \/ Settle(w, "provider")
       \/ /\ Sends(w, "started", gateway[w].active)
          /\ gateway' = [gateway EXCEPT ![w].phase = "attempt"]
    /\ RustUnchanged /\ UNCHANGED <<stdin, faults>>

(* The provider ends an attempt; an aborted one may still succeed.  A      *)
(* retryable failure is terminal when maxRetries attempts were repeated,   *)
(* which the model leaves open.                                            *)
ProviderReplies(w) ==
    /\ InPhase(w, "attempt")
    /\ \/ Settle(w, "result")
       \/ Settle(w, "provider")
       \/ Settle(w, "tool_contract")
       \/ /\ gateway' = [gateway EXCEPT ![w].phase = "backoff"]
          /\ UNCHANGED stdout
    /\ RustUnchanged /\ UNCHANGED <<stdin, faults>>

Aborted(w) == gateway[w].reason # "none"

Retry(w) ==
    /\ InPhase(w, "backoff")
    /\ ~Aborted(w)
    /\ gateway' = [gateway EXCEPT ![w].phase = "attempt"]
    /\ RustUnchanged /\ UNCHANGED <<stdin, stdout, faults>>

(* Mutant: the signal is not passed to the credential lookup.              *)
AbortsAttempt(w) ==
    /\ gateway[w].up
    /\ gateway[w].phase \in {"attempt", "backoff"}
    /\ Aborted(w)
    /\ Settle(w, "canceled")
    /\ RustUnchanged /\ UNCHANGED <<stdin, faults>>

(* The signal ends the credential lookup, the provider call or the delay.  *)
AbortTakesEffect(w) ==
    /\ gateway[w].up
    /\ gateway[w].active # None
    /\ Aborted(w)
    /\ Settle(w, "canceled")
    /\ RustUnchanged /\ UNCHANGED <<stdin, faults>>

GatewayDies(w) ==
    /\ gateway[w].up
    /\ Faulty
    /\ faults' = faults + 1
    /\ Shutdown(w)
    /\ stdin' = [stdin EXCEPT ![w] = <<>>]
    /\ RustUnchanged

Gateway(w) ==
    \/ HandleMessage(w) \/ GatewayTimer(w) \/ StartCompletion(w)
    \/ ProviderReplies(w) \/ Retry(w) \/ AbortTakesEffect(w) \/ GatewayDies(w)

-----------------------------------------------------------------------------
Done ==
    /\ \/ ~Alive
       \/ \A w \in Workers : worker[w].pc = "dropped"
    /\ UNCHANGED vars

Next ==
    \/ BeginWave \/ EndWave \/ Finished \/ Interrupt \/ Exit \/ Done
    \/ \E w \in Workers :
          \/ Thread(w) \/ ReceiveTimesOut(w) \/ WriteCancel(w) \/ Gateway(w)
          \/ DropWorker(w) \/ Reap(w)

Spec == Init /\ [][Next]_vars

(* Threads run and Node's event loop turns; an aborted call rejects.       *)
(* Nothing makes a provider answer, a timer exist, a command begin a wave  *)
(* or the user press Ctrl-C.                                               *)
Fairness ==
    \A w \in Workers :
         /\ WF_vars(Thread(w))
         /\ WF_vars(WriteCancel(w))
         /\ WF_vars(HandleMessage(w))
         /\ WF_vars(AbortTakesEffect(w))

FairSpec == Spec /\ Fairness

-----------------------------------------------------------------------------
(* Properties.                                                             *)

(* Whether a cancel of the request a worker published is on its way, has   *)
(* been taken by the gateway, or comes too late for it.                    *)
Written(w, kind) == \E i \in DOMAIN stdin[w] : stdin[w][i] = Frame(kind, active[w])

Canceling(w) ==
    \/ \E i \in DOMAIN cancels[w] : cancels[w][i] = active[w]
    \/ Written(w, "cancel")
    \/ gateway[w].active = active[w] /\ Aborted(w)
    \/ /\ worker[w].pc # "writing"
       /\ gateway[w].active # active[w]
       /\ ~Written(w, "complete")
    \/ ~gateway[w].up

(* Whatever thread of a wave is early or late, every request in flight     *)
(* that was admitted before the last Ctrl-C is being canceled by it: none  *)
(* is overlooked, and no cancel overtakes the request it is for.           *)
InterruptReachesAll ==
    \A w \in Workers :
        /\ active[w] # None
        /\ command.generation # gate.generation
        => Canceling(w)

(* Requests, late acknowledgements and timeouts of one wave never put the  *)
(* connection out of step for a later one, although its workers are used   *)
(* again after a failed subject.                                           *)
ConnectionsInStep ==
    \A w \in Workers : worker[w].outcome \notin {"protocol", "busy"}

(* An interrupt takes what it has to, and nothing a later wave needs.      *)
InterruptSound ==
    /\ InterruptReachesAll
    /\ ConnectionsInStep

(* What the user sees of an interrupt is the contract of docs/advanced.md. *)
Console == INSTANCE ConsoleInterrupt WITH
    Slots <- Workers,
    busy <- {w \in Workers : active[w] # None},
    stopping <- gate.pending,
    leaving <- process # "running"

ImplementsConsole == Console!ConsoleSpec

(* A Ctrl-C ends its wave, or the process, although no provider answers    *)
(* and no timer fires: the flag that refuses all work does not stay up.    *)
InterruptEnds == gate.pending ~> ~gate.pending \/ process # "running"
=============================================================================
