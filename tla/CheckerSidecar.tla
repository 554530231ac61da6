--------------------------- MODULE CheckerSidecar ---------------------------
(***************************************************************************)
(* One checker sidecar: the Rust client (checker/process.rs), the threads   *)
(* that may cancel its current request (CheckerControl), the Node protocol  *)
(* host (checker/src/main.mjs), the worker threads the host replaces when   *)
(* one is terminated, and the native compilers those workers spawn.         *)
(*                                                                         *)
(* The two pipes are FIFO.  The messages a worker posts to the host are     *)
(* FIFO too, but nothing orders them with the frames on stdin, nor the      *)
(* messages of one worker with those of the next.  A plan of memberships    *)
(* is a session of frames under one id: begin, a frame per chunk of files,  *)
(* finish, then a frame per page of the result.                             *)
(*                                                                         *)
(* The client is one thread: where it answers one message by writing the    *)
(* next frame, both are one step, because neither reads what the control    *)
(* threads write.                                                           *)
(***************************************************************************)
EXTENDS Naturals, Sequences

CONSTANTS
    Controllers,  \* threads that cancel: the Ctrl-C handler, the watch loop
    Requests,     \* bound on the requests of the client
    Cancels,      \* bound on the cancels the control threads begin
    Chunks,       \* bound on the frames of an upload
    Pages,        \* bound on the pages of a plan's result
    Failures,     \* bound on the failures of workers and of the host
    IdleFailure   \* whether a worker may also fail with no request in hand

ASSUME SidecarAssumption ==
    /\ {Requests, Cancels, Chunks, Pages, Failures} \subseteq Nat
    /\ IdleFailure \in BOOLEAN

VARIABLES
    client,     \* ProcessChecker
    active,     \* ProcessChecker.active, shared with the controls
    aim,        \* per control thread, the target it has read and not yet sent
    toHost,     \* stdin of the sidecar
    toClient,   \* its stdout and the client's inbound channel
    host,       \* main.mjs
    workers,    \* the worker threads the host has created, in order
    asked,      \* ghost: the requests a control thread decided to cancel
    outcome,    \* ghost: how each request of the client ended
    spent       \* cancels and failures so far, against their bounds

vars == <<client, active, aim, toHost, toClient, host, workers, asked,
          outcome, spent>>

-----------------------------------------------------------------------------
Ids == 1 .. Requests
None == 0                       \* no request; also the id of a cancel's reply
Generations == 0 .. Cancels + Failures + 1

Kinds == {"capabilities", "batch", "plan"}
PlanFrames == {"plan_begin", "plan_add", "plan_finish", "plan_next"}

Idle == [pc |-> "idle", id |-> None, kind |-> "batch", chunks |-> 0, sent |-> 0,
         paging |-> FALSE]

NoPlan == [id |-> None, phase |-> "none", total |-> 0, received |-> 0,
           pages |-> 0, cursor |-> 0]

Init ==
    /\ client = Idle
    /\ active = None
    /\ aim = [c \in Controllers |-> None]
    /\ toHost = <<>>
    /\ toClient = <<>>
    /\ host = [up |-> TRUE, active |-> None, plan |-> NoPlan,
               canceledPlan |-> None, worker |-> 0, children |-> {}]
    /\ workers = <<>>
    /\ asked = {}
    /\ outcome = <<>>
    /\ spent = [cancels |-> 0, failures |-> 0]

-----------------------------------------------------------------------------
(* The client.                                                             *)

Frame(kind, id) == [kind |-> kind, id |-> id, target |-> None, size |-> 0]
Upload(id, total) == [Frame("plan_begin", id) EXCEPT !.size = total]
NextFrame(id, cursor) == [Frame("plan_next", id) EXCEPT !.size = cursor]

StopCompiler(w) == [w EXCEPT !.compiler = IF @ = "running" THEN "stopped" ELSE @]

(* Every process of the group is killed: host, workers and compilers.      *)
KillGroup ==
    /\ host' = [host EXCEPT !.up = FALSE]
    /\ workers' = [g \in DOMAIN workers |->
                      [StopCompiler(workers[g]) EXCEPT !.state = "dead"]]

Record(how) == outcome' = Append(outcome, how)

(* The request is over and the client may be used again.                   *)
Return(how) ==
    /\ Record(how)
    /\ client' = Idle
    /\ active' = None

(* The request is over and so is the client: it can only be dropped.       *)
Poison(how) ==
    /\ Record(how)
    /\ client' = [Idle EXCEPT !.pc = "poisoned"]
    /\ active' = None

(* A request.  `capabilities` never becomes the active request, so nothing *)
(* can cancel it.                                                          *)
Begin ==
    /\ client.pc = "idle"
    /\ Len(outcome) < Requests
    /\ \E kind \in Kinds, chunks \in 0 .. Chunks :
         LET id == Len(outcome) + 1 IN
         /\ kind # "plan" => chunks = 0
         /\ IF host.up
            THEN /\ client' = [Idle EXCEPT !.pc = "calling", !.id = id,
                                           !.kind = kind, !.chunks = chunks]
                 /\ active' = IF kind = "capabilities" THEN active ELSE id
                 /\ toHost' = Append(toHost, IF kind = "plan" THEN Upload(id, chunks)
                                                              ELSE Frame(kind, id))
                 /\ UNCHANGED outcome
            ELSE Poison("failed") /\ UNCHANGED toHost
    /\ UNCHANGED <<aim, toClient, host, workers, asked, spent>>

(* The client's next frame of the plan, or an error of a closed pipe.      *)
Write(frame, state) ==
    IF host.up
    THEN /\ toHost' = Append(toHost, frame)
         /\ client' = state
         /\ UNCHANGED <<active, outcome>>
    ELSE Poison("failed") /\ UNCHANGED toHost

UploadNext ==
    IF client.sent < client.chunks
    THEN Write(Frame("plan_add", client.id), [client EXCEPT !.sent = @ + 1])
    ELSE Write(Frame("plan_finish", client.id), [client EXCEPT !.paging = TRUE])

(* What the client may read while it waits: the end of its request, the    *)
(* next message of its plan, or the reply to a cancel.                     *)
Expected(message) ==
    \/ message.id # client.id /\ message.kind = "cancel_result"
    \/ /\ message.id = client.id
       /\ \/ message.kind \in {"error", "canceled"}
          \/ message.kind = "result" /\ client.kind # "plan"
          \/ message.kind = "page" /\ client.paging
          \/ /\ client.kind = "plan" /\ ~client.paging
             /\ message.kind = (IF client.sent = 0 THEN "ready" ELSE "added")

(* A message for another request poisons the client; one of its own that   *)
(* it cannot use only ends the request.                                    *)
Reject(message) ==
    /\ UNCHANGED toHost
    /\ IF message.id = client.id THEN Return("protocol") ELSE Poison("protocol")

Accept(message) ==
    \/ /\ message.kind = "cancel_result"
       /\ UNCHANGED <<client, active, toHost, outcome>>
    \/ /\ message.kind \in {"result", "error", "canceled"}
       /\ Return(message.kind)
       /\ UNCHANGED toHost
    \/ message.kind \in {"ready", "added"} /\ UploadNext
    \/ /\ message.kind = "page" /\ message.cursor # 0
       /\ Write(NextFrame(client.id, message.cursor), client)
    \/ /\ message.kind = "page" /\ message.cursor = 0
       /\ Return("result")
       /\ UNCHANGED toHost

Receive ==
    /\ client.pc = "calling"
    /\ toClient # <<>>
    /\ toClient' = Tail(toClient)
    /\ IF Expected(Head(toClient)) THEN Accept(Head(toClient)) ELSE Reject(Head(toClient))
    /\ UNCHANGED <<aim, host, workers, asked, spent>>

(* The deadline of a reply passes: the client kills the process group.     *)
Timeout ==
    /\ client.pc = "calling"
    /\ Poison("timeout")
    /\ KillGroup
    /\ UNCHANGED <<aim, toHost, toClient, asked, spent>>

(* Stdout is closed and everything on it was read.                         *)
SeeExit ==
    /\ client.pc = "calling"
    /\ ~host.up
    /\ toClient = <<>>
    /\ Poison("failed")
    /\ KillGroup
    /\ UNCHANGED <<aim, toHost, toClient, asked, spent>>

(* Drop: a poisoned sidecar is killed, any other asked to shut down first. *)
Drop ==
    /\ client.pc \in {"idle", "poisoned"}
    /\ active' = None
    /\ IF client.pc = "idle"
       THEN /\ client' = [client EXCEPT !.pc = "closing"]
            /\ toHost' = IF host.up THEN Append(toHost, Frame("shutdown", None)) ELSE toHost
            /\ UNCHANGED <<host, workers>>
       ELSE /\ client' = [client EXCEPT !.pc = "closed"]
            /\ KillGroup
            /\ UNCHANGED toHost
    /\ UNCHANGED <<aim, toClient, asked, outcome, spent>>

(* The host has exited, or the grace period has passed and it is killed.   *)
Close ==
    /\ client.pc = "closing"
    /\ client' = [client EXCEPT !.pc = "closed"]
    /\ IF host.up THEN KillGroup ELSE UNCHANGED <<host, workers>>
    /\ UNCHANGED <<active, aim, toHost, toClient, asked, outcome, spent>>

Client == Begin \/ Receive \/ Timeout \/ SeeExit \/ Drop \/ Close

-----------------------------------------------------------------------------
(* A control thread: it reads the active request under the lock and writes *)
(* the cancel after it has released it.  The thread may hold a clone of    *)
(* the control that Drop has since unregistered.                           *)

ReadTarget(c) ==
    /\ aim[c] = None
    /\ active # None
    /\ spent.cancels < Cancels
    /\ aim' = [aim EXCEPT ![c] = active]
    /\ asked' = asked \cup {active}
    /\ spent' = [spent EXCEPT !.cancels = @ + 1]
    /\ UNCHANGED <<client, active, toHost, toClient, host, workers, outcome>>

WriteCancel(c) ==
    /\ aim[c] # None
    /\ aim' = [aim EXCEPT ![c] = None]
    /\ toHost' = IF host.up
                 THEN Append(toHost, [Frame("cancel", None) EXCEPT !.target = aim[c]])
                 ELSE toHost
    /\ UNCHANGED <<client, active, toClient, host, workers, asked, outcome, spent>>

Control(c) == ReadTarget(c) \/ WriteCancel(c)

-----------------------------------------------------------------------------
(* The protocol host.                                                      *)

Reply(kind, id) == [kind |-> kind, id |-> id, cursor |-> 0]

Answer(h, message) ==
    /\ host' = h
    /\ toClient' = Append(toClient, message)

(* clearPlanSession: the plan and the request it belongs to.               *)
ClearedPlanOnly(h) == [h EXCEPT !.plan = NoPlan]
Cleared(h) == [h EXCEPT !.active = None, !.plan = NoPlan]

(* terminateWorker: the compilers it registered are killed at once, the    *)
(* thread stops when it can.                                               *)
WithoutWorker(h) == [h EXCEPT !.worker = 0, !.children = @ \ {h.worker}]

Terminated(ws) ==
    [g \in DOMAIN ws |->
        IF g # host.worker THEN ws[g]
        ELSE [IF g \in host.children THEN StopCompiler(ws[g]) ELSE ws[g]
              EXCEPT !.state = IF @ = "up" THEN "terminating" ELSE @]]

NewWorker(id) == [state |-> "up", job |-> id, compiler |-> "none", mail |-> <<>>]

(* ensureWorker().postMessage: a job posted to a worker that has failed, a *)
(* failure the host has not heard of yet, is lost.                         *)
Post(h, id) ==
    IF h.worker = 0
    THEN /\ host' = [h EXCEPT !.worker = Len(workers) + 1]
         /\ workers' = Append(workers, NewWorker(id))
    ELSE /\ host' = h
         /\ workers' = [workers EXCEPT ![h.worker].job =
                           IF workers[h.worker].state = "up" THEN id ELSE @]

Dispatch(frame) ==
    IF host.active # None
    THEN Answer(host, Reply("error", frame.id)) /\ UNCHANGED workers
    ELSE Post([host EXCEPT !.active = frame.id], frame.id) /\ UNCHANGED toClient

BeginPlan(frame) ==
    IF host.active # None
    THEN Answer(host, Reply("error", frame.id))
    ELSE Answer([host EXCEPT !.active = frame.id,
                             !.canceledPlan = None,
                             !.plan = [NoPlan EXCEPT !.id = frame.id,
                                                     !.phase = "upload",
                                                     !.total = frame.size]],
                Reply("ready", frame.id))

InPhase(frame, phase) == host.plan.id = frame.id /\ host.plan.phase = phase

(* failPlanSession: a worker that is still at the plan is terminated.      *)
FailPlan ==
    LET working == host.plan.phase = "processing" IN
    /\ Answer(IF working THEN WithoutWorker(Cleared(host)) ELSE Cleared(host),
              Reply("error", host.plan.id))
    /\ workers' = IF working THEN Terminated(workers) ELSE workers

(* A frame of a plan the host no longer has is an error of its own; one    *)
(* the plan does not expect ends the plan.                                 *)
OutOfSequence(frame) ==
    IF host.plan.id = None
    THEN Answer(host, Reply("error", frame.id)) /\ UNCHANGED workers
    ELSE FailPlan

AddFiles(frame) ==
    IF InPhase(frame, "upload") /\ host.plan.received < host.plan.total
    THEN /\ Answer([host EXCEPT !.plan.received = @ + 1], Reply("added", frame.id))
         /\ UNCHANGED workers
    ELSE OutOfSequence(frame)

FinishPlan(frame) ==
    IF InPhase(frame, "upload") /\ host.plan.received = host.plan.total
    THEN Post([host EXCEPT !.plan.phase = "processing"], frame.id) /\ UNCHANGED toClient
    ELSE OutOfSequence(frame)

(* sendPlanPage: the next page, or an item that is too large for a page.   *)
SendPage(plan) ==
    \/ /\ plan.cursor + 1 = plan.pages
       /\ Answer(Cleared(host), Reply("page", plan.id))
    \/ /\ plan.cursor + 1 < plan.pages
       /\ Answer([host EXCEPT !.plan = [plan EXCEPT !.cursor = @ + 1]],
                 [Reply("page", plan.id) EXCEPT !.cursor = plan.cursor + 1])
    \/ Answer(Cleared(host), Reply("error", plan.id))

NextPage(frame) ==
    IF InPhase(frame, "result") /\ frame.size = host.plan.cursor
    THEN SendPage(host.plan) /\ UNCHANGED workers
    ELSE OutOfSequence(frame)

FindsActive(frame) == host.active # None
FindsBatch(frame) == host.active = frame.target /\ host.plan.id = None
FindsTarget(frame) == host.active = frame.target

(* Both replies to a cancel that finds its target are queued together.     *)
Cancel(frame) ==
    IF FindsTarget(frame)
    THEN /\ host' = WithoutWorker(Cleared(
                       [host EXCEPT !.canceledPlan =
                           IF host.plan.id # None THEN host.active ELSE @]))
         /\ workers' = Terminated(workers)
         /\ toClient' = toClient \o <<Reply("canceled", host.active),
                                      Reply("cancel_result", None)>>
    ELSE Answer(host, Reply("cancel_result", None)) /\ UNCHANGED workers

(* The process exits.  Its threads die, and its "exit" handler kills the   *)
(* compilers that are registered unless a signal ends the host.            *)
Exit(handled) ==
    /\ host' = [host EXCEPT !.up = FALSE]
    /\ workers' = [g \in DOMAIN workers |->
                      [IF handled /\ g \in host.children THEN StopCompiler(workers[g])
                                                         ELSE workers[g]
                       EXCEPT !.state = "dead"]]

(* The frame that trails the cancellation of its plan is discarded.        *)
TrailingUpload(frame) ==
    frame.id = host.canceledPlan /\ frame.kind \in PlanFrames \ {"plan_next"}
Trailing(frame) == frame.id = host.canceledPlan /\ frame.kind \in PlanFrames

Handle(frame) ==
    \/ Trailing(frame) /\ UNCHANGED <<host, workers, toClient>>
    \/ /\ ~Trailing(frame)
       /\ \/ frame.kind \in {"capabilities", "batch"} /\ Dispatch(frame)
          \/ frame.kind = "plan_begin" /\ BeginPlan(frame) /\ UNCHANGED workers
          \/ frame.kind = "plan_add" /\ AddFiles(frame)
          \/ frame.kind = "plan_finish" /\ FinishPlan(frame)
          \/ frame.kind = "plan_next" /\ NextPage(frame)
          \/ frame.kind = "cancel" /\ Cancel(frame)
          \/ frame.kind = "shutdown" /\ Exit(TRUE) /\ UNCHANGED toClient

ReadFrame ==
    /\ host.up
    /\ toHost # <<>>
    /\ toHost' = Tail(toHost)
    /\ Handle(Head(toHost))
    /\ UNCHANGED <<client, active, aim, asked, outcome, spent>>

(* A reply of worker `g`: of no use unless it is the worker of the request *)
(* in hand.                                                                *)
TakeReply(g, message) ==
    IF g # host.worker \/ host.active # message.id
    THEN UNCHANGED <<host, toClient>>
    ELSE \/ /\ host.plan.phase = "processing"
            /\ message.kind = "result"
            /\ \E pages \in 1 .. Pages :
                  SendPage([host.plan EXCEPT !.phase = "result", !.pages = pages])
         \/ /\ host.plan.phase = "processing"
            /\ message.kind = "error"
            /\ Answer(Cleared(host), Reply("error", message.id))
         \/ /\ host.plan.phase # "processing"
            /\ Answer([host EXCEPT !.active = None], Reply(message.kind, message.id))

(* The worker failed: the request in hand, whatever it is, ends with it.   *)
EndRequestSilent(h) ==
    host' = (IF host.active = None THEN h ELSE Cleared(h)) /\ UNCHANGED toClient

EndRequest(h) ==
    IF host.active = None
    THEN host' = h /\ UNCHANGED toClient
    ELSE Answer(Cleared(h), Reply("error", host.active))

(* A compiler that a worker registers after it was replaced is killed.     *)
Register(g, ws) ==
    IF g # host.worker
    THEN workers' = [ws EXCEPT ![g] = StopCompiler(@)] /\ UNCHANGED host
    ELSE workers' = ws /\ host' = [host EXCEPT !.children = @ \cup {g}]

(* The message of worker `g` first in its port.                            *)
ReadMail(g) ==
    /\ host.up
    /\ workers[g].mail # <<>>
    /\ LET message == Head(workers[g].mail)
           read == [workers EXCEPT ![g].mail = Tail(@)] IN
       \/ /\ message.kind = "compiler_child"
          /\ Register(g, read)
          /\ UNCHANGED toClient
       \/ /\ message.kind = "compiler_child_exit"
          /\ workers' = read
          /\ host' = [host EXCEPT !.children = @ \ {g}]
          /\ UNCHANGED toClient
       \/ /\ message.kind \in {"result", "error"}
          /\ workers' = read
          /\ TakeReply(g, message)
       \/ /\ message.kind = "failed"
          /\ IF g # host.worker
             THEN workers' = read /\ UNCHANGED <<host, toClient>>
             ELSE workers' = Terminated(read) /\ EndRequest(WithoutWorker(host))
       \/ /\ message.kind = "exited"
          /\ workers' = IF g \in host.children THEN [read EXCEPT ![g] = StopCompiler(@)]
                                               ELSE read
          /\ IF g # host.worker
             THEN host' = [host EXCEPT !.children = @ \ {g}] /\ UNCHANGED toClient
             ELSE EndRequest(WithoutWorker(host))
    /\ UNCHANGED <<client, active, aim, toHost, asked, outcome, spent>>

(* The host fails: an exception no handler takes, or a signal.             *)
HostFails ==
    /\ host.up
    /\ spent.failures < Failures
    /\ spent' = [spent EXCEPT !.failures = @ + 1]
    /\ \E handled \in BOOLEAN : Exit(handled)
    /\ UNCHANGED <<client, active, aim, toHost, toClient, asked, outcome>>

-----------------------------------------------------------------------------
(* A worker thread.  One that is being terminated runs on until it stops.  *)

Posts(g, messages, w) ==
    workers' = [workers EXCEPT ![g] = [w EXCEPT !.mail = @ \o messages]]

Mail(kind, id) == [kind |-> kind, id |-> id]

OthersUnchanged == UNCHANGED <<client, active, aim, toHost, toClient, host, asked, outcome>>

Running(g) == workers[g].state \in {"up", "terminating"}

(* The native runtime spawns a compiler and registers it.                  *)
Spawn(g) ==
    /\ Running(g)
    /\ workers[g].job # None
    /\ workers[g].compiler = "none"
    /\ Posts(g, <<Mail("compiler_child", None)>>, [workers[g] EXCEPT !.compiler = "running"])
    /\ OthersUnchanged /\ UNCHANGED spent

CompilerExits(g) ==
    /\ Running(g)
    /\ workers[g].compiler = "running"
    /\ Posts(g, <<Mail("compiler_child_exit", None)>>, [workers[g] EXCEPT !.compiler = "stopped"])
    /\ OthersUnchanged /\ UNCHANGED spent

WorkerReplies(g) ==
    /\ Running(g)
    /\ workers[g].job # None
    /\ \E kind \in {"result", "error"} :
         Posts(g, <<Mail(kind, workers[g].job)>>, [workers[g] EXCEPT !.job = None])
    /\ OthersUnchanged /\ UNCHANGED spent

(* An uncaught error, or an exit without one.                              *)
WorkerFails(g) ==
    /\ workers[g].state = "up"
    /\ workers[g].job # None \/ IdleFailure
    /\ spent.failures < Failures
    /\ spent' = [spent EXCEPT !.failures = @ + 1]
    /\ \E messages \in {<<Mail("failed", None), Mail("exited", None)>>,
                        <<Mail("exited", None)>>} :
         Posts(g, messages, [workers[g] EXCEPT !.state = "dead", !.job = None])
    /\ OthersUnchanged

WorkerStops(g) ==
    /\ workers[g].state = "terminating"
    /\ Posts(g, <<Mail("exited", None)>>, [workers[g] EXCEPT !.state = "dead", !.job = None])
    /\ OthersUnchanged /\ UNCHANGED spent

Worker(g) ==
    \/ Spawn(g) \/ CompilerExits(g) \/ WorkerReplies(g) \/ WorkerFails(g)
    \/ WorkerStops(g)

(* Once the client has dropped the sidecar nothing is left to happen.      *)
Done ==
    /\ client.pc = "closed"
    /\ UNCHANGED vars

Next ==
    \/ Client
    \/ \E c \in Controllers : Control(c)
    \/ ReadFrame
    \/ HostFails
    \/ \E g \in DOMAIN workers : ReadMail(g) \/ Worker(g)
    \/ Done

Spec == Init /\ [][Next]_vars

(* The client reads what arrives, the host runs its event loop and a       *)
(* thread that is being terminated stops.  Nothing makes a caller begin or *)
(* drop, a deadline pass, or a compiler answer.                            *)
Fairness ==
    /\ WF_vars(Receive)
    /\ WF_vars(SeeExit)
    /\ WF_vars(Close)
    /\ WF_vars(ReadFrame)
    /\ \A c \in Controllers : WF_vars(WriteCancel(c))
    /\ \A g \in Generations : WF_vars(g \in DOMAIN workers /\ ReadMail(g))
    /\ \A g \in Generations : WF_vars(g \in DOMAIN workers /\ WorkerStops(g))

FairSpec == Spec /\ Fairness

-----------------------------------------------------------------------------
(* The types of the variables.                                             *)
Ends == {"result", "error", "canceled", "timeout", "failed", "protocol"}

Clients ==
    [pc : {"idle", "calling", "poisoned", "closing", "closed"},
     id : {None} \cup Ids, kind : Kinds, chunks : 0 .. Chunks,
     sent : 0 .. Chunks, paging : BOOLEAN]

Frames ==
    [kind : PlanFrames \cup {"capabilities", "batch", "cancel", "shutdown"},
     id : {None} \cup Ids, target : {None} \cup Ids, size : Nat]

Replies ==
    [kind : {"result", "error", "canceled", "ready", "added", "page", "cancel_result"},
     id : {None} \cup Ids, cursor : Nat]

Plans ==
    [id : {None} \cup Ids, phase : {"none", "upload", "processing", "result"},
     total : Nat, received : Nat, pages : Nat, cursor : Nat]

Hosts ==
    [up : BOOLEAN, active : {None} \cup Ids, plan : Plans,
     canceledPlan : {None} \cup Ids, worker : Nat, children : SUBSET Nat]

Messages ==
    [kind : {"compiler_child", "compiler_child_exit", "result", "error", "failed",
             "exited"}, id : {None} \cup Ids]

Workers ==
    [state : {"up", "terminating", "dead"}, job : {None} \cup Ids,
     compiler : {"none", "running", "stopped"}, mail : Seq(Messages)]

TypeOK ==
    /\ client \in Clients
    /\ active \in {None} \cup Ids
    /\ aim \in [Controllers -> {None} \cup Ids]
    /\ toHost \in Seq(Frames)
    /\ toClient \in Seq(Replies)
    /\ host \in Hosts
    /\ host.worker \in 0 .. Len(workers)
    /\ workers \in Seq(Workers)
    /\ asked \subseteq Ids
    /\ outcome \in Seq(Ends)
    /\ spent \in [cancels : 0 .. Cancels, failures : 0 .. Failures]

(* However cancels, replies and the frames of a plan cross on the pipes,   *)
(* the client never reads a reply it does not expect: neither one for      *)
(* another request nor a second end of the same one, which would cost it   *)
(* the sidecar.  With IdleFailure the code does not have this property, as *)
(* the README explains.                                                    *)
NeverDesynchronized == \A i \in DOMAIN outcome : outcome[i] # "protocol"

(* A client between two requests, with nothing of its own on the way,      *)
(* finds a host with no request in hand: the host is never busy with what  *)
(* the client has given up.                                                *)
ReadyWhenIdle ==
    /\ client.pc = "idle"
    /\ host.up
    => host.active = None /\ host.plan = NoPlan

(* A request that was canceled was the target some control thread read: a  *)
(* cancel that arrives late never ends the request after.                  *)
CanceledWasAsked ==
    \A id \in DOMAIN outcome : outcome[id] = "canceled" => id \in asked

(* The client ends well-formed, and as canceled only what it was asked to    *)
(* cancel.                                                                   *)
CancelSound ==
    /\ TypeOK
    /\ CanceledWasAsked

(* A compiler still running belongs to the current worker of a live host,  *)
(* or its registration is still in the port and the host will kill it.     *)
CompilerAccountedFor ==
    host.up => \A g \in DOMAIN workers :
        workers[g].compiler = "running" =>
            \/ g \in host.children
            \/ \E i \in DOMAIN workers[g].mail : workers[g].mail[i].kind = "compiler_child"

(* A live host keeps nothing the client has given up, neither a request nor  *)
(* a compiler.                                                               *)
NothingLeftBehind ==
    /\ ReadyWhenIdle
    /\ CompilerAccountedFor

(* A request that somebody chose to cancel does not stay in hand, although   *)
(* the compiler never answers and no deadline passes.                        *)
CancelFreesClient == []<>~(client.pc = "calling" /\ client.id \in asked)

(* No request waits for its deadline because a reply was lost: if workers  *)
(* answer or fail, every request ends.                                     *)
WorkersAnswer ==
    \A g \in Generations :
        WF_vars(g \in DOMAIN workers /\ (WorkerReplies(g) \/ WorkerFails(g)))

EveryRequestEnds ==
    WorkersAnswer => []<>(client.pc # "calling")

(* No request outlasts its cancel, its answer or the failure of its worker.  *)
RequestsEnd ==
    /\ CancelFreesClient
    /\ EveryRequestEnds

(* What a caller of the sidecar sees of all this is the abstract call of   *)
(* CheckerCall.                                                            *)
Abstract == INSTANCE CheckerCall WITH
                calling <- client.id,
                open <- client.pc \in {"idle", "calling"}

ImplementsCall == Abstract!Spec
=============================================================================
