------------------------ MODULE CheckerSidecarProofs ------------------------
(***************************************************************************)
(* The sidecar: type correctness, the safety of cancellation, what a live   *)
(* host keeps, and the call that a caller sees.                             *)
(*                                                                         *)
(* A request ends as canceled only if a control thread chose that request:  *)
(* CancelTrail follows the target from the thread that read it, through the *)
(* frame on stdin and the reply on stdout, to the outcome.                  *)
(*                                                                         *)
(* Conversation says whose turn it is: at every moment the request is a     *)
(* frame on stdin, or with the host or its worker, or a reply on stdout.    *)
(* From it follow that an idle client finds an idle host and, where no      *)
(* worker fails between two requests, that the client reads no message it   *)
(* does not expect and that the whole implements CheckerCall.               *)
(***************************************************************************)
EXTENDS CheckerSidecar, SequenceTheorems, TLAPS

-----------------------------------------------------------------------------
(* Sequences.                                                              *)

LEMMA ReplaceAll ==
    ASSUME NEW S, NEW s \in Seq(S), NEW f \in [DOMAIN s -> S]
    PROVE  f \in Seq(S) /\ Len(f) = Len(s)
<1>1. DOMAIN s = 1 .. Len(s) /\ Len(s) \in Nat
  OBVIOUS
<1>2. f \in [1 .. Len(s) -> S]
  BY <1>1
<1>3. f \in UNION {[1 .. n -> S] : n \in Nat}
  BY <1>1, <1>2
<1>4. f \in Seq(S)
  BY <1>3, SeqDef
<1>5. DOMAIN f = 1 .. Len(f) /\ Len(f) \in Nat
  BY <1>4
<1> QED BY <1>1, <1>2, <1>4, <1>5

LEMMA ReplaceOne ==
    ASSUME NEW S, NEW s \in Seq(S), NEW i \in DOMAIN s, NEW e \in S
    PROVE  [s EXCEPT ![i] = e] \in Seq(S) /\ Len([s EXCEPT ![i] = e]) = Len(s)
<1>1. i \in 1 .. Len(s)
  OBVIOUS
<1> QED BY <1>1, ExceptSeq

LEMMA SequenceElement ==
    ASSUME NEW S, NEW s \in Seq(S), NEW i \in DOMAIN s
    PROVE  s[i] \in S
OBVIOUS

LEMMA ConstantTypes ==
    {Requests, Cancels, Chunks, Pages, Failures} \subseteq Nat /\ Chunks \in Nat
BY SidecarAssumption

-----------------------------------------------------------------------------
(* Types of the values the operators build.                                *)

LEMMA ClientTypes ==
    /\ Idle \in Clients
    /\ \A c \in Clients, pc \in {"idle", "calling", "poisoned", "closing", "closed"} :
          [c EXCEPT !.pc = pc] \in Clients
    /\ \A id \in Ids, kind \in Kinds, chunks \in 0 .. Chunks :
          [Idle EXCEPT !.pc = "calling", !.id = id, !.kind = kind, !.chunks = chunks] \in Clients
<1>1. 0 \in 0 .. Chunks
  BY ConstantTypes
<1>2. Idle \in Clients
  BY <1>1 DEF Idle, Clients, Kinds, None
<1>3. \A c \in Clients, pc \in {"idle", "calling", "poisoned", "closing", "closed"} :
         [c EXCEPT !.pc = pc] \in Clients
  BY DEF Clients
<1>4. \A id \in Ids, kind \in Kinds, chunks \in 0 .. Chunks :
         [Idle EXCEPT !.pc = "calling", !.id = id, !.kind = kind, !.chunks = chunks] \in Clients
  BY <1>2 DEF Clients
<1> QED BY <1>2, <1>3, <1>4

LEMMA FrameTypes ==
    ASSUME NEW id \in {None} \cup Ids
    PROVE  /\ \A kind \in PlanFrames \cup {"capabilities", "batch", "cancel", "shutdown"} :
                 Frame(kind, id) \in Frames
           /\ \A size \in Nat : Upload(id, size) \in Frames /\ NextFrame(id, size) \in Frames
           /\ \A target \in {None} \cup Ids :
                 [Frame("cancel", id) EXCEPT !.target = target] \in Frames
  BY DEF Frame, Frames, Upload, NextFrame, PlanFrames, None

LEMMA ReplyTypes ==
    ASSUME NEW id \in {None} \cup Ids,
           NEW kind \in {"result", "error", "canceled", "ready", "added", "page", "cancel_result"}
    PROVE  /\ Reply(kind, id) \in Replies
           /\ \A cursor \in Nat : [Reply(kind, id) EXCEPT !.cursor = cursor] \in Replies
  BY DEF Reply, Replies

LEMMA HostTypes ==
    ASSUME NEW h \in Hosts
    PROVE  /\ Cleared(h) \in Hosts /\ Cleared(h).worker = h.worker
           /\ WithoutWorker(h) \in Hosts /\ WithoutWorker(h).worker = 0
  BY DEF Hosts, Plans, Cleared, NoPlan, WithoutWorker, None

LEMMA WorkerTypes ==
    ASSUME NEW w \in Workers
    PROVE  /\ StopCompiler(w) \in Workers
           /\ \A state \in {"up", "terminating", "dead"} : [w EXCEPT !.state = state] \in Workers
           /\ \A job \in {None} \cup Ids : [w EXCEPT !.job = job] \in Workers
  BY DEF Workers, StopCompiler

LEMMA KillTypes ==
    ASSUME TypeOK, KillGroup
    PROVE  /\ host' \in Hosts /\ workers' \in Seq(Workers)
           /\ host'.worker \in 0 .. Len(workers')
<1>1. host' \in Hosts /\ host'.worker = host.worker
  BY DEF TypeOK, KillGroup, Hosts
<1>2. \A g \in DOMAIN workers : [StopCompiler(workers[g]) EXCEPT !.state = "dead"] \in Workers
  BY WorkerTypes, SequenceElement DEF TypeOK
<1>3. workers' \in [DOMAIN workers -> Workers]
  BY <1>2 DEF KillGroup
<1>4. workers' \in Seq(Workers) /\ Len(workers') = Len(workers)
  BY <1>3, ReplaceAll DEF TypeOK
<1> QED BY <1>1, <1>4 DEF TypeOK

LEMMA ExitTypes ==
    ASSUME TypeOK, NEW handled \in BOOLEAN, Exit(handled)
    PROVE  /\ host' \in Hosts /\ workers' \in Seq(Workers)
           /\ host'.worker \in 0 .. Len(workers')
<1>1. host' \in Hosts /\ host'.worker = host.worker
  BY DEF TypeOK, Exit, Hosts
<1>2. \A g \in DOMAIN workers :
         [IF handled /\ g \in host.children THEN StopCompiler(workers[g]) ELSE workers[g]
          EXCEPT !.state = "dead"] \in Workers
  BY WorkerTypes, SequenceElement DEF TypeOK
<1>3. workers' \in [DOMAIN workers -> Workers]
  BY <1>2 DEF Exit
<1>4. workers' \in Seq(Workers) /\ Len(workers') = Len(workers)
  BY <1>3, ReplaceAll DEF TypeOK
<1> QED BY <1>1, <1>4 DEF TypeOK

LEMMA TerminatedTypes ==
    ASSUME NEW ws \in Seq(Workers)
    PROVE  Terminated(ws) \in Seq(Workers) /\ Len(Terminated(ws)) = Len(ws)
<1> DEFINE W(g) == IF g \in host.children THEN StopCompiler(ws[g]) ELSE ws[g]
<1>1. \A g \in DOMAIN ws : W(g) \in Workers /\ ws[g] \in Workers
  BY WorkerTypes, SequenceElement
<1>2. \A g \in DOMAIN ws :
         [W(g) EXCEPT !.state = IF @ = "up" THEN "terminating" ELSE @] \in Workers
  BY <1>1 DEF Workers
<1>3. Terminated(ws) \in [DOMAIN ws -> Workers]
  BY <1>1, <1>2 DEF Terminated
<1> QED BY <1>3, ReplaceAll

-----------------------------------------------------------------------------
(* The client's steps.                                                     *)

HostPart ==
    /\ host \in Hosts /\ workers \in Seq(Workers)
    /\ host.worker \in 0 .. Len(workers)

ClientPart ==
    /\ client \in Clients
    /\ active \in {None} \cup Ids
    /\ outcome \in Seq(Ends)

LEMMA RecordTypes ==
    ASSUME TypeOK, NEW how \in Ends, Record(how)
    PROVE  outcome' \in Seq(Ends)
  BY AppendProperties DEF TypeOK, Record

LEMMA EndTypes ==
    ASSUME TypeOK, NEW how \in Ends, Return(how) \/ Poison(how)
    PROVE  ClientPart'
<1>1. outcome' \in Seq(Ends)
  BY RecordTypes DEF Return, Poison
<1>2. client' \in Clients /\ active' = None
  BY ClientTypes DEF Return, Poison
<1> QED BY <1>1, <1>2 DEF ClientPart

LEMMA WriteTypes ==
    ASSUME TypeOK, NEW frame \in Frames, NEW state \in Clients, Write(frame, state)
    PROVE  ClientPart' /\ toHost' \in Seq(Frames)
<1>1. CASE host.up
  <2>1. toHost' = Append(toHost, frame) /\ client' = state /\ UNCHANGED <<active, outcome>>
    BY <1>1 DEF Write
  <2>2. toHost' \in Seq(Frames)
    BY <2>1, AppendProperties DEF TypeOK
  <2> QED BY <2>1, <2>2 DEF TypeOK, ClientPart
<1>2. CASE ~host.up
  BY <1>2, EndTypes DEF Write, TypeOK, Ends
<1> QED BY <1>1, <1>2

LEMMA BeginTypes ==
    ASSUME TypeOK, Begin
    PROVE  TypeOK'
<1>1. PICK kind \in Kinds, chunks \in 0 .. Chunks :
         LET id == Len(outcome) + 1 IN
         IF host.up
         THEN /\ client' = [Idle EXCEPT !.pc = "calling", !.id = id,
                                        !.kind = kind, !.chunks = chunks]
              /\ active' = IF kind = "capabilities" THEN active ELSE id
              /\ toHost' = Append(toHost, IF kind = "plan" THEN Upload(id, chunks)
                                                           ELSE Frame(kind, id))
              /\ UNCHANGED outcome
         ELSE Poison("failed") /\ UNCHANGED toHost
  BY DEF Begin
<1> DEFINE id == Len(outcome) + 1
<1>2. id \in Ids
  BY SidecarAssumption DEF Begin, TypeOK, Ids
<1>3. ClientPart' /\ toHost' \in Seq(Frames)
  <2>1. CASE host.up
    <3>0. client' = [Idle EXCEPT !.pc = "calling", !.id = id, !.kind = kind, !.chunks = chunks]
      BY <1>1, <2>1
    <3>a. client' \in Clients
      BY <1>2, <3>0, ClientTypes
    <3>b. active' \in {None} \cup Ids /\ outcome' = outcome
      BY <1>1, <1>2, <2>1 DEF TypeOK
    <3>2. (IF kind = "plan" THEN Upload(id, chunks) ELSE Frame(kind, id)) \in Frames
      BY <1>2, FrameTypes DEF Kinds
    <3>3. toHost' = Append(toHost, IF kind = "plan" THEN Upload(id, chunks)
                                                    ELSE Frame(kind, id))
      BY <1>1, <2>1
    <3>4. toHost' \in Seq(Frames)
      BY <3>2, <3>3, AppendProperties DEF TypeOK
    <3> QED BY <3>a, <3>b, <3>4 DEF ClientPart, TypeOK
  <2>2. CASE ~host.up
    <3>1. Poison("failed") /\ toHost' = toHost
      BY <1>1, <2>2
    <3>2. "failed" \in Ends
      BY DEF Ends
    <3> QED BY <3>1, <3>2, EndTypes DEF TypeOK
  <2> QED BY <2>1, <2>2
<1> QED BY <1>3 DEF TypeOK, ClientPart, Begin

LEMMA ReceiveTypes ==
    ASSUME TypeOK, Receive
    PROVE  TypeOK'
<1> DEFINE message == Head(toClient)
<1>1. message \in Replies /\ toClient' \in Seq(Replies)
  BY HeadTailProperties DEF TypeOK, Receive
<1>2. client.id \in {None} \cup Ids /\ message.cursor \in Nat
  BY <1>1 DEF TypeOK, Clients, Replies
<1>3. ASSUME Reject(message)
      PROVE  ClientPart' /\ toHost' \in Seq(Frames)
  BY <1>3, EndTypes DEF Reject, Ends, TypeOK
<1>4. ASSUME Accept(message)
      PROVE  ClientPart' /\ toHost' \in Seq(Frames)
  <2>1. CASE UNCHANGED <<client, active, toHost, outcome>>
    BY <2>1 DEF TypeOK, ClientPart
  <2>2. CASE \E how \in {"result", "error", "canceled"} : Return(how) /\ UNCHANGED toHost
    BY <2>2, EndTypes DEF Ends, TypeOK
  <2>3. CASE UploadNext
    <3>1. Frame("plan_add", client.id) \in Frames /\ Frame("plan_finish", client.id) \in Frames
      BY <1>2, FrameTypes DEF PlanFrames
    <3>2. client.sent < client.chunks => [client EXCEPT !.sent = @ + 1] \in Clients
      <4>1. client.sent \in 0 .. Chunks /\ client.chunks \in 0 .. Chunks /\ Chunks \in Nat
        BY ConstantTypes DEF TypeOK, Clients
      <4>2. client.sent < client.chunks => client.sent + 1 \in 0 .. Chunks
        BY <4>1
      <4> QED BY <4>2 DEF TypeOK, Clients
    <3>3. [client EXCEPT !.paging = TRUE] \in Clients
      BY DEF TypeOK, Clients
    <3> QED BY <2>3, <3>1, <3>2, <3>3, WriteTypes DEF UploadNext
  <2>4. CASE Write(NextFrame(client.id, message.cursor), client)
    BY <1>2, <2>4, FrameTypes, WriteTypes DEF TypeOK
  <2> QED BY <1>4, <2>1, <2>2, <2>3, <2>4 DEF Accept
<1> QED BY <1>1, <1>3, <1>4 DEF Receive, TypeOK, ClientPart

LEMMA ClientKeepsType ==
    ASSUME TypeOK, Client
    PROVE  TypeOK'
<1>1. CASE Timeout \/ SeeExit
  <2>1. HostPart'
    BY <1>1, KillTypes DEF Timeout, SeeExit, HostPart
  <2>2. ClientPart'
    BY <1>1, EndTypes DEF Timeout, SeeExit, Ends
  <2> QED BY <1>1, <2>1, <2>2 DEF Timeout, SeeExit, TypeOK, HostPart, ClientPart
<1>2. CASE Drop
  <2>1. HostPart'
    BY <1>2, KillTypes DEF Drop, HostPart, TypeOK
  <2>2. client' \in Clients /\ active' = None
    BY <1>2, ClientTypes DEF Drop, TypeOK
  <2>3. toHost' \in Seq(Frames)
    <3>1. Frame("shutdown", None) \in Frames
      BY FrameTypes
    <3>2. toHost' = toHost \/ toHost' = Append(toHost, Frame("shutdown", None))
      BY <1>2 DEF Drop
    <3>3. toHost \in Seq(Frames)
      BY DEF TypeOK
    <3>4. Append(toHost, Frame("shutdown", None)) \in Seq(Frames)
      BY <3>1, <3>3, AppendProperties
    <3> QED BY <3>2, <3>3, <3>4
  <2> QED BY <1>2, <2>1, <2>2, <2>3 DEF Drop, TypeOK, HostPart
<1>3. CASE Close
  <2>1. HostPart'
    BY <1>3, KillTypes DEF Close, HostPart, TypeOK
  <2>2. client' \in Clients
    BY <1>3, ClientTypes DEF Close, TypeOK
  <2> QED BY <1>3, <2>1, <2>2 DEF Close, TypeOK, HostPart
<1> QED BY <1>1, <1>2, <1>3, BeginTypes, ReceiveTypes DEF Client

-----------------------------------------------------------------------------
(* The control threads.                                                    *)

LEMMA ControlKeepsType ==
    ASSUME TypeOK, NEW c \in Controllers, Control(c)
    PROVE  TypeOK'
<1>1. CASE ReadTarget(c)
  <2>1. active \in Ids
    BY <1>1 DEF ReadTarget, TypeOK
  <2>2. aim' \in [Controllers -> {None} \cup Ids] /\ asked' \subseteq Ids
    BY <1>1, <2>1 DEF ReadTarget, TypeOK
  <2>3. spent' \in [cancels : 0 .. Cancels, failures : 0 .. Failures]
    <3>1. spent.cancels + 1 \in 0 .. Cancels
      BY <1>1, ConstantTypes DEF ReadTarget, TypeOK
    <3> QED BY <1>1, <3>1 DEF ReadTarget, TypeOK
  <2> QED BY <1>1, <2>2, <2>3 DEF ReadTarget, TypeOK
<1>2. CASE WriteCancel(c)
  <2>1. aim[c] \in {None} \cup Ids /\ toHost \in Seq(Frames)
    BY DEF TypeOK
  <2>2. aim' \in [Controllers -> {None} \cup Ids]
    BY <1>2 DEF WriteCancel, TypeOK, None
  <2>3. [Frame("cancel", None) EXCEPT !.target = aim[c]] \in Frames
    BY <2>1, FrameTypes
  <2>4. Append(toHost, [Frame("cancel", None) EXCEPT !.target = aim[c]]) \in Seq(Frames)
    BY <2>1, <2>3, AppendProperties
  <2>5. toHost' \in Seq(Frames)
    BY <1>2, <2>1, <2>4 DEF WriteCancel
  <2> QED BY <1>2, <2>2, <2>5 DEF WriteCancel, TypeOK
<1> QED BY <1>1, <1>2 DEF Control

-----------------------------------------------------------------------------
(* The host.                                                               *)

Replied == toClient' \in Seq(Replies)

LEMMA AnswerTypes ==
    ASSUME TypeOK, NEW h \in Hosts, NEW message \in Replies, Answer(h, message)
    PROVE  host' \in Hosts /\ host'.worker = h.worker /\ Replied
<1>1. toClient \in Seq(Replies)
  BY DEF TypeOK
<1>2. Append(toClient, message) \in Seq(Replies)
  BY <1>1, AppendProperties
<1> QED BY <1>2 DEF Answer, Replied

LEMMA PostTypes ==
    ASSUME TypeOK, NEW h \in Hosts, h.worker = host.worker,
           NEW id \in {None} \cup Ids, Post(h, id)
    PROVE  HostPart'
<1>1. h.worker \in 0 .. Len(workers) /\ workers \in Seq(Workers) /\ Len(workers) \in Nat
  BY DEF TypeOK
<1>2. CASE h.worker = 0
  <2>1. NewWorker(id) \in Workers
    BY EmptySeq DEF NewWorker, Workers
  <2>2. workers' \in Seq(Workers) /\ Len(workers') = Len(workers) + 1
    BY <1>1, <1>2, <2>1, AppendProperties DEF Post
  <2>3. host' = [h EXCEPT !.worker = Len(workers) + 1]
    BY <1>2 DEF Post
  <2>4. host' \in Hosts /\ host'.worker = Len(workers) + 1
    BY <1>1, <2>3 DEF Hosts
  <2> QED BY <1>1, <2>2, <2>4 DEF HostPart
<1>3. CASE h.worker # 0
  <2> DEFINE g == h.worker
             job == IF workers[g].state = "up" THEN id ELSE workers[g].job
  <2>1. g \in DOMAIN workers
    BY <1>1, <1>3
  <2>2. workers[g] \in Workers
    BY <1>1, <2>1, SequenceElement
  <2>3. [workers[g] EXCEPT !.job = job] \in Workers
    BY <2>2 DEF Workers
  <2>4. workers' = [workers EXCEPT ![g] = [workers[g] EXCEPT !.job = job]]
    BY <1>3, <2>1, <2>2 DEF Post
  <2>5. workers' \in Seq(Workers) /\ Len(workers') = Len(workers)
    BY <1>1, <2>1, <2>3, <2>4, ReplaceOne
  <2>6. host' = h
    BY <1>3 DEF Post
  <2> QED BY <1>1, <2>5, <2>6 DEF HostPart
<1> QED BY <1>2, <1>3

LEMMA SessionTypes ==
    ASSUME TypeOK
    PROVE  /\ host \in Hosts /\ host.plan \in Plans
           /\ host.active \in {None} \cup Ids /\ host.plan.id \in {None} \cup Ids
           /\ Cleared(host) \in Hosts /\ Cleared(host).worker = host.worker
           /\ WithoutWorker(host) \in Hosts /\ WithoutWorker(host).worker = 0
<1>1. host \in Hosts
  BY DEF TypeOK
<1>2. host.plan \in Plans /\ host.active \in {None} \cup Ids
  BY <1>1 DEF Hosts
<1>3. host.plan.id \in {None} \cup Ids
  BY <1>2 DEF Plans
<1> QED BY <1>1, <1>2, <1>3, HostTypes

SessionPart == host \in Hosts /\ host.worker \in 0 .. Len(workers)

LEMMA SequenceErrorTypes ==
    ASSUME TypeOK, NEW frame \in Frames, OutOfSequence(frame)
    PROVE  HostPart' /\ Replied
<1>1. frame.id \in {None} \cup Ids
  BY DEF Frames
<1>2. Reply("error", frame.id) \in Replies /\ Reply("error", host.plan.id) \in Replies
  BY <1>1, SessionTypes, ReplyTypes
<1>3. workers \in Seq(Workers) /\ host.worker \in 0 .. Len(workers)
  BY DEF TypeOK
<1>4. CASE Answer(host, Reply("error", frame.id)) /\ UNCHANGED workers
  <2>1. host' \in Hosts /\ host'.worker = host.worker /\ Replied
    BY <1>2, <1>4, SessionTypes, AnswerTypes
  <2> QED BY <1>3, <1>4, <2>1 DEF HostPart
<1>5. CASE FailPlan /\ host.plan.phase = "processing"
  <2> DEFINE h == WithoutWorker(Cleared(host))
  <2>1. h \in Hosts /\ h.worker = 0
    BY SessionTypes, HostTypes
  <2>2. Answer(h, Reply("error", host.plan.id)) /\ workers' = Terminated(workers)
    BY <1>5 DEF FailPlan
  <2>3. host' \in Hosts /\ host'.worker = 0 /\ Replied
    BY <1>2, <2>1, <2>2, AnswerTypes
  <2>4. workers' \in Seq(Workers)
    BY <1>3, <2>2, TerminatedTypes
  <2>5. 0 \in 0 .. Len(workers')
    BY <2>4
  <2> QED BY <2>3, <2>4, <2>5 DEF HostPart
<1>6. CASE FailPlan /\ host.plan.phase # "processing"
  <2>1. Answer(Cleared(host), Reply("error", host.plan.id)) /\ UNCHANGED workers
    BY <1>6 DEF FailPlan
  <2>2. host' \in Hosts /\ host'.worker = host.worker /\ Replied
    BY <1>2, <2>1, SessionTypes, AnswerTypes
  <2> QED BY <1>3, <2>1, <2>2 DEF HostPart
<1> QED BY <1>4, <1>5, <1>6 DEF OutOfSequence

LEMMA PageTypes ==
    ASSUME TypeOK, NEW plan \in Plans, SendPage(plan)
    PROVE  host' \in Hosts /\ host'.worker = host.worker /\ Replied
<1>1. plan.id \in {None} \cup Ids /\ plan.cursor + 1 \in Nat
  BY DEF Plans
<1>2. /\ Reply("page", plan.id) \in Replies /\ Reply("error", plan.id) \in Replies
      /\ [Reply("page", plan.id) EXCEPT !.cursor = plan.cursor + 1] \in Replies
  BY <1>1, ReplyTypes
<1>3. [plan EXCEPT !.cursor = @ + 1] \in Plans
  BY <1>1 DEF Plans
<1>4. /\ [host EXCEPT !.plan = [plan EXCEPT !.cursor = @ + 1]] \in Hosts
      /\ [host EXCEPT !.plan = [plan EXCEPT !.cursor = @ + 1]].worker = host.worker
  BY <1>3, SessionTypes DEF Hosts
<1> QED BY <1>2, <1>4, SessionTypes, AnswerTypes DEF SendPage

LEMMA HandleTypes ==
    ASSUME TypeOK, NEW frame \in Frames, Handle(frame)
    PROVE  HostPart' /\ Replied
<1> DEFINE Same == host' \in Hosts /\ host'.worker = host.worker /\ Replied
<1>1. /\ frame.id \in {None} \cup Ids /\ frame.target \in {None} \cup Ids
      /\ frame.size \in Nat
  BY DEF Frames
<1>2. /\ Reply("error", frame.id) \in Replies /\ Reply("ready", frame.id) \in Replies
      /\ Reply("added", frame.id) \in Replies /\ Reply("canceled", host.active) \in Replies
      /\ Reply("cancel_result", None) \in Replies
  BY <1>1, SessionTypes, ReplyTypes
<1>3. ASSUME Same, UNCHANGED workers
      PROVE  HostPart' /\ Replied
  BY <1>3 DEF TypeOK, HostPart
<1>4. UNCHANGED toClient => Replied
  BY DEF Replied, TypeOK
<1>5. UNCHANGED <<host, workers, toClient>> => HostPart' /\ Replied
  BY <1>4 DEF TypeOK, HostPart
<1>6. ASSUME Dispatch(frame) PROVE HostPart' /\ Replied
  <2>1. /\ [host EXCEPT !.active = frame.id] \in Hosts
        /\ [host EXCEPT !.active = frame.id].worker = host.worker
    BY <1>1, SessionTypes DEF Hosts
  <2>2. CASE host.active # None
    BY <1>2, <1>3, <1>6, <2>2, SessionTypes, AnswerTypes DEF Dispatch
  <2>3. CASE host.active = None
    BY <1>1, <1>4, <1>6, <2>1, <2>3, PostTypes DEF Dispatch
  <2> QED BY <2>2, <2>3
<1>7. ASSUME BeginPlan(frame) PROVE Same
  <2> DEFINE plan == [NoPlan EXCEPT !.id = frame.id, !.phase = "upload", !.total = frame.size]
             h == [host EXCEPT !.active = frame.id, !.canceledPlan = None, !.plan = plan]
  <2>1. plan \in Plans
    BY <1>1 DEF NoPlan, Plans
  <2>2. h \in Hosts /\ h.worker = host.worker
    BY <1>1, <2>1, SessionTypes DEF Hosts
  <2>3. Answer(host, Reply("error", frame.id)) \/ Answer(h, Reply("ready", frame.id))
    BY <1>7 DEF BeginPlan
  <2> QED BY <1>2, <2>2, <2>3, SessionTypes, AnswerTypes
<1>8. ASSUME AddFiles(frame) PROVE HostPart' /\ Replied
  <2>1. host.plan.received + 1 \in Nat
    BY SessionTypes DEF Plans
  <2>2. [host.plan EXCEPT !.received = @ + 1] \in Plans
    BY <2>1, SessionTypes DEF Plans
  <2>3. /\ [host EXCEPT !.plan.received = @ + 1] \in Hosts
        /\ [host EXCEPT !.plan.received = @ + 1].worker = host.worker
    BY <2>2, SessionTypes DEF Hosts
  <2>4. CASE /\ Answer([host EXCEPT !.plan.received = @ + 1], Reply("added", frame.id))
             /\ UNCHANGED workers
    <3>1. Same
      BY <1>2, <2>3, <2>4, AnswerTypes
    <3> QED BY <1>3, <2>4, <3>1
  <2> QED BY <1>8, <2>4, SequenceErrorTypes DEF AddFiles
<1>9. ASSUME FinishPlan(frame) PROVE HostPart' /\ Replied
  <2>1. [host.plan EXCEPT !.phase = "processing"] \in Plans
    BY SessionTypes DEF Plans
  <2>2. /\ [host EXCEPT !.plan.phase = "processing"] \in Hosts
        /\ [host EXCEPT !.plan.phase = "processing"].worker = host.worker
    BY <2>1, SessionTypes DEF Hosts
  <2>3. \/ Post([host EXCEPT !.plan.phase = "processing"], frame.id) /\ UNCHANGED toClient
        \/ OutOfSequence(frame)
    BY <1>9 DEF FinishPlan
  <2> QED BY <1>1, <1>4, <2>2, <2>3, PostTypes, SequenceErrorTypes
<1>10. ASSUME NextPage(frame) PROVE HostPart' /\ Replied
  <2>1. CASE SendPage(host.plan) /\ UNCHANGED workers
    <3>1. Same
      BY <2>1, SessionTypes, PageTypes
    <3> QED BY <1>3, <2>1, <3>1
  <2> QED BY <1>10, <2>1, SequenceErrorTypes DEF NextPage
<1>11. ASSUME Cancel(frame) PROVE HostPart' /\ Replied
  <2>1. CASE ~FindsTarget(frame)
    BY <1>2, <1>3, <1>11, <2>1, SessionTypes, AnswerTypes DEF Cancel
  <2>2. CASE FindsTarget(frame)
    <3> DEFINE h == [host EXCEPT !.canceledPlan =
                        IF host.plan.id # None THEN host.active ELSE @]
    <3>1. h \in Hosts
      BY SessionTypes DEF Hosts
    <3>2. WithoutWorker(Cleared(h)) \in Hosts /\ WithoutWorker(Cleared(h)).worker = 0
      BY <3>1, HostTypes
    <3>3. host' = WithoutWorker(Cleared(h)) /\ workers' = Terminated(workers)
      BY <1>11, <2>2 DEF Cancel
    <3>4. workers' \in Seq(Workers)
      BY <3>3, TerminatedTypes DEF TypeOK
    <3>5. <<Reply("canceled", host.active), Reply("cancel_result", None)>> \in Seq(Replies)
      BY <1>2
    <3>6. toClient' = toClient \o <<Reply("canceled", host.active),
                                    Reply("cancel_result", None)>>
      BY <1>11, <2>2 DEF Cancel
    <3>7. toClient \in Seq(Replies)
      BY DEF TypeOK
    <3>8. Replied
      BY <3>5, <3>6, <3>7, ConcatProperties DEF Replied
    <3>9. 0 \in 0 .. Len(workers')
      BY <3>4
    <3> QED BY <3>2, <3>3, <3>4, <3>8, <3>9 DEF HostPart
  <2> QED BY <2>1, <2>2
<1>12. Exit(TRUE) => HostPart'
  BY ExitTypes DEF HostPart
<1> HIDE DEF Same
<1>13. ASSUME Same, UNCHANGED workers PROVE HostPart' /\ Replied
  BY <1>3, <1>13
<1> QED BY <1>4, <1>5, <1>6, <1>7, <1>8, <1>9, <1>10, <1>11, <1>12, <1>13 DEF Handle

LEMMA ReadFrameKeepsType ==
    ASSUME TypeOK, ReadFrame
    PROVE  TypeOK'
<1>1. Head(toHost) \in Frames /\ toHost' \in Seq(Frames)
  BY HeadTailProperties DEF TypeOK, ReadFrame
<1>2. HostPart' /\ Replied
  BY <1>1, HandleTypes DEF ReadFrame
<1> QED BY <1>1, <1>2 DEF ReadFrame, TypeOK, HostPart, Replied

LEMMA RequestEndTypes ==
    ASSUME TypeOK, NEW h \in Hosts, EndRequest(h)
    PROVE  host' \in Hosts /\ host'.worker = h.worker /\ Replied
<1>1. Reply("error", host.active) \in Replies
  BY SessionTypes, ReplyTypes
<1>2. \/ host' = h /\ UNCHANGED toClient
      \/ Answer(Cleared(h), Reply("error", host.active))
  BY DEF EndRequest
<1>3. UNCHANGED toClient => Replied
  BY DEF Replied, TypeOK
<1> QED BY <1>1, <1>2, <1>3, HostTypes, AnswerTypes

LEMMA ReplyTaken ==
    ASSUME TypeOK, NEW g, NEW message \in Messages,
           message.kind \in {"result", "error"}, TakeReply(g, message)
    PROVE  host' \in Hosts /\ host'.worker = host.worker /\ Replied
<1>1. CASE UNCHANGED <<host, toClient>>
  BY <1>1 DEF TypeOK, Replied
<1>2. ASSUME NEW pages \in 1 .. Pages,
             SendPage([host.plan EXCEPT !.phase = "result", !.pages = pages])
      PROVE  host' \in Hosts /\ host'.worker = host.worker /\ Replied
  <2>1. pages \in Nat
    OBVIOUS
  <2>2. [host.plan EXCEPT !.phase = "result", !.pages = pages] \in Plans
    BY <2>1, SessionTypes DEF Plans
  <2> QED BY <1>2, <2>2, PageTypes
<1>3. ASSUME NEW h \in {Cleared(host), [host EXCEPT !.active = None]},
             NEW kind \in {message.kind, "error"}, Answer(h, Reply(kind, message.id))
      PROVE  host' \in Hosts /\ host'.worker = host.worker /\ Replied
  <2>1. message.id \in {None} \cup Ids
    BY DEF Messages
  <2>2. Reply(kind, message.id) \in Replies
    BY <2>1, ReplyTypes
  <2>3. h \in Hosts /\ h.worker = host.worker
    BY SessionTypes DEF Hosts, None
  <2> QED BY <1>3, <2>2, <2>3, AnswerTypes
<1> QED BY <1>1, <1>2, <1>3 DEF TakeReply

LEMMA ReadMailKeepsType ==
    ASSUME TypeOK, NEW g \in DOMAIN workers, ReadMail(g)
    PROVE  TypeOK'
<1> DEFINE message == Head(workers[g].mail)
           w == [workers[g] EXCEPT !.mail = Tail(@)]
           read == [workers EXCEPT ![g].mail = Tail(@)]
<1>1. workers \in Seq(Workers) /\ host \in Hosts /\ host.worker \in 0 .. Len(workers)
  BY DEF TypeOK
<1>2. workers[g] \in Workers
  BY <1>1, SequenceElement
<1>3. workers[g].mail \in Seq(Messages) /\ workers[g].mail # <<>>
  BY <1>2 DEF Workers, ReadMail
<1>4. message \in Messages /\ Tail(workers[g].mail) \in Seq(Messages)
  BY <1>3, HeadTailProperties
<1>5. w \in Workers /\ StopCompiler(w) \in Workers
  <2>1. w \in Workers
    BY <1>2, <1>4 DEF Workers
  <2> HIDE DEF w
  <2> QED BY <2>1, WorkerTypes
<1>6. read = [workers EXCEPT ![g] = w]
  OBVIOUS
<1>7. read \in Seq(Workers) /\ Len(read) = Len(workers)
  BY <1>1, <1>5, <1>6, ReplaceOne
<1>8. /\ [read EXCEPT ![g] = StopCompiler(@)] \in Seq(Workers)
      /\ Len([read EXCEPT ![g] = StopCompiler(@)]) = Len(workers)
  <2>1. g \in DOMAIN read /\ read[g] = w
    BY <1>6
  <2> QED BY <1>5, <1>7, <2>1, ReplaceOne
<1>9. /\ Terminated(read) \in Seq(Workers)
      /\ Len(Terminated(read)) = Len(workers)
  BY <1>7, TerminatedTypes
<1>10. g \in Nat
  BY <1>1
<1>11. UNCHANGED toClient => Replied
  BY DEF Replied, TypeOK
<1>12. workers' \in Seq(Workers) /\ Len(workers') = Len(workers)
  BY <1>7, <1>8, <1>9 DEF ReadMail, Register
<1>13. host' \in Hosts /\ host'.worker \in {0, host.worker} /\ Replied
  <2>1. CASE Register(g, read) /\ UNCHANGED toClient
    BY <1>1, <1>10, <1>11, <2>1 DEF Register, Hosts
  <2>2. CASE host' = [host EXCEPT !.children = @ \ {g}] /\ UNCHANGED toClient
    BY <1>1, <1>11, <2>2 DEF Hosts
  <2>3. CASE message.kind \in {"result", "error"} /\ TakeReply(g, message)
    BY <1>4, <2>3, ReplyTaken
  <2>4. CASE UNCHANGED <<host, toClient>>
    BY <1>1, <1>11, <2>4
  <2>5. CASE EndRequest(WithoutWorker(host))
    BY <2>5, SessionTypes, RequestEndTypes
  <2> QED BY <2>1, <2>2, <2>3, <2>4, <2>5 DEF ReadMail
<1>14. host'.worker \in 0 .. Len(workers')
  BY <1>1, <1>12, <1>13
<1> QED BY <1>12, <1>13, <1>14 DEF ReadMail, TypeOK, Replied

LEMMA HostFailsKeepsType ==
    ASSUME TypeOK, HostFails
    PROVE  TypeOK'
<1>1. HostPart'
  BY ExitTypes DEF HostFails, HostPart
<1>2. spent' \in [cancels : 0 .. Cancels, failures : 0 .. Failures]
  <2>1. spent.failures + 1 \in 0 .. Failures
    BY ConstantTypes DEF HostFails, TypeOK
  <2> QED BY <2>1 DEF HostFails, TypeOK
<1> QED BY <1>1, <1>2 DEF HostFails, TypeOK, HostPart

-----------------------------------------------------------------------------
(* The workers.                                                            *)

LEMMA PostsTypes ==
    ASSUME TypeOK, NEW g \in DOMAIN workers, NEW messages \in Seq(Messages),
           NEW w \in Workers, Posts(g, messages, w)
    PROVE  workers' \in Seq(Workers) /\ Len(workers') = Len(workers)
<1>1. w.mail \in Seq(Messages)
  BY DEF Workers
<1>2. w.mail \o messages \in Seq(Messages)
  BY <1>1, ConcatProperties
<1>3. [w EXCEPT !.mail = @ \o messages] \in Workers
  BY <1>2 DEF Workers
<1> QED BY <1>3, ReplaceOne DEF Posts, TypeOK

LEMMA WorkerKeepsType ==
    ASSUME TypeOK, NEW g \in DOMAIN workers, Worker(g)
    PROVE  TypeOK'
<1>1. workers[g] \in Workers
  BY SequenceElement DEF TypeOK
<1>2. workers[g].job \in {None} \cup Ids
  BY <1>1 DEF Workers
<1>3. \A kind \in {"compiler_child", "compiler_child_exit", "result", "error", "failed",
                   "exited"}, id \in {None} \cup Ids : Mail(kind, id) \in Messages
  BY DEF Mail, Messages
<1>4. workers' \in Seq(Workers) /\ Len(workers') = Len(workers)
  <2>1. CASE Spawn(g)
    <3>1. [workers[g] EXCEPT !.compiler = "running"] \in Workers
      BY <1>1 DEF Workers
    <3>2. <<Mail("compiler_child", None)>> \in Seq(Messages)
      BY <1>3
    <3> QED BY <2>1, <3>1, <3>2, PostsTypes DEF Spawn
  <2>2. CASE CompilerExits(g)
    <3>1. [workers[g] EXCEPT !.compiler = "stopped"] \in Workers
      BY <1>1 DEF Workers
    <3>2. <<Mail("compiler_child_exit", None)>> \in Seq(Messages)
      BY <1>3
    <3> QED BY <2>2, <3>1, <3>2, PostsTypes DEF CompilerExits
  <2>3. CASE WorkerReplies(g)
    <3>1. [workers[g] EXCEPT !.job = None] \in Workers
      BY <1>1 DEF Workers
    <3>2. \A kind \in {"result", "error"} : <<Mail(kind, workers[g].job)>> \in Seq(Messages)
      BY <1>2, <1>3
    <3> QED BY <2>3, <3>1, <3>2, PostsTypes DEF WorkerReplies
  <2>4. CASE WorkerFails(g) \/ WorkerStops(g)
    <3>1. [workers[g] EXCEPT !.state = "dead", !.job = None] \in Workers
      BY <1>1 DEF Workers
    <3>2. /\ <<Mail("failed", None), Mail("exited", None)>> \in Seq(Messages)
          /\ <<Mail("exited", None)>> \in Seq(Messages)
      BY <1>3
    <3> QED BY <2>4, <3>1, <3>2, PostsTypes DEF WorkerFails, WorkerStops
  <2> QED BY <2>1, <2>2, <2>3, <2>4 DEF Worker
<1>5. OthersUnchanged
  BY DEF Worker, Spawn, CompilerExits, WorkerReplies, WorkerFails, WorkerStops
<1>6. spent' \in [cancels : 0 .. Cancels, failures : 0 .. Failures]
  <2>1. CASE UNCHANGED spent
    BY <2>1 DEF TypeOK
  <2>2. CASE WorkerFails(g)
    <3>1. spent.failures + 1 \in 0 .. Failures
      BY <2>2, ConstantTypes DEF WorkerFails, TypeOK
    <3> QED BY <2>2, <3>1 DEF WorkerFails, TypeOK
  <2> QED BY <2>1, <2>2 DEF Worker, Spawn, CompilerExits, WorkerReplies, WorkerStops
<1> QED BY <1>4, <1>5, <1>6 DEF OthersUnchanged, TypeOK

(* Type correctness.                                                       *)
THEOREM TypeCorrect == Spec => []TypeOK
<1>1. Init => TypeOK
  <2> SUFFICES ASSUME Init PROVE TypeOK
    OBVIOUS
  <2>1. client \in Clients
    BY ClientTypes DEF Init
  <2>2. host \in Hosts /\ host.worker \in 0 .. Len(workers)
    BY DEF Init, Hosts, Plans, NoPlan, None
  <2>3. /\ toHost \in Seq(Frames) /\ toClient \in Seq(Replies)
        /\ workers \in Seq(Workers) /\ outcome \in Seq(Ends)
    BY DEF Init
  <2>4. spent \in [cancels : 0 .. Cancels, failures : 0 .. Failures]
    BY ConstantTypes DEF Init
  <2>5. aim \in [Controllers -> {None} \cup Ids] /\ active \in {None} \cup Ids
    BY DEF Init
  <2> QED BY <2>1, <2>2, <2>3, <2>4, <2>5 DEF Init, TypeOK
<1>2. TypeOK /\ [Next]_vars => TypeOK'
  <2>1. TypeOK /\ UNCHANGED vars => TypeOK'
    BY DEF vars, TypeOK
  <2>2. Done => UNCHANGED vars
    BY DEF Done
  <2> QED BY <2>1, <2>2, ClientKeepsType, ControlKeepsType, ReadFrameKeepsType,
             HostFailsKeepsType, ReadMailKeepsType, WorkerKeepsType DEF Next
<1> QED BY <1>1, <1>2, PTL DEF Spec

-----------------------------------------------------------------------------
(* Safe cancellation.  The target of a cancel is among the requests asked  *)
(* for wherever it is: in the hand of the thread that read it, in a frame   *)
(* on stdin, in a reply on stdout.                                          *)

AskedFrames == {f \in Frames : f.kind = "cancel" => f.target \in asked}

AskedReplies == {r \in Replies : r.kind = "canceled" => r.id \in asked}

RightOutcome ==
    /\ client.pc = "calling" => client.id = Len(outcome) + 1
    /\ CanceledWasAsked

CancelTrail ==
    /\ \A c \in Controllers : aim[c] # None => aim[c] \in asked
    /\ toHost \in Seq(AskedFrames)
    /\ toClient \in Seq(AskedReplies)
    /\ RightOutcome

LEMMA SeqOfSuperset ==
    ASSUME NEW S, NEW T, S \subseteq T, NEW s \in Seq(S)
    PROVE  s \in Seq(T)
OBVIOUS

LEMMA RecordIsRight ==
    ASSUME TypeOK, RightOutcome, NEW how \in Ends, Record(how), asked' = asked,
           how = "canceled" => Len(outcome) + 1 \in asked
    PROVE  CanceledWasAsked'
<1>1. outcome \in Seq(Ends) /\ outcome' = Append(outcome, how)
  BY DEF TypeOK, Record
<1>2. SUFFICES ASSUME NEW id \in DOMAIN outcome', outcome'[id] = "canceled"
               PROVE  id \in asked
  BY DEF CanceledWasAsked
<1>3. CASE id \in DOMAIN outcome
  <2>1. outcome'[id] = outcome[id]
    BY <1>1, <1>3
  <2> QED BY <1>2, <1>3, <2>1 DEF RightOutcome, CanceledWasAsked
<1>4. CASE id = Len(outcome) + 1
  <2>1. outcome'[id] = how
    BY <1>1, <1>4
  <2> QED BY <1>2, <1>4, <2>1
<1> QED BY <1>1, <1>3, <1>4

LEMMA EndIsRight ==
    ASSUME TypeOK, RightOutcome, NEW how \in Ends, Return(how) \/ Poison(how), asked' = asked,
           how = "canceled" => Len(outcome) + 1 \in asked
    PROVE  RightOutcome'
<1>1. Record(how) /\ client'.pc # "calling"
  BY DEF Return, Poison, Idle
<1> QED BY <1>1, RecordIsRight DEF RightOutcome

LEMMA WriteIsRight ==
    ASSUME TypeOK, RightOutcome, NEW frame \in AskedFrames, toHost \in Seq(AskedFrames),
           NEW state, state.pc = client.pc, state.id = client.id,
           Write(frame, state), asked' = asked
    PROVE  RightOutcome' /\ toHost' \in Seq(AskedFrames)
<1>1. CASE host.up
  <2>1. toHost' = Append(toHost, frame) /\ client' = state /\ UNCHANGED outcome
    BY <1>1 DEF Write
  <2>2. toHost' \in Seq(AskedFrames)
    BY <2>1, AppendProperties
  <2> QED BY <2>1, <2>2 DEF RightOutcome, CanceledWasAsked
<1>2. CASE ~host.up
  BY <1>2, EndIsRight DEF Write, Ends
<1> QED BY <1>1, <1>2

LEMMA ClientKeepsTrail ==
    ASSUME TypeOK, CancelTrail, Client
    PROVE  CancelTrail'
<1>1. UNCHANGED <<aim, asked>>
  BY DEF Client, Begin, Receive, Timeout, SeeExit, Drop, Close
<1>2. toHost' \in Seq(AskedFrames) /\ toClient' \in Seq(AskedReplies) /\ RightOutcome'
  <2>1. CASE Begin
    <3>1. RightOutcome'
      <4>1. CASE host.up
        BY <1>1, <2>1, <4>1 DEF Begin, CancelTrail, RightOutcome, CanceledWasAsked, Idle
      <4>2. CASE ~host.up
        BY <1>1, <2>1, <4>2, EndIsRight DEF Begin, CancelTrail, Ends
      <4> QED BY <4>1, <4>2
    <3>2. toHost' \in Seq(AskedFrames)
      <4> DEFINE Opening(kind, chunks) == IF kind = "plan"
                                          THEN Upload(Len(outcome) + 1, chunks)
                                          ELSE Frame(kind, Len(outcome) + 1)
      <4>1. PICK kind \in Kinds, chunks \in 0 .. Chunks :
               toHost' \in {toHost, Append(toHost, Opening(kind, chunks))}
        BY <2>1 DEF Begin
      <4>2. Len(outcome) + 1 \in {None} \cup Ids /\ chunks \in Nat
        BY <2>1, ConstantTypes, SidecarAssumption DEF Begin, TypeOK, Ids
      <4>3. Opening(kind, chunks) \in Frames
        BY <4>2, FrameTypes DEF Kinds
      <4>4. Opening(kind, chunks).kind # "cancel"
        BY DEF Frame, Upload, Kinds
      <4>5. Opening(kind, chunks) \in AskedFrames
        BY <4>3, <4>4 DEF AskedFrames
      <4> HIDE DEF Opening
      <4> QED BY <4>1, <4>5, AppendProperties DEF CancelTrail
    <3> QED BY <2>1, <3>1, <3>2 DEF Begin, CancelTrail, AskedReplies
  <2>2. CASE Receive
    <3> DEFINE message == Head(toClient)
    <3>1. message \in AskedReplies /\ toClient' \in Seq(AskedReplies)
      BY <1>1, <2>2, HeadTailProperties DEF Receive, CancelTrail, AskedReplies
    <3>2. client.id = Len(outcome) + 1
      BY <2>2 DEF Receive, CancelTrail, RightOutcome
    <3>3. client.id \in {None} \cup Ids /\ message.cursor \in Nat
      BY <3>1 DEF TypeOK, Clients, AskedReplies, Replies
    <3>4. /\ Frame("plan_add", client.id) \in AskedFrames
          /\ Frame("plan_finish", client.id) \in AskedFrames
          /\ NextFrame(client.id, message.cursor) \in AskedFrames
      <4>1. /\ Frame("plan_add", client.id) \in Frames
            /\ Frame("plan_finish", client.id) \in Frames
            /\ NextFrame(client.id, message.cursor) \in Frames
        BY <3>3, FrameTypes DEF PlanFrames
      <4> QED BY <4>1 DEF Frame, NextFrame, AskedFrames
    <3>5. ASSUME Accept(message), Expected(message)
          PROVE  toHost' \in Seq(AskedFrames) /\ RightOutcome'
      <4>1. CASE UNCHANGED <<client, active, toHost, outcome>>
        BY <1>1, <4>1 DEF CancelTrail, RightOutcome, CanceledWasAsked, AskedFrames
      <4>2. CASE message.kind \in {"result", "error", "canceled"} /\ Return(message.kind)
                 /\ UNCHANGED toHost
        <5>1. message.id = client.id
          BY <3>5, <4>2 DEF Expected
        <5>2. message.kind = "canceled" => Len(outcome) + 1 \in asked
          BY <3>1, <3>2, <5>1 DEF AskedReplies
        <5>3. message.kind \in Ends
          BY <4>2 DEF Ends
        <5>4. RightOutcome'
          BY <1>1, <4>2, <5>2, <5>3, EndIsRight DEF CancelTrail
        <5> QED BY <1>1, <4>2, <5>4 DEF CancelTrail, AskedFrames
      <4>3. CASE UploadNext
        <5>1. /\ [client EXCEPT !.sent = @ + 1].pc = client.pc
              /\ [client EXCEPT !.sent = @ + 1].id = client.id
              /\ [client EXCEPT !.paging = TRUE].pc = client.pc
              /\ [client EXCEPT !.paging = TRUE].id = client.id
          BY DEF TypeOK, Clients
        <5> QED BY <1>1, <3>4, <4>3, <5>1, WriteIsRight DEF UploadNext, CancelTrail
      <4>4. CASE Write(NextFrame(client.id, message.cursor), client)
        BY <1>1, <3>4, <4>4, WriteIsRight DEF CancelTrail
      <4>5. CASE Return("result") /\ UNCHANGED toHost
        BY <1>1, <4>5, EndIsRight DEF CancelTrail, AskedFrames, Ends
      <4> QED BY <3>5, <4>1, <4>2, <4>3, <4>4, <4>5 DEF Accept
    <3>6. ASSUME Reject(message)
          PROVE  toHost' \in Seq(AskedFrames) /\ RightOutcome'
      BY <1>1, <3>6, EndIsRight DEF Reject, CancelTrail, AskedFrames, Ends
    <3> QED BY <2>2, <3>1, <3>5, <3>6 DEF Receive
  <2>3. CASE Timeout \/ SeeExit
    <3>1. RightOutcome'
      BY <1>1, <2>3, EndIsRight DEF Timeout, SeeExit, CancelTrail, Ends
    <3> QED BY <1>1, <2>3, <3>1 DEF Timeout, SeeExit, CancelTrail, AskedFrames, AskedReplies
  <2>4. CASE Drop
    <3>1. Frame("shutdown", None) \in AskedFrames
      BY FrameTypes DEF Frame, AskedFrames
    <3>2. toHost' \in {toHost, Append(toHost, Frame("shutdown", None))}
      BY <2>4 DEF Drop
    <3>3. toHost \in Seq(AskedFrames) /\ toHost' \in Seq(AskedFrames)
      BY <3>1, <3>2, AppendProperties DEF CancelTrail
    <3>4. client'.pc # "calling" /\ outcome' = outcome
      BY <2>4 DEF Drop, TypeOK, Clients
    <3>5. RightOutcome'
      BY <1>1, <3>4 DEF CancelTrail, RightOutcome, CanceledWasAsked
    <3> QED BY <1>1, <2>4, <3>3, <3>5 DEF Drop, CancelTrail, AskedFrames, AskedReplies
  <2>5. CASE Close
    <3>1. client'.pc # "calling" /\ UNCHANGED <<outcome, toHost, toClient>>
      BY <2>5 DEF Close, TypeOK, Clients
    <3> QED BY <1>1, <3>1 DEF CancelTrail, RightOutcome, CanceledWasAsked, AskedFrames,
                              AskedReplies
  <2> QED BY <2>1, <2>2, <2>3, <2>4, <2>5 DEF Client
<1>3. Seq(AskedFrames) = Seq(AskedFrames)' /\ Seq(AskedReplies) = Seq(AskedReplies)'
  BY <1>1 DEF AskedFrames, AskedReplies
<1> QED BY <1>1, <1>2, <1>3 DEF CancelTrail

LEMMA ControlKeepsTrail ==
    ASSUME TypeOK, CancelTrail, NEW c \in Controllers, Control(c)
    PROVE  CancelTrail'
<1>1. UNCHANGED <<client, outcome, toClient>> /\ asked \subseteq asked'
  BY DEF Control, ReadTarget, WriteCancel
<1>2. RightOutcome'
  BY <1>1 DEF CancelTrail, RightOutcome, CanceledWasAsked
<1>3. AskedFrames \subseteq AskedFrames' /\ AskedReplies \subseteq AskedReplies'
  BY <1>1 DEF AskedFrames, AskedReplies
<1>4. toClient' \in Seq(AskedReplies')
  BY <1>1, <1>3, SeqOfSuperset DEF CancelTrail
<1>5. /\ \A b \in Controllers : aim'[b] # None => aim'[b] \in asked'
      /\ toHost' \in Seq(AskedFrames')
  <2>1. CASE ReadTarget(c)
    <3>1. toHost' \in Seq(AskedFrames')
      BY <1>3, <2>1, SeqOfSuperset DEF ReadTarget, CancelTrail
    <3> QED BY <2>1, <3>1 DEF ReadTarget, TypeOK, CancelTrail
  <2>2. CASE WriteCancel(c)
    <3> DEFINE frame == [Frame("cancel", None) EXCEPT !.target = aim[c]]
    <3>1. aim[c] \in Ids /\ aim[c] \in asked
      BY <2>2 DEF WriteCancel, TypeOK, CancelTrail
    <3>2. frame \in AskedFrames
      <4>1. frame \in Frames
        BY <3>1, FrameTypes
      <4>2. frame.target = aim[c]
        BY DEF Frame
      <4> QED BY <3>1, <4>1, <4>2 DEF AskedFrames
    <3>3. toHost' \in {toHost, Append(toHost, frame)} /\ asked' = asked
      BY <2>2 DEF WriteCancel
    <3>4. toHost' \in Seq(AskedFrames)
      <4> HIDE DEF frame
      <4>1. toHost \in Seq(AskedFrames)
        BY DEF CancelTrail
      <4>2. Append(toHost, frame) \in Seq(AskedFrames)
        BY <3>2, <4>1, AppendProperties
      <4> QED BY <3>3, <4>1, <4>2
    <3>5. AskedFrames' = AskedFrames
      BY <3>3 DEF AskedFrames
    <3>6. \A b \in Controllers : aim'[b] # None => aim'[b] \in asked'
      BY <2>2 DEF WriteCancel, TypeOK, CancelTrail
    <3> QED BY <3>4, <3>5, <3>6
  <2> QED BY <2>1, <2>2 DEF Control
<1> QED BY <1>2, <1>4, <1>5 DEF CancelTrail

(* A reply of the host is not a cancellation, except that to a cancel.     *)

LEMMA AnswerIsRight ==
    ASSUME toClient \in Seq(AskedReplies), NEW h, NEW id \in {None} \cup Ids,
           NEW cursor \in Nat,
           NEW kind \in {"result", "error", "ready", "added", "page", "cancel_result"},
           Answer(h, [Reply(kind, id) EXCEPT !.cursor = cursor])
    PROVE  toClient' \in Seq(AskedReplies)
<1>1. [Reply(kind, id) EXCEPT !.cursor = cursor] \in Replies
  BY ReplyTypes
<1>2. [Reply(kind, id) EXCEPT !.cursor = cursor].kind # "canceled"
  BY DEF Reply
<1>3. [Reply(kind, id) EXCEPT !.cursor = cursor] \in AskedReplies
  BY <1>1, <1>2 DEF AskedReplies
<1> QED BY <1>3, AppendProperties DEF Answer

LEMMA PlainAnswerIsRight ==
    ASSUME toClient \in Seq(AskedReplies), NEW h, NEW id \in {None} \cup Ids,
           NEW kind \in {"result", "error", "ready", "added", "page", "cancel_result"},
           Answer(h, Reply(kind, id))
    PROVE  toClient' \in Seq(AskedReplies)
<1>1. Reply(kind, id) = [Reply(kind, id) EXCEPT !.cursor = 0]
  BY DEF Reply
<1>2. Answer(h, [Reply(kind, id) EXCEPT !.cursor = 0])
  BY <1>1 DEF Answer
<1> QED BY <1>2, AnswerIsRight, 0 \in Nat

LEMMA PageIsRight ==
    ASSUME TypeOK, toClient \in Seq(AskedReplies), NEW plan \in Plans, SendPage(plan)
    PROVE  toClient' \in Seq(AskedReplies)
<1>1. plan.id \in {None} \cup Ids /\ plan.cursor + 1 \in Nat
  BY DEF Plans
<1> QED BY <1>1, PlainAnswerIsRight, AnswerIsRight DEF SendPage

LEMMA SequenceErrorIsRight ==
    ASSUME TypeOK, toClient \in Seq(AskedReplies), NEW frame \in Frames, OutOfSequence(frame)
    PROVE  toClient' \in Seq(AskedReplies)
<1>1. frame.id \in {None} \cup Ids /\ host.plan.id \in {None} \cup Ids
  BY SessionTypes DEF Frames
<1> QED BY <1>1, PlainAnswerIsRight DEF OutOfSequence, FailPlan

LEMMA ReadFrameKeepsTrail ==
    ASSUME TypeOK, CancelTrail, ReadFrame
    PROVE  CancelTrail'
<1> DEFINE frame == Head(toHost)
<1>1. UNCHANGED <<client, aim, asked, outcome>>
  BY DEF ReadFrame
<1>2. toHost' \in Seq(AskedFrames) /\ frame \in AskedFrames
  BY HeadTailProperties DEF ReadFrame, CancelTrail
<1>3. frame \in Frames /\ frame.id \in {None} \cup Ids /\ frame.target \in {None} \cup Ids
  BY <1>2 DEF AskedFrames, Frames
<1>4. toClient \in Seq(AskedReplies)
  BY DEF CancelTrail
<1>5. toClient' \in Seq(AskedReplies)
  <2>1. CASE UNCHANGED toClient
    BY <1>4, <2>1
  <2>2. CASE Dispatch(frame) \/ BeginPlan(frame)
    BY <1>3, <1>4, <2>2, PlainAnswerIsRight DEF Dispatch, BeginPlan
  <2>3. CASE AddFiles(frame) \/ FinishPlan(frame)
    BY <1>3, <1>4, <2>3, PlainAnswerIsRight, SequenceErrorIsRight DEF AddFiles, FinishPlan
  <2>4. CASE NextPage(frame)
    BY <1>3, <1>4, <2>4, SessionTypes, PageIsRight, SequenceErrorIsRight DEF NextPage
  <2>5. CASE Cancel(frame) /\ frame.kind = "cancel"
    <3>1. CASE ~FindsTarget(frame)
      BY <1>4, <2>5, <3>1, PlainAnswerIsRight DEF Cancel
    <3>2. CASE FindsTarget(frame)
      <4>1. Reply("canceled", host.active) \in AskedReplies
        <5>1. frame.target \in asked /\ host.active = frame.target
          BY <1>2, <2>5, <3>2 DEF AskedFrames, FindsTarget
        <5>2. Reply("canceled", host.active) \in Replies
          BY SessionTypes, ReplyTypes
        <5> QED BY <5>1, <5>2 DEF AskedReplies, Reply
      <4>2. Reply("cancel_result", None) \in AskedReplies
        <5>1. Reply("cancel_result", None) \in Replies
          BY ReplyTypes
        <5> QED BY <5>1 DEF AskedReplies, Reply
      <4>3. <<Reply("canceled", host.active), Reply("cancel_result", None)>>
               \in Seq(AskedReplies)
        BY <4>1, <4>2
      <4>4. toClient' = toClient \o <<Reply("canceled", host.active),
                                      Reply("cancel_result", None)>>
        BY <2>5, <3>2 DEF Cancel
      <4> QED BY <1>4, <4>3, <4>4, ConcatProperties
    <3> QED BY <3>1, <3>2
  <2> QED BY <2>1, <2>2, <2>3, <2>4, <2>5 DEF ReadFrame, Handle
<1>6. RightOutcome'
  BY <1>1 DEF CancelTrail, RightOutcome, CanceledWasAsked
<1>7. AskedFrames' = AskedFrames /\ AskedReplies' = AskedReplies
  BY <1>1 DEF AskedFrames, AskedReplies
<1> QED BY <1>1, <1>2, <1>5, <1>6, <1>7 DEF CancelTrail

LEMMA ReadMailKeepsTrail ==
    ASSUME TypeOK, CancelTrail, NEW g \in DOMAIN workers, ReadMail(g)
    PROVE  CancelTrail'
<1> DEFINE message == Head(workers[g].mail)
<1>1. UNCHANGED <<client, aim, toHost, asked, outcome>>
  BY DEF ReadMail
<1>2. message \in Messages
  <2>1. workers[g] \in Workers
    BY SequenceElement DEF TypeOK
  <2>2. workers[g].mail \in Seq(Messages) /\ workers[g].mail # <<>>
    BY <2>1 DEF Workers, ReadMail
  <2> QED BY <2>2, HeadTailProperties
<1>3. message.id \in {None} \cup Ids
  BY <1>2 DEF Messages
<1>4. toClient \in Seq(AskedReplies)
  BY DEF CancelTrail
<1>5. toClient' \in Seq(AskedReplies)
  <2>1. CASE UNCHANGED toClient
    BY <1>4, <2>1
  <2>2. CASE message.kind \in {"result", "error"} /\ TakeReply(g, message)
    <3>1. ASSUME NEW h, NEW kind \in {message.kind, "error"}, Answer(h, Reply(kind, message.id))
          PROVE  toClient' \in Seq(AskedReplies)
      BY <1>3, <1>4, <2>2, <3>1, PlainAnswerIsRight
    <3>2. ASSUME NEW pages \in 1 .. Pages,
                 SendPage([host.plan EXCEPT !.phase = "result", !.pages = pages])
          PROVE  toClient' \in Seq(AskedReplies)
      <4>1. pages \in Nat
        OBVIOUS
      <4>2. [host.plan EXCEPT !.phase = "result", !.pages = pages] \in Plans
        BY <4>1, SessionTypes DEF Plans
      <4> QED BY <1>4, <3>2, <4>2, PageIsRight
    <3> QED BY <2>1, <2>2, <3>1, <3>2 DEF TakeReply
  <2>3. CASE EndRequest(WithoutWorker(host))
    BY <1>4, <2>1, <2>3, SessionTypes, PlainAnswerIsRight DEF EndRequest
  <2> QED BY <2>1, <2>2, <2>3 DEF ReadMail
<1>6. RightOutcome'
  BY <1>1 DEF CancelTrail, RightOutcome, CanceledWasAsked
<1>7. AskedFrames' = AskedFrames /\ AskedReplies' = AskedReplies
  BY <1>1 DEF AskedFrames, AskedReplies
<1> QED BY <1>1, <1>5, <1>6, <1>7 DEF CancelTrail

(* However late a cancel arrives, it never ends a request nobody asked to   *)
(* cancel.                                                                  *)
THEOREM CancelSafe == Spec => []CanceledWasAsked
<1>1. Init => CancelTrail
  BY DEF Init, CancelTrail, RightOutcome, CanceledWasAsked, Idle
<1>2. TypeOK /\ CancelTrail /\ [Next]_vars => CancelTrail'
  <2>1. ASSUME CancelTrail, UNCHANGED <<client, aim, toHost, toClient, asked, outcome>>
        PROVE  CancelTrail'
    BY <2>1 DEF CancelTrail, RightOutcome, CanceledWasAsked, AskedFrames, AskedReplies
  <2>2. HostFails \/ Done \/ UNCHANGED vars
            => UNCHANGED <<client, aim, toHost, toClient, asked, outcome>>
    BY DEF HostFails, Done, vars
  <2>3. \A g \in DOMAIN workers :
            Worker(g) => UNCHANGED <<client, aim, toHost, toClient, asked, outcome>>
    BY DEF Worker, Spawn, CompilerExits, WorkerReplies, WorkerFails, WorkerStops,
           OthersUnchanged
  <2> QED BY <2>1, <2>2, <2>3, ClientKeepsTrail, ControlKeepsTrail, ReadFrameKeepsTrail,
             ReadMailKeepsTrail DEF Next
<1>3. CancelTrail => CanceledWasAsked
  BY DEF CancelTrail, RightOutcome
<1> QED BY <1>1, <1>2, <1>3, TypeCorrect, PTL DEF Spec

(* The state keeps its types, and no late cancel ends a request nobody      *)
(* asked to cancel.                                                         *)
THEOREM CancelsAreSound == Spec => []CancelSound
<1>1. TypeOK /\ CanceledWasAsked => CancelSound
  BY DEF CancelSound
<1> QED BY <1>1, TypeCorrect, CancelSafe, PTL

-----------------------------------------------------------------------------
(* The conversation of the client and the host.  A request is one message   *)
(* at a time: a frame on stdin, or the host or its worker at work, or one    *)
(* reply on stdout; only an answer that ends the request may overtake what   *)
(* the client has still to read or the host to discard.  The pipes are read  *)
(* as the sets of what they hold, and as ordered where the order matters.    *)

Contents(s) == {s[i] : i \in DOMAIN s}

Openings == {"capabilities", "batch", "plan_begin"}
Ended == 1 .. Len(outcome)
Speaking == client.pc \in {"idle", "calling"}
Working == host.active # None /\ host.plan.phase \in {"none", "processing"}
InHand(m) == m.id # None /\ m.id = client.id
Final(m) == m.kind \in {"result", "error", "canceled"} \/ (m.kind = "page" /\ m.cursor = 0)

(* What the client may have written, and may be told, where it stands.      *)
FrameFits(f) ==
    \/ f.kind \in {"capabilities", "batch"} /\ client.kind # "plan"
    \/ /\ client.kind = "plan"
       /\ \/ f.kind = "plan_begin" /\ client.sent = 0 /\ ~client.paging
          \/ f.kind = "plan_add" /\ client.sent > 0 /\ ~client.paging
          \/ f.kind \in {"plan_finish", "plan_next"} /\ client.paging

ReplyFits(m) ==
    \/ m.kind \in {"error", "canceled"}
    \/ m.kind = "result" /\ client.kind # "plan"
    \/ /\ client.kind = "plan"
       /\ \/ m.kind = "ready" /\ client.sent = 0 /\ ~client.paging
          \/ m.kind = "added" /\ client.sent > 0 /\ ~client.paging
          \/ m.kind = "page" /\ client.paging

ClientTurn ==
    /\ client.pc = "calling" => client.id = Len(outcome) + 1
    /\ client.pc # "calling" => client.id = None
    /\ active \in {None, client.id}

HostTurn ==
    /\ host.active \in {None, client.id}
    /\ host.plan # NoPlan =>
          /\ host.active # None /\ host.plan.id = host.active
          /\ host.plan.phase # "none" /\ client.kind = "plan"
    /\ host.active # None /\ host.plan = NoPlan => client.kind # "plan"
    /\ host.plan.phase \in {"processing", "result"} => client.paging

InOrder(frames) ==
    \A i, j \in DOMAIN frames :
        i < j /\ frames[j].id # None => frames[i].id < frames[j].id

(* A cancel, a frame of a request that has ended, which no longer opens      *)
(* anything, or the frame of the request in hand.                            *)
FrameFound(f) ==
    \/ f.id = None /\ f.kind = "cancel" /\ f.target # None
    \/ f.id \in Ended /\ f.kind \in PlanFrames \ Openings /\ host.active = None
    \/ /\ InHand(f) /\ FrameFits(f) /\ ~Working
       /\ f.kind \in Openings => host.active = None

Discarded(f) == f.id # None /\ f.kind \notin Openings => f.id = host.canceledPlan

FramesTurn ==
    /\ \A f \in Contents(toHost) : FrameFound(f)
    /\ InOrder(toHost)
    /\ ~IdleFailure /\ host.active = None => \A f \in Contents(toHost) : Discarded(f)

EndsLast(replies, id) ==
    \A i, j \in DOMAIN replies :
        i < j /\ replies[i].id = id /\ replies[j].id = id =>
            Final(replies[j]) /\ (Final(replies[i]) => IdleFailure)

(* The reply to a cancel, an error for a request that has ended, or a reply *)
(* of the request in hand: then it is the client's turn.                    *)
ReplyFound(m) ==
    \/ m.id = None /\ m.kind = "cancel_result"
    \/ m.id \in Ended /\ IdleFailure
    \/ /\ InHand(m) /\ ReplyFits(m)
       /\ Final(m) => host.active = None
       /\ ~Final(m) =>
             ~Working /\ (~IdleFailure /\ host.active = None => m.id = host.canceledPlan)
       /\ \A f \in Contents(toHost) : InHand(f) => Final(m) /\ f.kind \notin Openings

RepliesTurn ==
    /\ \A m \in Contents(toClient) : ReplyFound(m)
    /\ client.id # None => EndsLast(toClient, client.id)

IsAnswer(m) == m.kind \in {"result", "error"}
IsEnd(m) == m.kind \in {"failed", "exited"}
OneAnswer(mail) == \A i, j \in DOMAIN mail : IsAnswer(mail[i]) /\ IsAnswer(mail[j]) => i = j

(* The worker of the host has the request in hand or its one answer.        *)
Busy(w) ==
    /\ w.state # "terminating"
    /\ w.job # None => w.job = host.active /\ Working
    /\ OneAnswer(w.mail)
    /\ \A m \in Contents(w.mail) : IsAnswer(m) => m.id = host.active /\ Working /\ w.job = None
    /\ ~IdleFailure => \A m \in Contents(w.mail) : IsEnd(m) =>
          Working /\ w.job = None /\ \A a \in Contents(w.mail) : ~IsAnswer(a)

WorkerTurn == host.up /\ host.worker # 0 => Busy(workers[host.worker])

Turns == HostTurn /\ FramesTurn /\ RepliesTurn /\ WorkerTurn

Conversation == ClientTurn /\ (Speaking => Turns)

CompilersKnown ==
    \A g \in DOMAIN workers :
        /\ workers[g].compiler = "running" /\ host.up =>
              \/ g \in host.children
              \/ \E m \in Contents(workers[g].mail) : m.kind = "compiler_child"
        /\ \A m \in Contents(workers[g].mail) :
              m.kind = "compiler_child_exit" => workers[g].compiler = "stopped"

-----------------------------------------------------------------------------
(* The contents of a pipe and the order of what it holds.                   *)

LEMMA HeadAndTail ==
    ASSUME NEW S, NEW s \in Seq(S), s # <<>>
    PROVE  /\ Head(s) \in Contents(s)
           /\ \A e \in Contents(Tail(s)) : e \in Contents(s)
           /\ \A e \in Contents(s) : e = Head(s) \/ e \in Contents(Tail(s))
<1>1. Len(s) \in Nat \ {0} /\ Head(s) = s[1] /\ DOMAIN s = 1 .. Len(s)
  OBVIOUS
<1>2. /\ DOMAIN Tail(s) = 1 .. (Len(s) - 1)
      /\ \A i \in 1 .. (Len(s) - 1) : Tail(s)[i] = s[i + 1]
  OBVIOUS
<1>3. \A e \in Contents(Tail(s)) : e \in Contents(s)
  <2>1. \A i \in DOMAIN Tail(s) : i + 1 \in DOMAIN s /\ Tail(s)[i] = s[i + 1]
    BY <1>1, <1>2
  <2> QED BY <2>1 DEF Contents
<1>4. \A e \in Contents(s) : e = Head(s) \/ e \in Contents(Tail(s))
  <2>1. \A i \in DOMAIN s : i = 1 \/ (i - 1 \in DOMAIN Tail(s) /\ Tail(s)[i - 1] = s[i])
    BY <1>1, <1>2
  <2> QED BY <1>1, <2>1 DEF Contents
<1>5. Head(s) \in Contents(s)
  BY <1>1 DEF Contents
<1> QED BY <1>3, <1>4, <1>5

LEMMA AppendedContents ==
    ASSUME NEW S, NEW s \in Seq(S), NEW e \in S
    PROVE  Contents(Append(s, e)) = Contents(s) \cup {e}
<1>1. Len(s) \in Nat /\ DOMAIN s = 1 .. Len(s) /\ DOMAIN Append(s, e) = 1 .. (Len(s) + 1)
  OBVIOUS
<1>2. /\ \A i \in DOMAIN s : Append(s, e)[i] = s[i]
      /\ Append(s, e)[Len(s) + 1] = e
  OBVIOUS
<1>3. \A i \in DOMAIN Append(s, e) : i \in DOMAIN s \/ i = Len(s) + 1
  BY <1>1
<1>4. \A x \in Contents(Append(s, e)) : x \in Contents(s) \cup {e}
  BY <1>2, <1>3 DEF Contents
<1>5. \A i \in DOMAIN s : i \in DOMAIN Append(s, e)
  BY <1>1
<1>6. Len(s) + 1 \in DOMAIN Append(s, e)
  BY <1>1
<1>7. \A x \in Contents(s) \cup {e} : x \in Contents(Append(s, e))
  BY <1>2, <1>5, <1>6 DEF Contents
<1> QED BY <1>4, <1>7

LEMMA ContentsTyped ==
    ASSUME NEW S, NEW s \in Seq(S)
    PROVE  \A e \in Contents(s) : e \in S
  BY DEF Contents

LEMMA OneMessage ==
    ASSUME NEW S, NEW s \in Seq(S), NEW a \in S
    PROVE  s \o <<a>> = Append(s, a)
OBVIOUS

LEMMA TwoMessages ==
    ASSUME NEW S, NEW s \in Seq(S), NEW a \in S, NEW b \in S
    PROVE  s \o <<a, b>> = Append(Append(s, a), b)
OBVIOUS

LEMMA TailInOrder ==
    ASSUME NEW s \in Seq(Frames), s # <<>>, InOrder(s)
    PROVE  /\ InOrder(Tail(s))
           /\ \A f \in Contents(Tail(s)) : f.id # None => Head(s).id < f.id
<1>1. Len(s) \in Nat \ {0} /\ Head(s) = s[1] /\ DOMAIN s = 1 .. Len(s)
  OBVIOUS
<1>2. \A i \in DOMAIN Tail(s) : i \in Nat \ {0} /\ i + 1 \in DOMAIN s /\ Tail(s)[i] = s[i + 1]
  OBVIOUS
<1>3. InOrder(Tail(s))
  <2> SUFFICES ASSUME NEW i \in DOMAIN Tail(s), NEW j \in DOMAIN Tail(s), i < j,
                      Tail(s)[j].id # None
               PROVE  Tail(s)[i].id < Tail(s)[j].id
    BY DEF InOrder
  <2>1. i + 1 < j + 1
    BY <1>2
  <2> QED BY <1>2, <2>1 DEF InOrder
<1>4. ASSUME NEW i \in DOMAIN Tail(s), Tail(s)[i].id # None
      PROVE  Head(s).id < Tail(s)[i].id
  <2>1. 1 < i + 1 /\ 1 \in DOMAIN s
    BY <1>1, <1>2
  <2> QED BY <1>1, <1>2, <1>4, <2>1 DEF InOrder
<1> QED BY <1>3, <1>4 DEF Contents

LEMMA AppendInOrder ==
    ASSUME NEW s \in Seq(Frames), NEW f \in Frames, InOrder(s),
           f.id # None => \A e \in Contents(s) : e.id < f.id
    PROVE  InOrder(Append(s, f))
<1>1. Len(s) \in Nat /\ DOMAIN s = 1 .. Len(s) /\ DOMAIN Append(s, f) = 1 .. (Len(s) + 1)
  OBVIOUS
<1>2. /\ \A i \in DOMAIN s : Append(s, f)[i] = s[i] /\ s[i] \in Contents(s)
      /\ Append(s, f)[Len(s) + 1] = f
  BY DEF Contents
<1> SUFFICES ASSUME NEW i \in DOMAIN Append(s, f), NEW j \in DOMAIN Append(s, f), i < j,
                    Append(s, f)[j].id # None
             PROVE  Append(s, f)[i].id < Append(s, f)[j].id
  BY DEF InOrder
<1>3. i \in DOMAIN s
  BY <1>1
<1>4. CASE j \in DOMAIN s
  BY <1>2, <1>3, <1>4 DEF InOrder
<1>5. CASE j = Len(s) + 1
  BY <1>2, <1>3, <1>5
<1> QED BY <1>1, <1>4, <1>5

LEMMA TailEndsLast ==
    ASSUME NEW s \in Seq(Replies), s # <<>>, NEW id, EndsLast(s, id)
    PROVE  /\ EndsLast(Tail(s), id)
           /\ Head(s).id = id => \A m \in Contents(Tail(s)) :
                 m.id = id => Final(m) /\ (Final(Head(s)) => IdleFailure)
<1>1. Len(s) \in Nat \ {0} /\ Head(s) = s[1] /\ DOMAIN s = 1 .. Len(s)
  OBVIOUS
<1>2. \A i \in DOMAIN Tail(s) : i \in Nat \ {0} /\ i + 1 \in DOMAIN s /\ Tail(s)[i] = s[i + 1]
  OBVIOUS
<1>3. EndsLast(Tail(s), id)
  <2> SUFFICES ASSUME NEW i \in DOMAIN Tail(s), NEW j \in DOMAIN Tail(s), i < j,
                      Tail(s)[i].id = id, Tail(s)[j].id = id
               PROVE  Final(Tail(s)[j]) /\ (Final(Tail(s)[i]) => IdleFailure)
    BY DEF EndsLast
  <2>1. i + 1 < j + 1
    BY <1>2
  <2> QED BY <1>2, <2>1 DEF EndsLast
<1>4. ASSUME NEW i \in DOMAIN Tail(s), Tail(s)[i].id = id, Head(s).id = id
      PROVE  Final(Tail(s)[i]) /\ (Final(Head(s)) => IdleFailure)
  <2>1. 1 < i + 1 /\ 1 \in DOMAIN s
    BY <1>1, <1>2
  <2> QED BY <1>1, <1>2, <1>4, <2>1 DEF EndsLast
<1> QED BY <1>3, <1>4 DEF Contents

LEMMA AppendEndsLast ==
    ASSUME NEW s \in Seq(Replies), NEW m \in Replies, NEW id, EndsLast(s, id),
           m.id = id => \A e \in Contents(s) :
               e.id = id => Final(m) /\ (Final(e) => IdleFailure)
    PROVE  EndsLast(Append(s, m), id)
<1>1. Len(s) \in Nat /\ DOMAIN s = 1 .. Len(s) /\ DOMAIN Append(s, m) = 1 .. (Len(s) + 1)
  OBVIOUS
<1>2. /\ \A i \in DOMAIN s : Append(s, m)[i] = s[i] /\ s[i] \in Contents(s)
      /\ Append(s, m)[Len(s) + 1] = m
  BY DEF Contents
<1> SUFFICES ASSUME NEW i \in DOMAIN Append(s, m), NEW j \in DOMAIN Append(s, m), i < j,
                    Append(s, m)[i].id = id, Append(s, m)[j].id = id
             PROVE  Final(Append(s, m)[j]) /\ (Final(Append(s, m)[i]) => IdleFailure)
  BY DEF EndsLast
<1>3. i \in DOMAIN s
  BY <1>1
<1>4. CASE j \in DOMAIN s
  BY <1>2, <1>3, <1>4 DEF EndsLast
<1>5. CASE j = Len(s) + 1
  BY <1>2, <1>3, <1>5
<1> QED BY <1>1, <1>4, <1>5

LEMMA TailOneAnswer ==
    ASSUME NEW s \in Seq(Messages), s # <<>>, OneAnswer(s)
    PROVE  /\ OneAnswer(Tail(s))
           /\ IsAnswer(Head(s)) => \A m \in Contents(Tail(s)) : ~IsAnswer(m)
<1>1. Len(s) \in Nat \ {0} /\ Head(s) = s[1] /\ DOMAIN s = 1 .. Len(s)
  OBVIOUS
<1>2. \A i \in DOMAIN Tail(s) : i \in Nat \ {0} /\ i + 1 \in DOMAIN s /\ Tail(s)[i] = s[i + 1]
  OBVIOUS
<1>3. OneAnswer(Tail(s))
  <2> SUFFICES ASSUME NEW i \in DOMAIN Tail(s), NEW j \in DOMAIN Tail(s),
                      IsAnswer(Tail(s)[i]), IsAnswer(Tail(s)[j])
               PROVE  i = j
    BY DEF OneAnswer
  <2>1. i + 1 = j + 1
    BY <1>2 DEF OneAnswer
  <2> QED BY <1>2, <2>1
<1>4. ASSUME NEW i \in DOMAIN Tail(s), IsAnswer(Tail(s)[i]), IsAnswer(Head(s))
      PROVE  FALSE
  <2>1. 1 # i + 1 /\ 1 \in DOMAIN s
    BY <1>1, <1>2
  <2> QED BY <1>1, <1>2, <1>4, <2>1 DEF OneAnswer
<1> QED BY <1>3, <1>4 DEF Contents

LEMMA AppendOneAnswer ==
    ASSUME NEW s \in Seq(Messages), NEW m \in Messages, OneAnswer(s),
           IsAnswer(m) => \A e \in Contents(s) : ~IsAnswer(e)
    PROVE  OneAnswer(Append(s, m))
<1>1. Len(s) \in Nat /\ DOMAIN s = 1 .. Len(s) /\ DOMAIN Append(s, m) = 1 .. (Len(s) + 1)
  OBVIOUS
<1>2. /\ \A i \in DOMAIN s : Append(s, m)[i] = s[i] /\ s[i] \in Contents(s)
      /\ Append(s, m)[Len(s) + 1] = m
  BY DEF Contents
<1> SUFFICES ASSUME NEW i \in DOMAIN Append(s, m), NEW j \in DOMAIN Append(s, m),
                    IsAnswer(Append(s, m)[i]), IsAnswer(Append(s, m)[j])
             PROVE  i = j
  BY DEF OneAnswer
<1>3. CASE i \in DOMAIN s /\ j \in DOMAIN s
  BY <1>2, <1>3 DEF OneAnswer
<1>4. CASE i = Len(s) + 1 /\ j \in DOMAIN s
  BY <1>2, <1>4
<1>5. CASE j = Len(s) + 1 /\ i \in DOMAIN s
  BY <1>2, <1>5
<1> QED BY <1>1, <1>3, <1>4, <1>5

-----------------------------------------------------------------------------
(* What the host does with the request in hand, whatever handler does it.   *)

LEMMA TurnFacts ==
    ASSUME TypeOK, ClientTurn, Speaking
    PROVE  /\ client.id \in {None} \cup Ids /\ client.id \notin Ended
           /\ None \notin Ended
           /\ outcome \in Seq(Ends) /\ Len(outcome) \in Nat
           /\ toHost \in Seq(Frames) /\ toClient \in Seq(Replies)
           /\ \A f \in Contents(toHost) : f \in Frames
           /\ \A m \in Contents(toClient) : m \in Replies
<1>1. /\ client.id \in {None} \cup Ids /\ outcome \in Seq(Ends) /\ toHost \in Seq(Frames)
      /\ toClient \in Seq(Replies)
  BY DEF TypeOK, Clients
<1>2. Len(outcome) \in Nat
  BY <1>1
<1>3. client.id \notin Ended /\ None \notin Ended
  BY <1>2 DEF Ended, ClientTurn, None
<1> QED BY <1>1, <1>2, <1>3, ContentsTyped

(* The request ends: with its result, an error or as canceled.              *)
LEMMA Finishes ==
    ASSUME TypeOK, ClientTurn, Speaking, HostTurn, FramesTurn, RepliesTurn,
           UNCHANGED <<client, outcome>>,
           host.active # None, host'.active = None, host'.plan = NoPlan,
           \A f \in Contents(toHost') : f \in Contents(toHost),
           InOrder(toHost'),
           ~IdleFailure => \A f \in Contents(toHost') : f.id # None => f.id = host'.canceledPlan,
           ~IdleFailure => \A e \in Contents(toClient) :
               e.id = client.id => e.id = host'.canceledPlan,
           NEW m \in Replies, m.id = host.active, Final(m), ReplyFits(m),
           \A e \in Contents(toClient') :
               e \in Contents(toClient) \/ e = m \/ e = Reply("cancel_result", None),
           EndsLast(toClient', client.id)
    PROVE  HostTurn' /\ FramesTurn' /\ RepliesTurn'
<1>1. HostTurn'
  BY DEF HostTurn, NoPlan
<1>2. FramesTurn'
  <2>1. ASSUME NEW f \in Contents(toHost')
        PROVE  FrameFound(f)'
    <3>1. FrameFound(f) /\ f \in Contents(toHost)
      BY <2>1 DEF FramesTurn
    <3>2. \/ f.id = None /\ f.kind = "cancel" /\ f.target # None
          \/ InHand(f) /\ FrameFits(f) /\ f.kind \notin Openings
      BY <3>1 DEF FrameFound
    <3>3. InHand(f) => InHand(f)'
      BY DEF InHand
    <3>4. FrameFits(f) => FrameFits(f)'
      BY DEF FrameFits
    <3>5. ~Working'
      BY DEF Working
    <3> QED BY <3>2, <3>3, <3>4, <3>5 DEF FrameFound
  <2>2. ~IdleFailure => \A f \in Contents(toHost') : Discarded(f)'
    BY DEF Discarded
  <2> QED BY <2>1, <2>2 DEF FramesTurn
<1>3. RepliesTurn'
  <2>1. \A f \in Contents(toHost') : InHand(f)' => f.kind \notin Openings
    BY DEF FramesTurn, FrameFound, InHand
  <2>2. ASSUME NEW e \in Contents(toClient')
        PROVE  ReplyFound(e)'
    <3>1. CASE e = Reply("cancel_result", None)
      BY <3>1 DEF ReplyFound, Reply
    <3>2. CASE e = m
      <4>1. InHand(m)' /\ ReplyFits(m)' /\ Final(m)'
        BY DEF InHand, HostTurn, ReplyFits, Final
      <4> QED BY <2>1, <3>2, <4>1 DEF ReplyFound
    <3>3. CASE e \in Contents(toClient)
      <4>1. ReplyFound(e)
        BY <3>3 DEF RepliesTurn
      <4>2. /\ e.id \in Ended => e.id \in Ended'
            /\ InHand(e) => InHand(e)'
            /\ ReplyFits(e) => ReplyFits(e)'
            /\ Final(e)' <=> Final(e)
        BY DEF Ended, InHand, ReplyFits, Final
      <4>3. ~Final(e) => \A f \in Contents(toHost) : InHand(e) => ~InHand(f)
        BY <4>1, TurnFacts DEF ReplyFound, InHand
      <4>4. ~Final(e) /\ InHand(e) => \A f \in Contents(toHost') : ~InHand(f)'
        BY <4>3 DEF InHand
      <4>5. ~Working'
        BY DEF Working
      <4>6. InHand(e) /\ ~IdleFailure => e.id = host'.canceledPlan
        BY <3>3 DEF InHand
      <4> QED BY <2>1, <4>1, <4>2, <4>4, <4>5, <4>6 DEF ReplyFound
    <3> QED BY <2>2, <3>1, <3>2, <3>3
  <2> QED BY <2>2 DEF RepliesTurn
<1> QED BY <1>1, <1>2, <1>3

(* While the host has the request no final reply of it is on the way, and    *)
(* while it is at work no frame and no reply at all.                        *)
LEMMA InHandQuiet ==
    ASSUME TypeOK, ClientTurn, Speaking, HostTurn, FramesTurn, RepliesTurn, host.active # None
    PROVE  /\ host.active = client.id /\ client.id # None
           /\ \A m \in Contents(toClient) : m.id = client.id => ~Final(m)
           /\ \A f \in Contents(toHost) :
                 /\ f.id # None => f.id = client.id /\ f.kind \notin Openings
                 /\ f.id = None => f.kind = "cancel" /\ f.target # None
           /\ Working => /\ \A f \in Contents(toHost) : f.id = None
                         /\ \A m \in Contents(toClient) : m.id # client.id
<1>1. host.active = client.id /\ client.id # None
  BY DEF HostTurn
<1>2. ASSUME NEW m \in Contents(toClient), m.id = client.id
      PROVE  ~Final(m) /\ ~Working
  BY <1>1, <1>2, TurnFacts DEF RepliesTurn, ReplyFound
<1>3. ASSUME NEW f \in Contents(toHost)
      PROVE  /\ f.id # None => f.id = client.id /\ f.kind \notin Openings /\ ~Working
             /\ f.id = None => f.kind = "cancel" /\ f.target # None
  BY TurnFacts DEF FramesTurn, FrameFound, InHand
<1> QED BY <1>1, <1>2, <1>3

LEMMA FinalReply ==
    ASSUME TypeOK, ClientTurn, Speaking, HostTurn, FramesTurn, RepliesTurn, host.active # None,
           NEW m \in Replies, m.id = host.active, Final(m), toClient' = Append(toClient, m)
    PROVE  /\ \A e \in Contents(toClient') : e \in Contents(toClient) \/ e = m
           /\ EndsLast(toClient', client.id)
<1>1. EndsLast(toClient, client.id) /\ toClient \in Seq(Replies)
  BY InHandQuiet, TurnFacts DEF RepliesTurn
<1>2. Contents(toClient') = Contents(toClient) \cup {m}
  BY <1>1, AppendedContents
<1>3. EndsLast(toClient', client.id)
  BY <1>1, InHandQuiet, AppendEndsLast
<1> QED BY <1>2, <1>3

(* The request goes on: the client has one reply to read, and nothing of    *)
(* the request is on stdin.                                                 *)
LEMMA GoesOn ==
    ASSUME TypeOK, ClientTurn, Speaking, HostTurn, FramesTurn, RepliesTurn,
           UNCHANGED <<client, outcome>>,
           client.id # None, host'.active = client.id, HostTurn', ~Working',
           \A f \in Contents(toHost') : f \in Contents(toHost) /\ f.id = None,
           InOrder(toHost'),
           \A e \in Contents(toClient) : e.id # client.id,
           NEW m \in Replies, m.id = client.id, ~Final(m), ReplyFits(m),
           toClient' = Append(toClient, m)
    PROVE  FramesTurn' /\ RepliesTurn'
<1>1. FramesTurn'
  <2>1. ASSUME NEW f \in Contents(toHost')
        PROVE  FrameFound(f)'
    BY TurnFacts DEF FramesTurn, FrameFound, InHand
  <2> QED BY <2>1 DEF FramesTurn
<1>2. RepliesTurn'
  <2>1. toClient \in Seq(Replies) /\ EndsLast(toClient, client.id)
    BY TurnFacts DEF RepliesTurn
  <2>2. Contents(toClient') = Contents(toClient) \cup {m}
    BY <2>1, AppendedContents
  <2>3. EndsLast(toClient', client.id)
    BY <2>1, AppendEndsLast
  <2>4. \A f \in Contents(toHost') : ~InHand(f)'
    BY DEF InHand
  <2>5. ASSUME NEW e \in Contents(toClient')
        PROVE  ReplyFound(e)'
    <3>1. CASE e = m
      <4>1. InHand(m)' /\ ReplyFits(m)' /\ ~Final(m)'
        BY DEF InHand, ReplyFits, Final
      <4> QED BY <2>4, <3>1, <4>1 DEF ReplyFound
    <3>2. CASE e \in Contents(toClient)
      <4>1. \/ e.id = None /\ e.kind = "cancel_result"
            \/ e.id \in Ended /\ IdleFailure
        BY <3>2 DEF RepliesTurn, ReplyFound, InHand
      <4>2. Ended' = Ended
        BY DEF Ended
      <4> QED BY <4>1, <4>2 DEF ReplyFound
    <3> QED BY <2>2, <2>5, <3>1, <3>2
  <2> QED BY <2>3, <2>5 DEF RepliesTurn
<1> QED BY <1>1, <1>2

(* The host hands the request to its worker.                                *)
LEMMA GoesToWork ==
    ASSUME TypeOK, ClientTurn, Speaking, HostTurn, FramesTurn, RepliesTurn,
           UNCHANGED <<client, outcome, toClient>>,
           client.id # None, host'.active = client.id, HostTurn',
           \A f \in Contents(toHost') : f \in Contents(toHost) /\ f.id = None,
           InOrder(toHost'),
           \A e \in Contents(toClient) : e.id # client.id
    PROVE  FramesTurn' /\ RepliesTurn'
<1>1. FramesTurn'
  <2>1. ASSUME NEW f \in Contents(toHost')
        PROVE  FrameFound(f)'
    BY TurnFacts DEF FramesTurn, FrameFound, InHand
  <2> QED BY <2>1 DEF FramesTurn
<1>2. RepliesTurn'
  <2>1. ASSUME NEW e \in Contents(toClient')
        PROVE  ReplyFound(e)'
    <3>1. \/ e.id = None /\ e.kind = "cancel_result"
          \/ e.id \in Ended /\ IdleFailure
      BY DEF RepliesTurn, ReplyFound, InHand
    <3>2. Ended' = Ended
      BY DEF Ended
    <3> QED BY <3>1, <3>2 DEF ReplyFound
  <2>2. EndsLast(toClient', client'.id)
    BY DEF RepliesTurn
  <2> QED BY <2>1, <2>2 DEF RepliesTurn
<1> QED BY <1>1, <1>2

(* The host has nothing to do with the frame it read.                       *)
LEMMA DoesNothing ==
    ASSUME TypeOK, ClientTurn, Speaking, HostTurn, FramesTurn, RepliesTurn,
           UNCHANGED <<client, outcome, host>>,
           \A f \in Contents(toHost') : f \in Contents(toHost),
           InOrder(toHost'),
           \A e \in Contents(toClient') :
               e \in Contents(toClient) \/ e = Reply("cancel_result", None),
           client.id # None => EndsLast(toClient', client.id)
    PROVE  HostTurn' /\ FramesTurn' /\ RepliesTurn'
<1>1. HostTurn'
  BY DEF HostTurn
<1>2. /\ Ended' = Ended /\ Working' = Working
      /\ \A f \in Contents(toHost) : /\ InHand(f)' <=> InHand(f)
                                     /\ FrameFits(f)' <=> FrameFits(f)
                                     /\ Discarded(f)' <=> Discarded(f)
  BY DEF Ended, Working, InHand, FrameFits, Discarded
<1>3. FramesTurn'
  <2>1. \A f \in Contents(toHost') : FrameFound(f)'
    BY <1>2 DEF FramesTurn, FrameFound
  <2> QED BY <1>2, <2>1 DEF FramesTurn
<1>4. RepliesTurn'
  <2>1. ASSUME NEW e \in Contents(toClient')
        PROVE  ReplyFound(e)'
    <3>1. CASE e = Reply("cancel_result", None)
      BY <3>1 DEF ReplyFound, Reply
    <3>2. CASE e \in Contents(toClient)
      <4>1. ReplyFound(e)
        BY <3>2 DEF RepliesTurn
      <4>2. /\ InHand(e) <=> InHand(e)'
            /\ ReplyFits(e) <=> ReplyFits(e)'
            /\ Final(e) <=> Final(e)'
        BY DEF InHand, ReplyFits, Final
      <4> QED BY <1>2, <4>1, <4>2 DEF ReplyFound
    <3> QED BY <2>1, <3>1, <3>2
  <2> QED BY <2>1 DEF RepliesTurn
<1> QED BY <1>1, <1>3, <1>4

(* An answer to a frame of a plan that a failed worker has ended: only such  *)
(* a failure makes the host answer twice.                                    *)
LEMMA AnswersTwice ==
    ASSUME TypeOK, ClientTurn, Speaking, HostTurn, FramesTurn, RepliesTurn,
           UNCHANGED <<client, outcome, host>>, IdleFailure, host.active = None,
           \A f \in Contents(toHost') : f \in Contents(toHost),
           InOrder(toHost'),
           NEW m \in Replies, m.kind = "error",
           \/ m.id \in Ended
           \/ m.id = client.id /\ m.id # None /\ \A f \in Contents(toHost') : ~InHand(f),
           toClient' = Append(toClient, m)
    PROVE  HostTurn' /\ FramesTurn' /\ RepliesTurn'
<1>1. HostTurn'
  BY DEF HostTurn
<1>2. /\ Ended' = Ended /\ Working' = Working
      /\ \A f \in Contents(toHost) : /\ InHand(f)' <=> InHand(f)
                                     /\ FrameFits(f)' <=> FrameFits(f)
                                     /\ Discarded(f)' <=> Discarded(f)
  BY DEF Ended, Working, InHand, FrameFits, Discarded
<1>3. FramesTurn'
  <2>1. \A f \in Contents(toHost') : FrameFound(f)'
    BY <1>2 DEF FramesTurn, FrameFound
  <2> QED BY <1>2, <2>1 DEF FramesTurn
<1>4. RepliesTurn'
  <2>0. toClient \in Seq(Replies)
    BY TurnFacts
  <2>1. Contents(toClient') = Contents(toClient) \cup {m}
    BY <2>0, AppendedContents
  <2>2. client.id # None => EndsLast(toClient', client.id)
    <3>1. Final(m)
      BY DEF Final
    <3> QED BY <2>0, <3>1, AppendEndsLast DEF RepliesTurn
  <2>3. ASSUME NEW e \in Contents(toClient')
        PROVE  ReplyFound(e)'
    <3>1. CASE e = m
      <4>1. CASE m.id \in Ended
        BY <1>2, <3>1, <4>1 DEF ReplyFound
      <4>2. CASE m.id = client.id /\ m.id # None /\ \A f \in Contents(toHost') : ~InHand(f)
        <5>1. InHand(m)' /\ ReplyFits(m)' /\ Final(m)'
          BY <4>2 DEF InHand, ReplyFits, Final
        <5>2. \A f \in Contents(toHost') : ~InHand(f)'
          BY <1>2, <4>2
        <5> QED BY <3>1, <5>1, <5>2 DEF ReplyFound
      <4> QED BY <4>1, <4>2
    <3>2. CASE e \in Contents(toClient)
      <4>1. ReplyFound(e)
        BY <3>2 DEF RepliesTurn
      <4>2. /\ InHand(e) <=> InHand(e)'
            /\ ReplyFits(e) <=> ReplyFits(e)'
            /\ Final(e) <=> Final(e)'
        BY DEF InHand, ReplyFits, Final
      <4> QED BY <1>2, <4>1, <4>2 DEF ReplyFound
    <3> QED BY <2>1, <2>3, <3>1, <3>2
  <2> QED BY <2>2, <2>3 DEF RepliesTurn
<1> QED BY <1>1, <1>3, <1>4

LEMMA FrameRead ==
    ASSUME TypeOK, ClientTurn, Speaking, HostTurn, FramesTurn, RepliesTurn, ReadFrame
    PROVE  /\ Head(toHost) \in Frames /\ FrameFound(Head(toHost))
           /\ Head(toHost) \in Contents(toHost)
           /\ \A f \in Contents(toHost') : f \in Contents(toHost)
           /\ InOrder(toHost')
           /\ Head(toHost).id = client.id /\ client.id # None =>
                 \A f \in Contents(toHost') : f.id = None
<1> DEFINE frame == Head(toHost)
<1>1. toHost \in Seq(Frames) /\ toHost # <<>> /\ toHost' = Tail(toHost)
  BY TurnFacts DEF ReadFrame
<1>2. /\ frame \in Contents(toHost)
      /\ \A f \in Contents(toHost') : f \in Contents(toHost)
  BY <1>1, HeadAndTail
<1>3. frame \in Frames /\ FrameFound(frame)
  BY <1>2, TurnFacts DEF FramesTurn
<1>4. InOrder(toHost') /\ \A f \in Contents(toHost') : f.id # None => frame.id < f.id
  BY <1>1, TailInOrder DEF FramesTurn
<1>5. ASSUME frame.id = client.id, client.id # None, NEW f \in Contents(toHost'), f.id # None
      PROVE  FALSE
  <2>1. client.id < f.id /\ client.id = Len(outcome) + 1
    BY <1>4, <1>5 DEF ClientTurn
  <2>2. f.id \in 1 .. Len(outcome) \/ f.id = client.id
    BY <1>2, <1>5 DEF FramesTurn, FrameFound, InHand, Ended
  <2>3. Len(outcome) \in Nat
    BY TurnFacts
  <2> QED BY <2>1, <2>2, <2>3
<1> HIDE DEF frame
<1>6. frame.id = client.id /\ client.id # None => \A f \in Contents(toHost') : f.id = None
  BY <1>5
<1> QED BY <1>2, <1>3, <1>4, <1>6 DEF frame

LEMMA SendsPage ==
    ASSUME TypeOK, ClientTurn, Speaking, HostTurn, FramesTurn, RepliesTurn,
           UNCHANGED <<client, outcome>>, host.active # None, client.kind = "plan", client.paging,
           \A f \in Contents(toHost') : f \in Contents(toHost) /\ f.id = None,
           InOrder(toHost'),
           \A e \in Contents(toClient) : e.id # client.id,
           NEW plan \in Plans, plan.id = client.id, plan.phase = "result", SendPage(plan)
    PROVE  /\ HostTurn' /\ FramesTurn' /\ RepliesTurn' /\ ~Working'
           /\ host'.worker = host.worker /\ host'.up = host.up
<1>1. host.active = client.id /\ client.id # None /\ client.id \in {None} \cup Ids
  BY InHandQuiet, TurnFacts
<1>2. host \in Hosts
  BY DEF TypeOK
<1>3. /\ Cleared(host).active = None /\ Cleared(host).plan = NoPlan
      /\ Cleared(host).worker = host.worker /\ Cleared(host).up = host.up
  BY <1>2 DEF Cleared, Hosts
<1>4. CASE \E kind \in {"page", "error"} : Answer(Cleared(host), Reply(kind, plan.id))
  <2>1. PICK kind \in {"page", "error"} : Answer(Cleared(host), Reply(kind, plan.id))
    BY <1>4
  <2> DEFINE m == Reply(kind, plan.id)
  <2>2. m \in Replies /\ m.id = host.active /\ Final(m) /\ ReplyFits(m)
    <3>1. m \in Replies
      BY <1>1, ReplyTypes
    <3> QED BY <1>1, <3>1 DEF Reply, Final, ReplyFits
  <2>3. host' = Cleared(host) /\ toClient' = Append(toClient, m)
    BY <2>1 DEF Answer
  <2> HIDE DEF m
  <2>4. /\ \A e \in Contents(toClient') : e \in Contents(toClient) \/ e = m
        /\ EndsLast(toClient', client.id)
    BY <1>1, <2>2, <2>3, FinalReply
  <2>5. HostTurn' /\ FramesTurn' /\ RepliesTurn'
    BY <1>1, <1>3, <2>2, <2>3, <2>4, Finishes
  <2> QED BY <1>3, <2>3, <2>5 DEF Working
<1>5. CASE /\ plan.cursor + 1 < plan.pages
           /\ Answer([host EXCEPT !.plan = [plan EXCEPT !.cursor = @ + 1]],
                     [Reply("page", plan.id) EXCEPT !.cursor = plan.cursor + 1])
  <2> DEFINE m == [Reply("page", plan.id) EXCEPT !.cursor = plan.cursor + 1]
             p == [plan EXCEPT !.cursor = @ + 1]
  <2>1. plan.cursor \in Nat
    BY DEF Plans
  <2>2. m \in Replies /\ m.id = client.id /\ ~Final(m) /\ ReplyFits(m)
    <3>1. m \in Replies
      BY <1>1, <2>1, ReplyTypes
    <3>2. plan.cursor + 1 # 0
      BY <2>1
    <3> QED BY <1>1, <3>1, <3>2 DEF Reply, Final, ReplyFits
  <2>3. p.id = client.id /\ p.phase = "result"
    BY DEF Plans
  <2>4. host' = [host EXCEPT !.plan = p] /\ toClient' = Append(toClient, m)
    BY <1>5 DEF Answer
  <2> HIDE DEF m, p
  <2>5. /\ host'.active = host.active /\ host'.plan = p
        /\ host'.worker = host.worker /\ host'.up = host.up
    BY <1>2, <2>4 DEF Hosts
  <2>6. ~Working'
    BY <2>3, <2>5 DEF Working
  <2>7. p # NoPlan
    BY <2>3 DEF NoPlan
  <2>8. HostTurn'
    BY <1>1, <2>3, <2>5, <2>7 DEF HostTurn
  <2>9. FramesTurn' /\ RepliesTurn'
    BY <1>1, <2>2, <2>4, <2>5, <2>6, <2>8, GoesOn
  <2> QED BY <2>5, <2>6, <2>8, <2>9
<1> QED BY <1>4, <1>5 DEF SendPage

(* A worker with nothing of the request stays right whatever the host does, *)
(* as does one that is not the host's any more.                             *)
LEMMA WorkerAtRest ==
    ASSUME TypeOK, host.up, WorkerTurn, ~Working, host'.worker = host.worker, UNCHANGED workers
    PROVE  WorkerTurn'
<1>1. CASE host.worker = 0
  BY <1>1 DEF WorkerTurn
<1>2. CASE host.worker # 0
  <2>1. Busy(workers[host.worker])
    BY <1>2 DEF WorkerTurn
  <2>2. workers'[host'.worker] = workers[host.worker]
    OBVIOUS
  <2>3. Busy(workers[host.worker])'
    BY <2>1, <2>2 DEF Busy
  <2> QED BY <2>3 DEF WorkerTurn
<1> QED BY <1>1, <1>2

LEMMA WorkerUntouched ==
    ASSUME WorkerTurn, UNCHANGED <<host, workers>>
    PROVE  WorkerTurn'
<1>1. Working' = Working
  BY DEF Working
<1> QED BY <1>1 DEF WorkerTurn, Busy

LEMMA NoSession ==
    ASSUME TypeOK, ClientTurn, Speaking, HostTurn, host.plan.id = None
    PROVE  host.plan = NoPlan
  BY DEF HostTurn

LEMMA FailsPlan ==
    ASSUME TypeOK, ClientTurn, Speaking, Turns, ReadFrame, FailPlan, host.plan.id # None,
           Head(toHost).id # None
    PROVE  Turns'
<1> DEFINE m == Reply("error", host.plan.id)
           working == host.plan.phase = "processing"
           h == IF working THEN WithoutWorker(Cleared(host)) ELSE Cleared(host)
<1>1. /\ UNCHANGED <<client, outcome>> /\ host.up
      /\ HostTurn /\ FramesTurn /\ RepliesTurn /\ WorkerTurn
  BY DEF ReadFrame, Turns
<1>2. /\ host.plan.id = host.active /\ host.active # None
      /\ host.active = client.id /\ host.active \in {None} \cup Ids
  BY <1>1, TurnFacts DEF HostTurn, NoPlan
<1>3. /\ host' = h /\ toClient' = Append(toClient, m)
      /\ workers' = IF working THEN Terminated(workers) ELSE workers
  BY DEF FailPlan, Answer
<1>4. /\ h.active = None /\ h.plan = NoPlan
      /\ working => h.worker = 0
      /\ ~working => h.worker = host.worker
  BY DEF TypeOK, Hosts, WithoutWorker, Cleared
<1>5. m \in Replies /\ m.id = host.active /\ Final(m) /\ ReplyFits(m)
  <2>1. m \in Replies
    BY <1>2, ReplyTypes
  <2> QED BY <1>2, <2>1 DEF Reply, Final, ReplyFits
<1> HIDE DEF m, h
<1>6. /\ \A e \in Contents(toClient') : e \in Contents(toClient) \/ e = m
      /\ EndsLast(toClient', client.id)
  BY <1>1, <1>2, <1>3, <1>5, FinalReply
<1>7. /\ \A f \in Contents(toHost') : f \in Contents(toHost) /\ f.id = None
      /\ InOrder(toHost')
      /\ \A e \in Contents(toClient) : e.id # client.id
  <2>1. /\ \A f \in Contents(toHost') : f \in Contents(toHost) /\ f.id = None
        /\ InOrder(toHost') /\ Head(toHost) \in Contents(toHost) /\ InHand(Head(toHost))
    BY <1>1, <1>2, FrameRead, InHandQuiet DEF InHand
  <2>2. ASSUME NEW e \in Contents(toClient), e.id = client.id
        PROVE  FALSE
    <3>1. ~Final(e)
      BY <1>1, <1>2, <2>2, InHandQuiet
    <3>2. Final(e)
      BY <1>1, <1>2, <2>1, <2>2, TurnFacts DEF RepliesTurn, ReplyFound
    <3> QED BY <3>1, <3>2
  <2> QED BY <2>1, <2>2
<1>8. HostTurn' /\ FramesTurn' /\ RepliesTurn'
  BY <1>1, <1>2, <1>3, <1>4, <1>5, <1>6, <1>7, Finishes
<1>9. WorkerTurn'
  <2>1. CASE working
    BY <1>3, <1>4, <2>1 DEF WorkerTurn
  <2>2. CASE ~working
    <3>1. ~Working
      BY <1>2, <2>2 DEF HostTurn, NoPlan, Working, Turns
    <3> QED BY <1>1, <1>3, <1>4, <2>2, <3>1, WorkerAtRest
  <2> QED BY <2>1, <2>2
<1> QED BY <1>8, <1>9 DEF Turns

LEMMA ReadsOutOfSequence ==
    ASSUME TypeOK, ClientTurn, Speaking, Turns, ReadFrame, OutOfSequence(Head(toHost)),
           Head(toHost).kind \in {"plan_add", "plan_finish", "plan_next"},
           ~Trailing(Head(toHost))
    PROVE  Turns'
<1> DEFINE frame == Head(toHost)
           m == Reply("error", frame.id)
<1>1. /\ UNCHANGED <<client, outcome>> /\ host.up
      /\ HostTurn /\ FramesTurn /\ RepliesTurn /\ WorkerTurn
  BY DEF ReadFrame, Turns
<1>2. frame \in Frames /\ FrameFound(frame) /\ frame \in Contents(toHost)
  BY <1>1, FrameRead
<1>3. frame.id # None /\ frame.id \in {None} \cup Ids /\ frame.kind \notin Openings
  BY <1>2 DEF FrameFound, Frames, InHand, Ended, None, Openings
<1>4. CASE host.plan.id = None
  <2>1. host.plan = NoPlan /\ host.plan.phase = "none"
    BY <1>1, <1>4, NoSession DEF NoPlan
  <2>2. host.active = None
    <3>1. host.active # None => Working
      BY <2>1 DEF Working
    <3>2. frame.id \in Ended => host.active = None
      BY <1>2, <1>1, TurnFacts DEF FrameFound, InHand
    <3>3. frame.id \notin Ended => ~Working
      BY <1>2, <1>3 DEF FrameFound
    <3> QED BY <3>1, <3>2, <3>3
  <2>3. IdleFailure
    <3>1. frame.id # host.canceledPlan
      BY DEF Trailing, PlanFrames
    <3> QED BY <1>1, <1>2, <1>3, <2>2, <3>1 DEF FramesTurn, Discarded
  <2>4. m \in Replies /\ m.id = frame.id /\ m.kind = "error"
    <3>1. m \in Replies
      BY <1>3, ReplyTypes
    <3> QED BY <3>1 DEF Reply
  <2>5. UNCHANGED <<host, workers>> /\ toClient' = Append(toClient, m)
    BY <1>4 DEF OutOfSequence, Answer
  <2>6. \/ m.id \in Ended
        \/ m.id = client.id /\ m.id # None /\ \A f \in Contents(toHost') : ~InHand(f)
    <3>1. frame.id \in Ended \/ (frame.id = client.id /\ client.id # None)
      BY <1>2, <1>3 DEF FrameFound, InHand
    <3>2. frame.id = client.id /\ client.id # None => \A f \in Contents(toHost') : ~InHand(f)
      BY <1>1, FrameRead DEF InHand
    <3> QED BY <2>4, <3>1, <3>2
  <2> HIDE DEF m
  <2>7. HostTurn' /\ FramesTurn' /\ RepliesTurn'
    BY <1>1, <2>2, <2>3, <2>4, <2>5, <2>6, FrameRead, AnswersTwice
  <2> QED BY <1>1, <2>5, <2>7, WorkerUntouched DEF Turns
<1>5. CASE host.plan.id # None
  BY <1>3, <1>5, FailsPlan DEF OutOfSequence
<1> QED BY <1>4, <1>5

(* A job handed to a worker that had none.                                  *)
LEMMA WorkerHired ==
    ASSUME TypeOK, host.up, WorkerTurn, ~Working, Working',
           NEW h \in Hosts, h.worker = host.worker, h.active = host'.active,
           Post(h, host'.active), host'.active \in {None} \cup Ids
    PROVE  WorkerTurn'
<1>1. host.worker \in 0 .. Len(workers) /\ workers \in Seq(Workers) /\ Len(workers) \in Nat
  BY DEF TypeOK
<1>2. CASE host.worker = 0
  <2>1. workers' = Append(workers, NewWorker(host'.active)) /\ host'.worker = Len(workers) + 1
    BY <1>2 DEF Post, Hosts
  <2>2. NewWorker(host'.active) \in Workers
    BY EmptySeq DEF NewWorker, Workers
  <2>3. workers'[host'.worker] = NewWorker(host'.active)
    BY <1>1, <2>1, <2>2
  <2>4. /\ NewWorker(host'.active).job = host'.active
        /\ NewWorker(host'.active).state = "up"
        /\ NewWorker(host'.active).mail = <<>>
    BY DEF NewWorker
  <2>5. OneAnswer(<<>>) /\ Contents(<<>>) = {}
    BY DEF OneAnswer, Contents
  <2>6. Busy(workers[host.worker])'
    BY <2>3, <2>4, <2>5 DEF Busy
  <2> QED BY <2>6 DEF WorkerTurn
<1>3. CASE host.worker # 0
  <2> DEFINE w == workers[host.worker]
             job == IF w.state = "up" THEN host'.active ELSE w.job
  <2>1. host.worker \in DOMAIN workers /\ w \in Workers
    BY <1>1, <1>3, SequenceElement
  <2>2. Busy(w)
    BY <1>3 DEF WorkerTurn
  <2>3. /\ w.job = None /\ w.state # "terminating" /\ OneAnswer(w.mail)
        /\ \A m \in Contents(w.mail) : ~IsAnswer(m)
        /\ ~IdleFailure => \A m \in Contents(w.mail) : ~IsEnd(m)
    BY <2>2 DEF Busy
  <2>4. host' = h /\ workers' = [workers EXCEPT ![host.worker] = [w EXCEPT !.job = job]]
    BY <1>3, <2>1 DEF Post
  <2>5. workers'[host'.worker] = [w EXCEPT !.job = job]
    BY <2>1, <2>4
  <2>6. /\ [w EXCEPT !.job = job].job \in {None, host'.active}
        /\ [w EXCEPT !.job = job].state = w.state
        /\ [w EXCEPT !.job = job].mail = w.mail
    BY <2>1, <2>3 DEF Workers
  <2>7. Busy(workers[host.worker])'
    BY <2>3, <2>5, <2>6 DEF Busy
  <2> QED BY <2>7 DEF WorkerTurn
<1> QED BY <1>2, <1>3

-----------------------------------------------------------------------------
(* The frames the host reads.                                               *)

(* The frame that opens a request finds the host free and nothing said of   *)
(* the request.                                                             *)
LEMMA OpeningFound ==
    ASSUME TypeOK, ClientTurn, Speaking, Turns, ReadFrame,
           Head(toHost).kind \in Openings
    PROVE  /\ Head(toHost).id = client.id /\ client.id # None /\ client.id \in {None} \cup Ids
           /\ FrameFits(Head(toHost))
           /\ host.active = None /\ host.plan = NoPlan /\ ~Working
           /\ \A f \in Contents(toHost') : f \in Contents(toHost) /\ f.id = None
           /\ \A e \in Contents(toClient) : e.id # client.id
<1> DEFINE frame == Head(toHost)
<1>1. /\ frame \in Frames /\ FrameFound(frame) /\ frame \in Contents(toHost)
      /\ \A f \in Contents(toHost') : f \in Contents(toHost)
      /\ frame.id = client.id /\ client.id # None => \A f \in Contents(toHost') : f.id = None
  BY FrameRead DEF Turns
<1>2. InHand(frame) /\ FrameFits(frame) /\ host.active = None
  BY <1>1 DEF FrameFound, Openings, PlanFrames
<1>3. frame.id = client.id /\ client.id # None
  BY <1>2 DEF InHand
<1>4. host.plan = NoPlan /\ ~Working
  BY <1>2 DEF Turns, HostTurn, Working
<1>5. ASSUME NEW e \in Contents(toClient), e.id = client.id
      PROVE  FALSE
  <2>1. e.id \notin Ended /\ e.id # None
    BY <1>3, <1>5, TurnFacts
  <2>2. frame.kind \notin Openings
    BY <1>1, <1>2, <1>5, <2>1 DEF Turns, RepliesTurn, ReplyFound
  <2> QED BY <2>2
<1> QED BY <1>1, <1>2, <1>3, <1>4, <1>5, TurnFacts

LEMMA Dispatches ==
    ASSUME TypeOK, ClientTurn, Speaking, Turns, ReadFrame, Dispatch(Head(toHost)),
           Head(toHost).kind \in {"capabilities", "batch"}
    PROVE  Turns'
<1> DEFINE h == [host EXCEPT !.active = client.id]
<1>1. /\ UNCHANGED <<client, outcome>> /\ host.up
      /\ HostTurn /\ FramesTurn /\ RepliesTurn /\ WorkerTurn
  BY DEF ReadFrame, Turns
<1>2. /\ Head(toHost).id = client.id /\ client.id # None /\ client.id \in {None} \cup Ids
      /\ FrameFits(Head(toHost))
      /\ host.active = None /\ host.plan = NoPlan /\ ~Working
      /\ \A f \in Contents(toHost') : f \in Contents(toHost) /\ f.id = None
      /\ \A e \in Contents(toClient) : e.id # client.id
  BY OpeningFound DEF Openings
<1>3. client.kind # "plan"
  BY <1>2 DEF FrameFits
<1>4. Post(h, client.id) /\ UNCHANGED toClient
  BY <1>2 DEF Dispatch
<1>5. h \in Hosts /\ h.worker = host.worker /\ h.active = client.id /\ h.plan = host.plan
  BY <1>2 DEF TypeOK, Hosts
<1>6. host'.active = client.id /\ host'.plan = NoPlan
  BY <1>2, <1>4, <1>5 DEF Post, Hosts
<1>7. HostTurn' /\ Working'
  BY <1>1, <1>2, <1>3, <1>6 DEF HostTurn, Working, NoPlan
<1>8. FramesTurn' /\ RepliesTurn'
  BY <1>1, <1>2, <1>4, <1>6, <1>7, FrameRead, GoesToWork
<1>9. WorkerTurn'
  BY <1>1, <1>2, <1>4, <1>5, <1>6, <1>7, WorkerHired
<1> QED BY <1>7, <1>8, <1>9 DEF Turns

LEMMA BeginsPlan ==
    ASSUME TypeOK, ClientTurn, Speaking, Turns, ReadFrame, BeginPlan(Head(toHost)),
           UNCHANGED workers, Head(toHost).kind = "plan_begin"
    PROVE  Turns'
<1> DEFINE plan == [NoPlan EXCEPT !.id = client.id, !.phase = "upload",
                                  !.total = Head(toHost).size]
           m == Reply("ready", client.id)
<1>1. /\ UNCHANGED <<client, outcome>> /\ host.up
      /\ HostTurn /\ FramesTurn /\ RepliesTurn /\ WorkerTurn
  BY DEF ReadFrame, Turns
<1>2. /\ Head(toHost).id = client.id /\ client.id # None /\ client.id \in {None} \cup Ids
      /\ FrameFits(Head(toHost))
      /\ host.active = None /\ host.plan = NoPlan /\ ~Working
      /\ \A f \in Contents(toHost') : f \in Contents(toHost) /\ f.id = None
      /\ \A e \in Contents(toClient) : e.id # client.id
  BY OpeningFound DEF Openings
<1>3. client.kind = "plan" /\ client.sent = 0 /\ ~client.paging
  BY <1>2 DEF FrameFits
<1>4. plan.id = client.id /\ plan.phase = "upload"
  BY DEF NoPlan
<1>5. m \in Replies /\ m.id = client.id /\ ~Final(m) /\ ReplyFits(m)
  <2>1. m \in Replies
    BY <1>2, ReplyTypes
  <2> QED BY <1>3, <2>1 DEF Reply, Final, ReplyFits
<1>6. /\ host' = [host EXCEPT !.active = client.id, !.canceledPlan = None, !.plan = plan]
      /\ toClient' = Append(toClient, m)
  BY <1>2 DEF BeginPlan, Answer
<1> HIDE DEF plan, m
<1>7. host'.active = client.id /\ host'.plan = plan /\ host'.worker = host.worker
  BY <1>6 DEF TypeOK, Hosts
<1>8. HostTurn' /\ ~Working'
  BY <1>1, <1>2, <1>3, <1>4, <1>7 DEF HostTurn, Working, NoPlan
<1>9. FramesTurn' /\ RepliesTurn'
  BY <1>1, <1>2, <1>5, <1>6, <1>7, <1>8, FrameRead, GoesOn
<1>10. WorkerTurn'
  BY <1>1, <1>2, <1>7, WorkerAtRest
<1> QED BY <1>8, <1>9, <1>10 DEF Turns

(* A frame the plan of the host expects is of the request in hand.          *)
LEMMA PhaseFound ==
    ASSUME TypeOK, ClientTurn, Speaking, Turns, ReadFrame, NEW phase \in {"upload", "result"},
           InPhase(Head(toHost), phase),
           Head(toHost).kind \in {"plan_add", "plan_finish", "plan_next"}
    PROVE  /\ Head(toHost).id = client.id /\ client.id # None /\ client.id \in {None} \cup Ids
           /\ FrameFits(Head(toHost)) /\ client.kind = "plan"
           /\ host.active = client.id /\ host.plan.id = client.id /\ ~Working
           /\ host.plan # NoPlan /\ host.plan.phase = phase /\ host.plan \in Plans
           /\ \A f \in Contents(toHost') : f \in Contents(toHost) /\ f.id = None
           /\ \A e \in Contents(toClient) : e.id # client.id
<1> DEFINE frame == Head(toHost)
<1>1. /\ frame \in Frames /\ FrameFound(frame) /\ frame \in Contents(toHost)
      /\ \A f \in Contents(toHost') : f \in Contents(toHost)
      /\ frame.id = client.id /\ client.id # None => \A f \in Contents(toHost') : f.id = None
  BY FrameRead DEF Turns
<1>2. host.plan # NoPlan /\ host.plan.phase = phase /\ host.plan.id = frame.id
  BY DEF InPhase, NoPlan
<1>3. host.active # None /\ host.plan.id = host.active /\ client.kind = "plan"
  BY <1>2 DEF Turns, HostTurn
<1>4. host.active = client.id /\ client.id # None
  BY <1>3 DEF Turns, HostTurn
<1>5. InHand(frame) /\ FrameFits(frame) /\ ~Working
  BY <1>1, <1>2, <1>3 DEF FrameFound
<1>6. ASSUME NEW e \in Contents(toClient), e.id = client.id
      PROVE  FALSE
  <2>1. e.id \notin Ended /\ e.id # None /\ ReplyFound(e)
    BY <1>4, <1>6, TurnFacts DEF Turns, RepliesTurn
  <2>2. Final(e)
    BY <1>1, <1>5, <2>1 DEF ReplyFound
  <2>3. ~Final(e)
    BY <1>3, <1>6, InHandQuiet DEF Turns
  <2> QED BY <2>2, <2>3
<1>7. host.plan \in Plans
  BY SessionTypes
<1> QED BY <1>1, <1>2, <1>3, <1>4, <1>5, <1>6, <1>7, TurnFacts

LEMMA AddsFiles ==
    ASSUME TypeOK, ClientTurn, Speaking, Turns, ReadFrame, AddFiles(Head(toHost)),
           Head(toHost).kind = "plan_add", ~Trailing(Head(toHost))
    PROVE  Turns'
<1>1. CASE InPhase(Head(toHost), "upload") /\ host.plan.received < host.plan.total
  <2> DEFINE m == Reply("added", client.id)
             plan == [host.plan EXCEPT !.received = @ + 1]
  <2>1. /\ UNCHANGED <<client, outcome>> /\ host.up
        /\ HostTurn /\ FramesTurn /\ RepliesTurn /\ WorkerTurn
    BY DEF ReadFrame, Turns
  <2>2. /\ Head(toHost).id = client.id /\ client.id # None /\ client.id \in {None} \cup Ids
        /\ FrameFits(Head(toHost)) /\ client.kind = "plan"
        /\ host.active = client.id /\ host.plan.id = client.id /\ ~Working
        /\ host.plan # NoPlan /\ host.plan.phase = "upload" /\ host.plan \in Plans
        /\ \A f \in Contents(toHost') : f \in Contents(toHost) /\ f.id = None
        /\ \A e \in Contents(toClient) : e.id # client.id
    BY <1>1, PhaseFound
  <2>3. m \in Replies /\ m.id = client.id /\ ~Final(m) /\ ReplyFits(m)
    <3>1. m \in Replies
      BY <2>2, ReplyTypes
    <3>2. client.sent > 0 /\ ~client.paging
      BY <2>2 DEF FrameFits
    <3> QED BY <2>2, <3>1, <3>2 DEF Reply, Final, ReplyFits
  <2>4. plan.id = client.id /\ plan.phase = "upload"
    BY <2>2 DEF Plans
  <2>5. /\ host' = [host EXCEPT !.plan = plan] /\ toClient' = Append(toClient, m)
        /\ UNCHANGED workers
    BY <1>1, <2>2 DEF AddFiles, Answer
  <2> HIDE DEF plan, m
  <2>6. host'.active = client.id /\ host'.plan = plan /\ host'.worker = host.worker
    BY <2>2, <2>5 DEF TypeOK, Hosts
  <2>7. HostTurn' /\ ~Working'
    BY <2>1, <2>2, <2>4, <2>6 DEF HostTurn, Working, NoPlan
  <2>8. FramesTurn' /\ RepliesTurn'
    BY <2>1, <2>2, <2>3, <2>5, <2>6, <2>7, FrameRead, GoesOn
  <2>9. WorkerTurn'
    BY <2>1, <2>2, <2>5, <2>6, WorkerAtRest
  <2> QED BY <2>7, <2>8, <2>9 DEF Turns
<1> QED BY <1>1, ReadsOutOfSequence DEF AddFiles

LEMMA FinishesPlan ==
    ASSUME TypeOK, ClientTurn, Speaking, Turns, ReadFrame, FinishPlan(Head(toHost)),
           Head(toHost).kind = "plan_finish", ~Trailing(Head(toHost))
    PROVE  Turns'
<1>1. CASE InPhase(Head(toHost), "upload") /\ host.plan.received = host.plan.total
  <2> DEFINE plan == [host.plan EXCEPT !.phase = "processing"]
             h == [host EXCEPT !.plan = plan]
  <2>1. /\ UNCHANGED <<client, outcome>> /\ host.up
        /\ HostTurn /\ FramesTurn /\ RepliesTurn /\ WorkerTurn
    BY DEF ReadFrame, Turns
  <2>2. /\ Head(toHost).id = client.id /\ client.id # None /\ client.id \in {None} \cup Ids
        /\ FrameFits(Head(toHost)) /\ client.kind = "plan"
        /\ host.active = client.id /\ host.plan.id = client.id /\ ~Working
        /\ host.plan # NoPlan /\ host.plan.phase = "upload" /\ host.plan \in Plans
        /\ \A f \in Contents(toHost') : f \in Contents(toHost) /\ f.id = None
        /\ \A e \in Contents(toClient) : e.id # client.id
    BY <1>1, PhaseFound
  <2>3. client.paging
    BY <2>2 DEF FrameFits
  <2>4. plan \in Plans /\ plan.id = client.id /\ plan.phase = "processing"
    BY <2>2 DEF Plans
  <2>5. Post(h, client.id) /\ UNCHANGED toClient
    <3>1. [host EXCEPT !.plan.phase = "processing"] = h
      OBVIOUS
    <3> QED BY <1>1, <2>2, <3>1 DEF FinishPlan
  <2>6. h \in Hosts /\ h.worker = host.worker /\ h.active = client.id /\ h.plan = plan
    <3> HIDE DEF plan
    <3> QED BY <2>2, <2>4 DEF TypeOK, Hosts
  <2> HIDE DEF plan
  <2>7. host'.active = client.id /\ host'.plan = plan
    BY <2>2, <2>5, <2>6 DEF Post, Hosts
  <2>8. HostTurn' /\ Working'
    BY <2>1, <2>2, <2>3, <2>4, <2>7 DEF HostTurn, Working, NoPlan
  <2>9. FramesTurn' /\ RepliesTurn'
    BY <2>1, <2>2, <2>5, <2>7, <2>8, FrameRead, GoesToWork
  <2>10. WorkerTurn'
    BY <2>1, <2>2, <2>5, <2>6, <2>7, <2>8, WorkerHired
  <2> QED BY <2>8, <2>9, <2>10 DEF Turns
<1> QED BY <1>1, ReadsOutOfSequence DEF FinishPlan

LEMMA ServesPage ==
    ASSUME TypeOK, ClientTurn, Speaking, Turns, ReadFrame, NextPage(Head(toHost)),
           Head(toHost).kind = "plan_next", ~Trailing(Head(toHost))
    PROVE  Turns'
<1>1. CASE InPhase(Head(toHost), "result") /\ Head(toHost).size = host.plan.cursor
  <2>1. /\ UNCHANGED <<client, outcome>> /\ host.up
        /\ HostTurn /\ FramesTurn /\ RepliesTurn /\ WorkerTurn
    BY DEF ReadFrame, Turns
  <2>2. /\ Head(toHost).id = client.id /\ client.id # None /\ client.id \in {None} \cup Ids
        /\ FrameFits(Head(toHost)) /\ client.kind = "plan"
        /\ host.active = client.id /\ host.plan.id = client.id /\ ~Working
        /\ host.plan # NoPlan /\ host.plan.phase = "result" /\ host.plan \in Plans
        /\ \A f \in Contents(toHost') : f \in Contents(toHost) /\ f.id = None
        /\ \A e \in Contents(toClient) : e.id # client.id
    BY <1>1, PhaseFound
  <2>3. SendPage(host.plan) /\ UNCHANGED workers
    BY <1>1 DEF NextPage
  <2>4. client.paging
    BY <2>1, <2>2 DEF HostTurn
  <2>5. /\ HostTurn' /\ FramesTurn' /\ RepliesTurn'
        /\ host'.worker = host.worker
    BY <2>1, <2>2, <2>3, <2>4, FrameRead, SendsPage
  <2>6. WorkerTurn'
    BY <2>1, <2>2, <2>3, <2>5, WorkerAtRest
  <2> QED BY <2>5, <2>6 DEF Turns
<1> QED BY <1>1, ReadsOutOfSequence DEF NextPage

LEMMA ReadsCancel ==
    ASSUME TypeOK, ClientTurn, Speaking, Turns, ReadFrame, Cancel(Head(toHost)),
           Head(toHost).kind = "cancel"
    PROVE  Turns'
<1> DEFINE frame == Head(toHost)
           notice == Reply("cancel_result", None)
<1>1. /\ UNCHANGED <<client, outcome>> /\ host.up
      /\ HostTurn /\ FramesTurn /\ RepliesTurn /\ WorkerTurn
  BY DEF ReadFrame, Turns
<1>2. /\ frame \in Frames /\ FrameFound(frame)
      /\ \A f \in Contents(toHost') : f \in Contents(toHost)
      /\ InOrder(toHost')
  BY <1>1, FrameRead
<1>3. notice \in Replies /\ notice.id = None
  <2>1. notice \in Replies
    BY ReplyTypes
  <2> QED BY <2>1 DEF Reply
<1>4. toClient \in Seq(Replies)
  BY TurnFacts
<1>5. CASE ~FindsTarget(frame)
  <2>1. UNCHANGED <<host, workers>> /\ toClient' = Append(toClient, notice)
    BY <1>5 DEF Cancel, Answer
  <2> HIDE DEF notice
  <2>2. Contents(toClient') = Contents(toClient) \cup {notice}
    BY <1>3, <1>4, <2>1, AppendedContents
  <2>3. client.id # None => EndsLast(toClient', client.id)
    BY <1>1, <1>3, <1>4, <2>1, AppendEndsLast DEF RepliesTurn
  <2>4. HostTurn' /\ FramesTurn' /\ RepliesTurn'
    BY <1>1, <1>2, <2>1, <2>2, <2>3, DoesNothing DEF notice
  <2> QED BY <1>1, <2>1, <2>4, WorkerUntouched DEF Turns
<1>6. CASE FindsTarget(frame)
  <2> DEFINE m == Reply("canceled", host.active)
             given == IF host.plan.id # None THEN host.active ELSE host.canceledPlan
  <2>1. frame.target # None
    BY <1>2 DEF FrameFound, FrameFits, PlanFrames, Openings
  <2>2. host.active # None /\ host.active = client.id /\ host.active \in {None} \cup Ids
    BY <1>1, <1>6, <2>1, TurnFacts DEF FindsTarget, HostTurn
  <2>3. m \in Replies /\ m.id = host.active /\ Final(m) /\ ReplyFits(m)
    <3>1. m \in Replies
      BY <2>2, ReplyTypes
    <3> QED BY <3>1 DEF Reply, Final, ReplyFits
  <2>4. /\ host'.active = None /\ host'.plan = NoPlan /\ host'.worker = 0
        /\ host'.canceledPlan = given
    BY <1>6 DEF Cancel, WithoutWorker, Cleared, TypeOK, Hosts
  <2>5. toClient' = Append(Append(toClient, m), notice)
    <3>1. toClient' = toClient \o <<m, notice>>
      BY <1>6 DEF Cancel
    <3> HIDE DEF m, notice
    <3> QED BY <1>3, <1>4, <2>3, <3>1, TwoMessages
  <2> HIDE DEF m, notice
  <2>6. /\ Append(toClient, m) \in Seq(Replies)
        /\ Contents(Append(toClient, m)) = Contents(toClient) \cup {m}
    BY <1>4, <2>3, AppendProperties, AppendedContents
  <2>7. Contents(toClient') = Contents(toClient) \cup {m} \cup {notice}
    <3> DEFINE first == Append(toClient, m)
    <3>1. first \in Seq(Replies) /\ toClient' = Append(first, notice)
      BY <2>5, <2>6
    <3> HIDE DEF first
    <3>2. Contents(toClient') = Contents(first) \cup {notice}
      BY <1>3, <3>1, AppendedContents
    <3> QED BY <2>6, <3>2 DEF first
  <2>8. EndsLast(toClient', client.id)
    <3>1. \A e \in Contents(toClient) : e.id = client.id => ~Final(e)
      BY <1>1, <2>2, InHandQuiet
    <3>2. EndsLast(Append(toClient, m), client.id)
      BY <1>1, <1>4, <2>2, <2>3, <3>1, AppendEndsLast DEF RepliesTurn
    <3> QED BY <1>3, <2>2, <2>5, <2>6, <3>2, AppendEndsLast
  <2>9. \A f \in Contents(toHost') : f.id # None => f.id = host'.canceledPlan
    <3>1. CASE host.plan.id = None
      <4>1. Working
        BY <1>1, <2>2, <3>1, NoSession DEF Working, NoPlan
      <4> QED BY <1>1, <1>2, <2>2, <4>1, InHandQuiet
    <3>2. CASE host.plan.id # None
      BY <1>1, <1>2, <2>2, <2>4, <3>2, InHandQuiet
    <3> QED BY <3>1, <3>2
  <2>a. \A e \in Contents(toClient) : e.id = client.id => e.id = host'.canceledPlan
    <3>1. host.plan.id = None => Working
      BY <1>1, <2>2, NoSession DEF Working, NoPlan
    <3> QED BY <1>1, <2>2, <2>4, <3>1, InHandQuiet
  <2>10. HostTurn' /\ FramesTurn' /\ RepliesTurn'
    BY <1>1, <1>2, <2>2, <2>3, <2>4, <2>7, <2>8, <2>9, <2>a, Finishes DEF notice
  <2>11. WorkerTurn'
    BY <2>4 DEF WorkerTurn
  <2> QED BY <2>10, <2>11 DEF Turns
<1> QED BY <1>5, <1>6

LEMMA ReadFrameKeepsTurns ==
    ASSUME TypeOK, ClientTurn, Speaking, Turns, ReadFrame
    PROVE  Turns'
<1> DEFINE frame == Head(toHost)
<1>1. /\ UNCHANGED <<client, outcome>> /\ host.up
      /\ HostTurn /\ FramesTurn /\ RepliesTurn /\ WorkerTurn
  BY DEF ReadFrame, Turns
<1>2. CASE UNCHANGED <<host, workers, toClient>>
  <2>1. HostTurn' /\ FramesTurn' /\ RepliesTurn'
    BY <1>1, <1>2, FrameRead, DoesNothing DEF RepliesTurn
  <2> QED BY <1>1, <1>2, <2>1, WorkerUntouched DEF Turns
<1>3. frame.kind # "shutdown"
  BY <1>1, FrameRead DEF FrameFound, FrameFits, PlanFrames, Openings
<1>4. CASE ~Trailing(frame) /\ ~UNCHANGED <<host, workers, toClient>>
  BY <1>3, <1>4, Dispatches, BeginsPlan, AddsFiles, FinishesPlan, ServesPage, ReadsCancel
     DEF ReadFrame, Handle
<1> QED BY <1>2, <1>4 DEF ReadFrame, Handle

-----------------------------------------------------------------------------
(* The mail the host reads.                                                 *)

LEMMA MailRead ==
    ASSUME TypeOK, NEW g \in DOMAIN workers, ReadMail(g)
    PROVE  LET mail == workers[g].mail IN
           /\ mail \in Seq(Messages) /\ Head(mail) \in Messages /\ Head(mail) \in Contents(mail)
           /\ Tail(mail) \in Seq(Messages)
           /\ \A e \in Contents(Tail(mail)) : e \in Contents(mail)
           /\ \A e \in Contents(mail) : e = Head(mail) \/ e \in Contents(Tail(mail))
           /\ OneAnswer(mail) =>
                 /\ OneAnswer(Tail(mail))
                 /\ IsAnswer(Head(mail)) => \A m \in Contents(Tail(mail)) : ~IsAnswer(m)
<1>1. workers[g] \in Workers
  BY SequenceElement DEF TypeOK
<1>2. workers[g].mail \in Seq(Messages) /\ workers[g].mail # <<>>
  BY <1>1 DEF Workers, ReadMail
<1>3. Head(workers[g].mail) \in Messages /\ Tail(workers[g].mail) \in Seq(Messages)
  BY <1>2, HeadTailProperties
<1> QED BY <1>2, <1>3, HeadAndTail, TailOneAnswer

(* What a step of the host leaves of each worker.                           *)
LEMMA MailLeaves ==
    ASSUME TypeOK, NEW g \in DOMAIN workers, ReadMail(g)
    PROVE  /\ DOMAIN workers' = DOMAIN workers
           /\ \A w \in DOMAIN workers :
                 /\ workers'[w].job = workers[w].job
                 /\ workers'[w].mail = IF w = g THEN Tail(workers[w].mail) ELSE workers[w].mail
           /\ host.worker \in DOMAIN workers /\ host'.worker # 0 =>
                 workers'[host.worker].state = workers[host.worker].state
<1> DEFINE read == [workers EXCEPT ![g].mail = Tail(@)]
           stopped == [read EXCEPT ![g] = StopCompiler(@)]
<1>1. \A w \in DOMAIN workers : workers[w] \in Workers
  BY SequenceElement DEF TypeOK
<1>2. /\ DOMAIN read = DOMAIN workers
      /\ \A w \in DOMAIN workers :
            /\ read[w] = IF w = g THEN [workers[w] EXCEPT !.mail = Tail(@)] ELSE workers[w]
  OBVIOUS
<1>3. \A w \in DOMAIN workers :
            /\ read[w].job = workers[w].job /\ read[w].state = workers[w].state
            /\ read[w].mail = IF w = g THEN Tail(workers[w].mail) ELSE workers[w].mail
            /\ read[w] \in Workers
  BY <1>1, <1>2, MailRead DEF Workers
<1> HIDE DEF read
<1>4. /\ DOMAIN stopped = DOMAIN workers
      /\ \A w \in DOMAIN workers :
            /\ stopped[w].job = read[w].job /\ stopped[w].state = read[w].state
            /\ stopped[w].mail = read[w].mail
  <2>1. DOMAIN stopped = DOMAIN workers
    BY <1>2
  <2>2. \A w \in DOMAIN workers : stopped[w] = IF w = g THEN StopCompiler(read[w]) ELSE read[w]
    BY <1>2
  <2>3. \A w \in DOMAIN workers : /\ StopCompiler(read[w]).job = read[w].job
                                  /\ StopCompiler(read[w]).state = read[w].state
                                  /\ StopCompiler(read[w]).mail = read[w].mail
    BY <1>3 DEF StopCompiler, Workers
  <2> HIDE DEF stopped
  <2> QED BY <2>1, <2>2, <2>3
<1>5. /\ DOMAIN Terminated(read) = DOMAIN workers
      /\ \A w \in DOMAIN workers :
            /\ Terminated(read)[w].job = read[w].job
            /\ Terminated(read)[w].mail = read[w].mail
  <2>1. DOMAIN Terminated(read) = DOMAIN workers
    BY <1>2 DEF Terminated
  <2>2. ASSUME NEW w \in DOMAIN workers
        PROVE  /\ Terminated(read)[w].job = read[w].job
               /\ Terminated(read)[w].mail = read[w].mail
    <3> DEFINE u == IF w \in host.children THEN StopCompiler(read[w]) ELSE read[w]
               v == [u EXCEPT !.state = IF @ = "up" THEN "terminating" ELSE @]
    <3>1. u \in Workers /\ u.job = read[w].job /\ u.mail = read[w].mail
      <4>1. read[w] \in Workers /\ StopCompiler(read[w]) \in Workers
        BY <1>3, WorkerTypes
      <4>2. StopCompiler(read[w]).job = read[w].job /\ StopCompiler(read[w]).mail = read[w].mail
        BY <4>1 DEF StopCompiler, Workers
      <4> QED BY <4>1, <4>2
    <3>2. Terminated(read)[w] = IF w # host.worker THEN read[w] ELSE v
      BY <1>2 DEF Terminated
    <3> HIDE DEF u
    <3>3. v.job = u.job /\ v.mail = u.mail
      BY <3>1 DEF Workers
    <3> QED BY <3>1, <3>2, <3>3
  <2> QED BY <2>1, <2>2
<1> HIDE DEF stopped
<1>6. \/ workers' \in {read, stopped}
      \/ workers' = Terminated(read) /\ host'.worker = 0
  <2>1. Register(g, read) => workers' \in {read, stopped}
    BY DEF Register, stopped
  <2>2. ASSUME EndRequest(WithoutWorker(host)) PROVE host'.worker = 0
    BY <2>2 DEF EndRequest, Answer, Cleared, WithoutWorker, TypeOK, Hosts
  <2> QED BY <2>1, <2>2 DEF ReadMail, read, stopped
<1> QED BY <1>2, <1>3, <1>4, <1>5, <1>6

LEMMA ReadMailKeepsTurns ==
    ASSUME TypeOK, ClientTurn, Speaking, Turns, NEW g \in DOMAIN workers, ReadMail(g)
    PROVE  Turns'
<1> DEFINE mail == workers[g].mail
           message == Head(mail)
<1>1. /\ UNCHANGED <<client, outcome, toHost>> /\ host.up
      /\ HostTurn /\ FramesTurn /\ RepliesTurn /\ WorkerTurn
  BY DEF ReadMail, Turns
<1>2. /\ message \in Messages /\ message \in Contents(mail)
      /\ \A e \in Contents(Tail(mail)) : e \in Contents(mail)
  BY MailRead
<1>3. host.worker \in 0 .. Len(workers) /\ DOMAIN workers = 1 .. Len(workers)
  BY DEF TypeOK
<1>4. InOrder(toHost') /\ \A f \in Contents(toHost') : f \in Contents(toHost)
  BY <1>1 DEF FramesTurn
<1>5. client.id # None => EndsLast(toClient, client.id)
  BY <1>1 DEF RepliesTurn
<1>6. host \in Hosts /\ host.active \in {None} \cup Ids
  BY SessionTypes
<1>7. ASSUME host'.active = host.active, host'.plan = host.plan, UNCHANGED toClient,
             host'.canceledPlan = host.canceledPlan
      PROVE  HostTurn' /\ FramesTurn' /\ RepliesTurn'
  <2>1. HostTurn'
    BY <1>1, <1>7 DEF HostTurn
  <2>2. /\ Ended' = Ended /\ Working' = Working
        /\ \A f : /\ InHand(f)' <=> InHand(f)
                  /\ FrameFits(f)' <=> FrameFits(f)
                  /\ Discarded(f)' <=> Discarded(f)
                  /\ ReplyFits(f)' <=> ReplyFits(f)
                  /\ Final(f)' <=> Final(f)
    BY <1>1, <1>7 DEF Ended, Working, InHand, FrameFits, Discarded, ReplyFits, Final
  <2>3. FramesTurn'
    <3>1. \A f \in Contents(toHost') : FrameFound(f)'
      BY <1>1, <1>7, <2>2 DEF FramesTurn, FrameFound
    <3> QED BY <1>1, <1>7, <2>2, <3>1 DEF FramesTurn
  <2>4. RepliesTurn'
    <3>1. \A e \in Contents(toClient') : ReplyFound(e)'
      BY <1>1, <1>7, <2>2 DEF RepliesTurn, ReplyFound
    <3> QED BY <1>1, <1>5, <1>7, <3>1 DEF RepliesTurn
  <2> QED BY <2>1, <2>3, <2>4
(* What is left of the mail is as harmless as it was.                       *)
<1>8. ASSUME host'.active = host.active, host'.plan = host.plan, host'.worker = host.worker
      PROVE  WorkerTurn'
  <2>1. CASE host.worker = 0
    BY <1>8, <2>1 DEF WorkerTurn
  <2>2. CASE host.worker # 0
    <3> DEFINE w == host.worker
    <3>1. w \in DOMAIN workers /\ Busy(workers[w])
      BY <1>1, <1>3, <2>2 DEF WorkerTurn
    <3>2. Working' = Working
      BY <1>8 DEF Working
    <3>3. /\ workers'[w].job = workers[w].job /\ workers'[w].state = workers[w].state
          /\ workers'[w].mail = IF w = g THEN Tail(workers[w].mail) ELSE workers[w].mail
      BY <1>8, <2>2, <3>1, MailLeaves
    <3>4. OneAnswer(workers'[w].mail)
      BY <3>1, <3>3, MailRead DEF Busy
    <3>5. \A e \in Contents(workers'[w].mail) : e \in Contents(workers[w].mail)
      BY <1>2, <3>3
    <3>6. Busy(workers[host.worker])'
      BY <1>8, <3>1, <3>2, <3>3, <3>4, <3>5 DEF Busy
    <3> QED BY <3>6 DEF WorkerTurn
  <2> QED BY <2>1, <2>2
(* The answer of the worker at work leaves it at rest.                      *)
<1>9. ASSUME g = host.worker, IsAnswer(message), host'.worker = host.worker
      PROVE  WorkerTurn'
  <2>1. Busy(workers[g])
    BY <1>1, <1>3, <1>9 DEF WorkerTurn
  <2>2. /\ workers'[g].job = workers[g].job /\ workers'[g].state = workers[g].state
        /\ workers'[g].mail = Tail(mail)
    BY <1>3, <1>9, MailLeaves
  <2>3. /\ OneAnswer(Tail(mail)) /\ \A m \in Contents(Tail(mail)) : ~IsAnswer(m)
    BY <1>9, <2>1, MailRead DEF Busy
  <2>4. workers[g].job = None
    BY <1>2, <1>9, <2>1 DEF Busy
  <2>5. ~IdleFailure => \A m \in Contents(Tail(mail)) : ~IsEnd(m)
    BY <1>2, <1>9, <2>1 DEF Busy
  <2>6. Busy(workers[host.worker])'
    BY <1>9, <2>1, <2>2, <2>3, <2>4, <2>5 DEF Busy
  <2> QED BY <2>6 DEF WorkerTurn
(* The worker has ended: the request in hand ends with an error.            *)
<1>10. ASSUME g = host.worker, IsEnd(message), EndRequest(WithoutWorker(host))
       PROVE  Turns'
  <2> DEFINE h == WithoutWorker(host)
             m == Reply("error", host.active)
  <2>1. h.active = host.active /\ h.plan = host.plan /\ h.worker = 0
        /\ h.canceledPlan = host.canceledPlan /\ h \in Hosts
    BY <1>6, SessionTypes DEF WithoutWorker, Hosts
  <2>2. /\ Cleared(h).active = None /\ Cleared(h).plan = NoPlan /\ Cleared(h).worker = 0
        /\ Cleared(h).canceledPlan = host.canceledPlan
    BY <2>1 DEF Cleared, Hosts
  <2> HIDE DEF h, m
  <2>3. CASE host.active = None
    <3>1. host' = h /\ UNCHANGED toClient
      BY <1>10, <2>3 DEF EndRequest, h
    <3>2. WorkerTurn'
      BY <2>1, <3>1 DEF WorkerTurn
    <3> QED BY <1>7, <2>1, <3>1, <3>2 DEF Turns
  <2>4. CASE host.active # None
    <3>1. host' = Cleared(h) /\ toClient' = Append(toClient, m)
      BY <1>10, <2>4 DEF EndRequest, Answer, h, m
    <3>2. m \in Replies /\ m.id = host.active /\ Final(m) /\ ReplyFits(m)
      <4>1. m \in Replies
        BY <1>6, ReplyTypes DEF m
      <4> QED BY <4>1 DEF Reply, Final, ReplyFits, m
    <3>3. /\ \A e \in Contents(toClient') : e \in Contents(toClient) \/ e = m
          /\ EndsLast(toClient', client.id)
      BY <1>1, <2>4, <3>1, <3>2, FinalReply
    <3>4. ~IdleFailure => \A f \in Contents(toHost') : f.id # None => f.id = host'.canceledPlan
      <4>1. ~IdleFailure => Working
        BY <1>1, <1>2, <1>3, <1>10 DEF WorkerTurn, Busy
      <4> QED BY <1>1, <1>4, <2>4, <4>1, InHandQuiet
    <3>a. ~IdleFailure => \A e \in Contents(toClient) :
             e.id = client.id => e.id = host'.canceledPlan
      <4>1. ~IdleFailure => Working
        BY <1>1, <1>2, <1>3, <1>10 DEF WorkerTurn, Busy
      <4> QED BY <1>1, <1>4, <2>4, <4>1, InHandQuiet
    <3>5. HostTurn' /\ FramesTurn' /\ RepliesTurn'
      BY <1>1, <1>4, <2>2, <2>4, <3>1, <3>2, <3>3, <3>4, <3>a, Finishes
    <3>6. WorkerTurn'
      BY <2>2, <3>1 DEF WorkerTurn
    <3> QED BY <3>5, <3>6 DEF Turns
  <2> QED BY <2>3, <2>4
(* The answer is that to the request in hand.                               *)
<1>11. ASSUME g = host.worker, IsAnswer(message), TakeReply(g, message)
       PROVE  Turns'
  <2>1. Working /\ message.id = host.active /\ host.active # None
    BY <1>1, <1>2, <1>3, <1>11 DEF WorkerTurn, Busy, Working
  <2>2. /\ host.active = client.id /\ client.id # None
        /\ \A f \in Contents(toHost') : f \in Contents(toHost) /\ f.id = None
        /\ \A e \in Contents(toClient) : e.id # client.id
    BY <1>1, <1>4, <2>1, InHandQuiet
  <2>3. ASSUME NEW h, NEW kind \in {message.kind, "error"}, Answer(h, Reply(kind, message.id)),
               h.active = None, h.plan = NoPlan, h.worker = host.worker,
               kind = "result" => client.kind # "plan"
        PROVE  Turns'
    <3> DEFINE m == Reply(kind, message.id)
    <3>1. host' = h /\ toClient' = Append(toClient, m)
      BY <2>3 DEF Answer
    <3>2. m \in Replies /\ m.id = host.active /\ Final(m) /\ ReplyFits(m)
      <4>1. kind \in {"result", "error"}
        BY <1>11 DEF IsAnswer
      <4>2. m \in Replies
        BY <1>6, <2>1, <4>1, ReplyTypes
      <4> QED BY <2>1, <2>3, <4>1, <4>2 DEF Reply, Final, ReplyFits
    <3> HIDE DEF m
    <3>3. /\ \A e \in Contents(toClient') : e \in Contents(toClient) \/ e = m
          /\ EndsLast(toClient', client.id)
      BY <1>1, <2>1, <3>1, <3>2, FinalReply
    <3>4. HostTurn' /\ FramesTurn' /\ RepliesTurn'
      BY <1>1, <1>4, <2>1, <2>2, <2>3, <3>1, <3>2, <3>3, Finishes
    <3>5. WorkerTurn'
      BY <1>9, <1>11, <2>3, <3>1
    <3> QED BY <3>4, <3>5 DEF Turns
  <2>4. CASE host.plan.phase = "processing"
    <3>1. /\ host.plan # NoPlan /\ host.plan.id = client.id /\ client.kind = "plan"
          /\ client.paging
      BY <1>1, <2>2, <2>4 DEF HostTurn, NoPlan
    <3>2. ASSUME NEW pages \in 1 .. Pages,
                 SendPage([host.plan EXCEPT !.phase = "result", !.pages = pages])
          PROVE  Turns'
      <4> DEFINE plan == [host.plan EXCEPT !.phase = "result", !.pages = pages]
      <4>1. plan \in Plans /\ plan.id = client.id /\ plan.phase = "result"
        <5>1. pages \in Nat
          OBVIOUS
        <5> QED BY <3>1, <5>1, SessionTypes DEF Plans
      <4> HIDE DEF plan
      <4>2. /\ HostTurn' /\ FramesTurn' /\ RepliesTurn'
            /\ host'.worker = host.worker
        BY <1>1, <1>4, <2>1, <2>2, <3>1, <3>2, <4>1, SendsPage DEF plan
      <4>3. WorkerTurn'
        BY <1>9, <1>11, <4>2
      <4> QED BY <4>2, <4>3 DEF Turns
    <3>3. /\ Cleared(host).active = None /\ Cleared(host).plan = NoPlan
          /\ Cleared(host).worker = host.worker
      BY <1>6 DEF Cleared, Hosts
    <3> QED BY <1>11, <2>1, <2>3, <2>4, <3>2, <3>3 DEF TakeReply
  <2>5. CASE host.plan.phase # "processing"
    <3>1. host.plan = NoPlan /\ client.kind # "plan"
      BY <1>1, <2>1, <2>5 DEF Working, HostTurn
    <3> DEFINE h == [host EXCEPT !.active = None]
    <3>2. h.active = None /\ h.plan = NoPlan /\ h.worker = host.worker
      BY <1>6, <3>1 DEF Hosts
    <3>3. Answer(h, Reply(message.kind, message.id))
      BY <1>11, <2>1, <2>5 DEF TakeReply
    <3> HIDE DEF h
    <3> QED BY <2>3, <3>1, <3>2, <3>3
  <2> QED BY <2>4, <2>5
<1>12. CASE /\ UNCHANGED toClient
            /\ host' \in {host, [host EXCEPT !.children = @ \cup {g}],
                          [host EXCEPT !.children = @ \ {g}]}
  <2>1. /\ host'.active = host.active /\ host'.plan = host.plan
        /\ host'.worker = host.worker /\ host'.canceledPlan = host.canceledPlan
    BY <1>6, <1>12 DEF Hosts
  <2> QED BY <1>7, <1>8, <1>12, <2>1 DEF Turns
<1>13. CASE IsAnswer(message) /\ TakeReply(g, message)
  BY <1>11, <1>12, <1>13 DEF TakeReply
<1>14. CASE g = host.worker /\ IsEnd(message) /\ EndRequest(WithoutWorker(host))
  BY <1>10, <1>14
<1> QED BY <1>12, <1>13, <1>14 DEF ReadMail, Register, IsAnswer, IsEnd

-----------------------------------------------------------------------------
(* The other steps.                                                         *)

LEMMA PostsMail ==
    ASSUME TypeOK, NEW g \in DOMAIN workers, NEW messages, NEW w, Posts(g, messages, w)
    PROVE  /\ DOMAIN workers' = DOMAIN workers
           /\ workers'[g] = [w EXCEPT !.mail = @ \o messages]
           /\ \A v \in DOMAIN workers : v # g => workers'[v] = workers[v]
  BY DEF Posts, TypeOK

LEMMA PostedMail ==
    ASSUME NEW w \in Workers, NEW messages,
           \E a \in Messages, b \in Messages :
               messages = <<a>> \/ (messages = <<a, b>> /\ ~IsAnswer(b)),
           OneAnswer(w.mail),
           \A a \in Contents(messages) : IsAnswer(a) => \A e \in Contents(w.mail) : ~IsAnswer(e)
    PROVE  /\ OneAnswer(w.mail \o messages)
           /\ Contents(w.mail \o messages) = Contents(w.mail) \cup Contents(messages)
<1>1. w.mail \in Seq(Messages)
  BY DEF Workers
<1>2. PICK a \in Messages, b \in Messages :
         messages = <<a>> \/ (messages = <<a, b>> /\ ~IsAnswer(b))
  OBVIOUS
<1>3. /\ Append(w.mail, a) \in Seq(Messages)
      /\ Contents(Append(w.mail, a)) = Contents(w.mail) \cup {a}
  BY <1>1, AppendProperties, AppendedContents
<1>4. CASE messages = <<a>>
  <2>1. w.mail \o messages = Append(w.mail, a)
    BY <1>1, <1>4, OneMessage
  <2>2. Contents(messages) = {a}
    BY <1>4 DEF Contents
  <2> QED BY <1>1, <1>3, <2>1, <2>2, AppendOneAnswer
<1>5. CASE messages = <<a, b>> /\ ~IsAnswer(b)
  <2> DEFINE first == Append(w.mail, a)
  <2>1. w.mail \o messages = Append(first, b)
    BY <1>1, <1>5, TwoMessages
  <2>2. Contents(messages) = {a, b}
    <3>1. DOMAIN <<a, b>> = {1, 2} /\ <<a, b>>[1] = a /\ <<a, b>>[2] = b
      OBVIOUS
    <3> QED BY <1>5, <3>1 DEF Contents
  <2>3. OneAnswer(first)
    BY <1>1, <2>2, AppendOneAnswer
  <2>4. first \in Seq(Messages) /\ Contents(first) = Contents(w.mail) \cup {a}
    BY <1>3
  <2> HIDE DEF first
  <2>5. OneAnswer(Append(first, b)) /\ Contents(Append(first, b)) = Contents(first) \cup {b}
    BY <1>5, <2>3, <2>4, AppendOneAnswer, AppendedContents
  <2> QED BY <2>1, <2>2, <2>4, <2>5
<1> QED BY <1>2, <1>4, <1>5

(* Only the worker's own steps concern the request; nothing else of the      *)
(* conversation changes.                                                    *)
LEMMA SameTurns ==
    ASSUME Turns, UNCHANGED <<client, outcome, toHost, toClient>>,
           host'.active = host.active, host'.plan = host.plan,
           host'.canceledPlan = host.canceledPlan, WorkerTurn'
    PROVE  Turns'
<1>1. HostTurn'
  BY DEF Turns, HostTurn
<1>2. /\ Ended' = Ended /\ Working' = Working
      /\ \A f : /\ InHand(f)' <=> InHand(f)
                /\ FrameFits(f)' <=> FrameFits(f)
                /\ Discarded(f)' <=> Discarded(f)
                /\ ReplyFits(f)' <=> ReplyFits(f)
                /\ Final(f)' <=> Final(f)
  BY DEF Ended, Working, InHand, FrameFits, Discarded, ReplyFits, Final
<1>3. FramesTurn'
  <2>1. \A f \in Contents(toHost') : FrameFound(f)'
    BY <1>2 DEF Turns, FramesTurn, FrameFound
  <2> QED BY <1>2, <2>1 DEF Turns, FramesTurn
<1>4. RepliesTurn'
  <2>1. \A e \in Contents(toClient') : ReplyFound(e)'
    BY <1>2 DEF Turns, RepliesTurn, ReplyFound
  <2> QED BY <2>1 DEF Turns, RepliesTurn
<1> QED BY <1>1, <1>3, <1>4 DEF Turns

LEMMA WorkerKeepsTurns ==
    ASSUME TypeOK, ClientTurn, Speaking, Turns, NEW g \in DOMAIN workers, Worker(g)
    PROVE  Turns'
<1> DEFINE w == workers[g]
<1>1. OthersUnchanged
  BY DEF Worker, Spawn, CompilerExits, WorkerReplies, WorkerFails, WorkerStops
<1>2. w \in Workers /\ w.job \in {None} \cup Ids
  <2>1. w \in Workers
    BY SequenceElement DEF TypeOK
  <2> QED BY <2>1 DEF Workers
<1>3. SUFFICES ASSUME host.up, host.worker # 0 PROVE Busy(workers[host.worker])'
  BY <1>1, SameTurns DEF OthersUnchanged, WorkerTurn
<1>4. host.worker \in DOMAIN workers /\ Busy(workers[host.worker])
  BY <1>3 DEF Turns, WorkerTurn, TypeOK
<1>5. Working' = Working /\ host' = host
  BY <1>1 DEF Working, OthersUnchanged
<1>6. CASE g # host.worker
  <2>1. workers'[host.worker] = workers[host.worker]
    BY <1>4, <1>6, PostsMail DEF Worker, Spawn, CompilerExits, WorkerReplies, WorkerFails,
                                 WorkerStops
  <2> QED BY <1>4, <1>5, <2>1 DEF Busy
<1>7. CASE g = host.worker
  <2>1. Busy(w)
    BY <1>4, <1>7
  <2>2. \A kind \in {"compiler_child", "compiler_child_exit", "result", "error", "failed",
                     "exited"}, id \in {None} \cup Ids : Mail(kind, id) \in Messages
    BY DEF Mail, Messages
  <2>3. CASE Spawn(g) \/ CompilerExits(g)
    <3>1. PICK kind \in {"compiler_child", "compiler_child_exit"}, c \in {"running", "stopped"} :
             Posts(g, <<Mail(kind, None)>>, [w EXCEPT !.compiler = c])
      BY <2>3 DEF Spawn, CompilerExits
    <3> DEFINE v == [w EXCEPT !.compiler = c]
               messages == <<Mail(kind, None)>>
    <3>2. v \in Workers /\ v.mail = w.mail /\ v.job = w.job /\ v.state = w.state
      BY <1>2 DEF Workers
    <3>3. Contents(messages) = {Mail(kind, None)}
      BY DEF Contents
    <3>4. ~IsAnswer(Mail(kind, None)) /\ ~IsEnd(Mail(kind, None))
      BY DEF Mail, IsAnswer, IsEnd
    <3> HIDE DEF v
    <3>5. /\ OneAnswer(v.mail \o messages)
          /\ Contents(v.mail \o messages) = Contents(v.mail) \cup Contents(messages)
      BY <2>1, <2>2, <3>2, <3>3, <3>4, PostedMail DEF Busy
    <3>6. workers'[g] = [v EXCEPT !.mail = @ \o messages]
      BY <3>1, PostsMail DEF v
    <3> HIDE DEF messages
    <3>7. /\ workers'[g].mail = v.mail \o messages /\ workers'[g].job = w.job
          /\ workers'[g].state = w.state
      BY <3>2, <3>6 DEF Workers
    <3> QED BY <1>5, <1>7, <2>1, <3>2, <3>3, <3>4, <3>5, <3>7 DEF Busy
  <2>4. CASE WorkerReplies(g)
    <3>1. PICK kind \in {"result", "error"} :
             Posts(g, <<Mail(kind, w.job)>>, [w EXCEPT !.job = None])
      BY <2>4 DEF WorkerReplies
    <3> DEFINE v == [w EXCEPT !.job = None]
               message == Mail(kind, w.job)
               messages == <<message>>
    <3>2. v \in Workers /\ v.mail = w.mail /\ v.job = None /\ v.state = w.state
      BY <1>2 DEF Workers
    <3>3. Contents(messages) = {message}
      BY DEF Contents
    <3>4. IsAnswer(message) /\ ~IsEnd(message) /\ message.id = w.job /\ message \in Messages
      BY <1>2, <2>2 DEF Mail, IsAnswer, IsEnd
    <3>5. /\ w.job # None /\ w.job = host.active /\ Working
          /\ \A m \in Contents(w.mail) : ~IsAnswer(m)
          /\ ~IdleFailure => \A m \in Contents(w.mail) : ~IsEnd(m)
      BY <2>1, <2>4 DEF WorkerReplies, Busy
    <3>a. \A a \in Contents(messages) : IsAnswer(a) =>
             \A e \in Contents(v.mail) : ~IsAnswer(e)
      BY <3>2, <3>5
    <3>b. \E a \in Messages, b \in Messages :
             messages = <<a>> \/ (messages = <<a, b>> /\ ~IsAnswer(b))
      BY <3>4
    <3>c. OneAnswer(v.mail)
      BY <2>1, <3>2 DEF Busy
    <3>d. Posts(g, messages, v)
      BY <3>1
    <3> HIDE DEF v, message, messages
    <3>6. /\ OneAnswer(v.mail \o messages)
          /\ Contents(v.mail \o messages) = Contents(v.mail) \cup Contents(messages)
      BY <3>2, <3>a, <3>b, <3>c, PostedMail
    <3>7. workers'[g] = [v EXCEPT !.mail = @ \o messages]
      BY <3>d, PostsMail
    <3>8. /\ workers'[g].mail = v.mail \o messages /\ workers'[g].job = None
          /\ workers'[g].state = w.state
      BY <3>2, <3>7 DEF Workers
    <3> QED BY <1>5, <1>7, <2>1, <3>2, <3>3, <3>4, <3>5, <3>6, <3>8 DEF Busy
  <2>5. CASE WorkerFails(g)
    <3>1. PICK messages \in {<<Mail("failed", None), Mail("exited", None)>>,
                             <<Mail("exited", None)>>} :
             Posts(g, messages, [w EXCEPT !.state = "dead", !.job = None])
      BY <2>5 DEF WorkerFails
    <3> DEFINE v == [w EXCEPT !.state = "dead", !.job = None]
    <3>2. v \in Workers /\ v.mail = w.mail /\ v.job = None /\ v.state = "dead"
      BY <1>2 DEF Workers
    <3>3. \A m \in Contents(messages) : ~IsAnswer(m)
      <4>1. ~IsAnswer(Mail("failed", None)) /\ ~IsAnswer(Mail("exited", None))
        BY DEF Mail, IsAnswer
      <4>2. \A i \in DOMAIN messages :
               messages[i] \in {Mail("failed", None), Mail("exited", None)}
        BY <3>1
      <4> QED BY <4>1, <4>2 DEF Contents
    <3>4. ~IsAnswer(Mail("exited", None))
      BY DEF Mail, IsAnswer
    <3>5. \E a \in Messages, b \in Messages :
             messages = <<a>> \/ (messages = <<a, b>> /\ ~IsAnswer(b))
      BY <2>2, <3>1, <3>4
    <3>6. ~IdleFailure => Working /\ \A m \in Contents(w.mail) : ~IsAnswer(m)
      BY <2>1, <2>5 DEF WorkerFails, Busy
    <3> HIDE DEF v
    <3>7. /\ OneAnswer(v.mail \o messages)
          /\ Contents(v.mail \o messages) = Contents(v.mail) \cup Contents(messages)
      BY <2>1, <3>2, <3>3, <3>5, PostedMail DEF Busy
    <3>8. workers'[g] = [v EXCEPT !.mail = @ \o messages]
      BY <3>1, PostsMail DEF v
    <3>9. /\ workers'[g].mail = v.mail \o messages /\ workers'[g].job = None
          /\ workers'[g].state = "dead"
      BY <3>2, <3>8 DEF Workers
    <3>10. \A m \in Contents(w.mail) : IsAnswer(m) => m.id = host.active /\ Working
      BY <2>1 DEF Busy
    <3> QED BY <1>5, <1>7, <3>2, <3>3, <3>6, <3>7, <3>9, <3>10 DEF Busy
  <2>6. CASE WorkerStops(g)
    BY <2>1, <2>6 DEF WorkerStops, Busy
  <2> QED BY <2>3, <2>4, <2>5, <2>6 DEF Worker
<1> QED BY <1>6, <1>7

LEMMA HostFailsKeepsTurns ==
    ASSUME TypeOK, Turns, HostFails
    PROVE  Turns'
<1>1. /\ host'.up = FALSE /\ host'.active = host.active /\ host'.plan = host.plan
      /\ host'.canceledPlan = host.canceledPlan
  BY DEF HostFails, Exit, TypeOK, Hosts
<1>2. WorkerTurn'
  BY <1>1 DEF WorkerTurn
<1> QED BY <1>1, <1>2, SameTurns DEF HostFails

LEMMA ControlKeepsTurns ==
    ASSUME TypeOK, ClientTurn, Turns, Speaking, NEW c \in Controllers, Control(c)
    PROVE  Turns'
<1>1. UNCHANGED <<client, outcome, toClient, host, workers>>
  BY DEF Control, ReadTarget, WriteCancel
<1>2. WorkerTurn'
  BY <1>1, WorkerUntouched DEF Turns
<1>3. CASE UNCHANGED toHost
  BY <1>1, <1>2, <1>3, SameTurns
<1>4. CASE /\ aim[c] # None
           /\ toHost' = Append(toHost, [Frame("cancel", None) EXCEPT !.target = aim[c]])
  <2>1. [Frame("cancel", None) EXCEPT !.target = aim[c]] \in Frames
    BY FrameTypes DEF TypeOK
  <2>a. PICK frame \in Frames : frame = [Frame("cancel", None) EXCEPT !.target = aim[c]]
    BY <2>1
  <2>2. frame.id = None /\ frame.kind = "cancel" /\ frame.target # None
    BY <1>4, <2>a DEF Frame
  <2>3. /\ toHost \in Seq(Frames) /\ Contents(toHost') = Contents(toHost) \cup {frame}
        /\ InOrder(toHost')
    <3>1. toHost \in Seq(Frames) /\ InOrder(toHost) /\ toHost' = Append(toHost, frame)
      BY <1>4, <2>a, TurnFacts DEF Turns, FramesTurn
    <3> QED BY <2>2, <3>1, AppendedContents, AppendInOrder
  <2>4. /\ Ended' = Ended /\ Working' = Working
        /\ \A f : /\ InHand(f)' <=> InHand(f)
                  /\ FrameFits(f)' <=> FrameFits(f)
                  /\ Discarded(f)' <=> Discarded(f)
                  /\ ReplyFits(f)' <=> ReplyFits(f)
                  /\ Final(f)' <=> Final(f)
    BY <1>1 DEF Ended, Working, InHand, FrameFits, Discarded, ReplyFits, Final
  <2>5. FramesTurn'
    <3>1. \A f \in Contents(toHost) : FrameFound(f)'
      BY <1>1, <2>4 DEF Turns, FramesTurn, FrameFound
    <3>2. FrameFound(frame)' /\ Discarded(frame)'
      BY <2>2 DEF FrameFound, Discarded
    <3> QED BY <1>1, <2>3, <2>4, <3>1, <3>2 DEF Turns, FramesTurn
  <2>6. RepliesTurn'
    <3>1. ~InHand(frame)
      BY <2>2 DEF InHand
    <3>2. \A e \in Contents(toClient') : ReplyFound(e)'
      BY <1>1, <2>3, <2>4, <3>1 DEF Turns, RepliesTurn, ReplyFound
    <3> QED BY <1>1, <3>2 DEF Turns, RepliesTurn
  <2>7. HostTurn'
    BY <1>1 DEF Turns, HostTurn
  <2> QED BY <1>2, <2>5, <2>6, <2>7 DEF Turns
<1> QED BY <1>3, <1>4 DEF Control, ReadTarget, WriteCancel

(* The worker's turn says nothing of the client.                            *)
LEMMA ClientLeavesWorker ==
    ASSUME WorkerTurn, UNCHANGED <<host, workers>>
    PROVE  WorkerTurn'
BY WorkerUntouched

LEMMA PoisonEnds ==
    ASSUME NEW how, Poison(how)
    PROVE  ClientTurn' /\ ~Speaking'
  BY DEF Poison, ClientTurn, Speaking, Idle

LEMMA BeginKeepsConversation ==
    ASSUME TypeOK, ClientTurn, Turns, Begin
    PROVE  Conversation'
<1> DEFINE id == Len(outcome) + 1
<1>1. client.pc = "idle" /\ Speaking
  BY DEF Begin, Speaking
<1>2. PICK kind \in Kinds, chunks \in 0 .. Chunks :
         /\ IF host.up
            THEN /\ client' = [Idle EXCEPT !.pc = "calling", !.id = id,
                                           !.kind = kind, !.chunks = chunks]
                 /\ active' = IF kind = "capabilities" THEN active ELSE id
                 /\ toHost' = Append(toHost, IF kind = "plan" THEN Upload(id, chunks)
                                                              ELSE Frame(kind, id))
                 /\ UNCHANGED outcome
            ELSE Poison("failed") /\ UNCHANGED toHost
  BY DEF Begin
<1>3. CASE ~host.up
  BY <1>2, <1>3, PoisonEnds DEF Conversation
<1>4. CASE host.up
  <2>1. /\ client' = [Idle EXCEPT !.pc = "calling", !.id = id, !.kind = kind, !.chunks = chunks]
        /\ toHost' = Append(toHost, IF kind = "plan" THEN Upload(id, chunks) ELSE Frame(kind, id))
        /\ UNCHANGED <<outcome, toClient, host, workers>>
    BY <1>2, <1>4 DEF Begin
  <2>2. /\ client'.pc = "calling" /\ client'.id = id /\ client'.kind = kind
        /\ client'.sent = 0 /\ client'.paging = FALSE
    BY <2>1 DEF Idle
  <2>3. id \in Ids /\ id # None /\ id \notin Ended /\ chunks \in Nat /\ Len(outcome) \in Nat
    BY <1>1, SidecarAssumption, ConstantTypes, TurnFacts DEF Begin, Ids, Ended, None
  <2>a. (IF kind = "plan" THEN Upload(id, chunks) ELSE Frame(kind, id)) \in Frames
    BY <2>3, FrameTypes DEF Kinds
  <2>b. PICK frame \in Frames :
           frame = IF kind = "plan" THEN Upload(id, chunks) ELSE Frame(kind, id)
    BY <2>a
  <2>4. frame.id = id /\ toHost' = Append(toHost, frame)
    BY <2>1, <2>b DEF Upload, Frame
  <2>5. frame.kind = (IF kind = "plan" THEN "plan_begin" ELSE kind) /\ frame.kind \in Openings
    BY <2>b DEF Upload, Frame, Openings, Kinds
  <2>6. client.id = None /\ host.active = None /\ host.plan = NoPlan /\ active = None
    BY <1>1 DEF Turns, HostTurn, ClientTurn
  <2>7. ClientTurn'
    <3>1. active' \in {None, id}
      BY <1>2, <1>4, <2>6
    <3> QED BY <2>1, <2>2, <3>1 DEF ClientTurn
  <2>8. HostTurn'
    BY <2>1, <2>6 DEF HostTurn, NoPlan
  <2>9. /\ \A f \in Contents(toHost) :
               \/ f.id = None /\ f.kind = "cancel" /\ f.target # None
               \/ f.id \in Ended /\ f.kind \in PlanFrames \ Openings
        /\ \A m \in Contents(toClient) :
               \/ m.id = None /\ m.kind = "cancel_result"
               \/ m.id \in Ended /\ IdleFailure
    BY <2>6 DEF Turns, FramesTurn, FrameFound, RepliesTurn, ReplyFound, InHand
  <2>10. /\ Contents(toHost') = Contents(toHost) \cup {frame} /\ InOrder(toHost')
    <3>1. toHost \in Seq(Frames) /\ InOrder(toHost)
      BY <1>1, TurnFacts DEF Turns, FramesTurn
    <3>2. \A f \in Contents(toHost) : f.id < id
      BY <2>3, <2>9 DEF Ended, None
    <3> QED BY <2>1, <2>4, <3>1, <3>2, AppendedContents, AppendInOrder
  <2>11. FramesTurn'
    <3>0. Ended' = Ended /\ host' = host /\ ~Working'
      BY <2>1, <2>6 DEF Ended, Working
    <3>1. \A f \in Contents(toHost) : FrameFound(f)' /\ (Discarded(f) => Discarded(f)')
      BY <2>6, <2>9, <3>0 DEF FrameFound, Discarded
    <3>2. FrameFound(frame)'
      <4>1. InHand(frame)'
        BY <2>2, <2>3, <2>4 DEF InHand
      <4>2. FrameFits(frame)'
        BY <2>2, <2>5 DEF FrameFits, Kinds
      <4> QED BY <2>6, <3>0, <4>1, <4>2 DEF FrameFound
    <3>3. Discarded(frame)'
      BY <2>5 DEF Discarded
    <3> QED BY <2>6, <2>10, <3>0, <3>1, <3>2, <3>3 DEF Turns, FramesTurn
  <2>12. RepliesTurn'
    <3>1. Ended' = Ended /\ toClient' = toClient
      BY <2>1 DEF Ended
    <3>2. \A m \in Contents(toClient') : ReplyFound(m)' /\ m.id # client'.id
      BY <2>2, <2>3, <2>9, <3>1 DEF ReplyFound
    <3>3. EndsLast(toClient', client'.id)
      <4>1. \A i \in DOMAIN toClient' : toClient'[i].id # client'.id
        BY <3>2 DEF Contents
      <4> QED BY <4>1 DEF EndsLast
    <3> QED BY <3>2, <3>3 DEF RepliesTurn
  <2>13. WorkerTurn'
    BY <2>1, ClientLeavesWorker DEF Turns
  <2> QED BY <2>7, <2>8, <2>11, <2>12, <2>13 DEF Conversation, Turns
<1> QED BY <1>3, <1>4

(* A reply the client reads in its turn is one it can use.                  *)
LEMMA FitsIsExpected ==
    ASSUME NEW m, InHand(m), ReplyFits(m)
    PROVE  Expected(m)
  BY DEF InHand, ReplyFits, Expected

LEMMA ReplyRead ==
    ASSUME TypeOK, ClientTurn, Speaking, Turns, Receive
    PROVE  /\ Head(toClient) \in Replies /\ ReplyFound(Head(toClient))
           /\ Head(toClient) \in Contents(toClient)
           /\ \A m \in Contents(toClient') : m \in Contents(toClient)
           /\ toClient' \in Seq(Replies)
           /\ client.id # None => EndsLast(toClient', client.id)
           /\ client.id # None /\ Head(toClient).id = client.id =>
                 \A m \in Contents(toClient') : m.id = client.id =>
                     Final(m) /\ (Final(Head(toClient)) => IdleFailure)
<1>1. toClient \in Seq(Replies) /\ toClient # <<>> /\ toClient' = Tail(toClient)
  BY TurnFacts DEF Receive
<1>2. /\ Head(toClient) \in Contents(toClient) /\ toClient' \in Seq(Replies)
      /\ \A e \in Contents(toClient') : e \in Contents(toClient)
  BY <1>1, HeadAndTail, HeadTailProperties
<1>3. Head(toClient) \in Replies /\ ReplyFound(Head(toClient))
  BY <1>2, TurnFacts DEF Turns, RepliesTurn
<1>4. client.id # None => EndsLast(toClient, client.id)
  BY DEF Turns, RepliesTurn
<1> QED BY <1>1, <1>2, <1>3, <1>4, TailEndsLast

(* The request is over for the client: what is left of it on the pipes is    *)
(* of a request that has ended.                                             *)
LEMMA ReturnKeepsTurns ==
    ASSUME TypeOK, ClientTurn, Speaking, Turns, Receive, NEW how \in Ends, Return(how),
           UNCHANGED toHost, InHand(Head(toClient)), Final(Head(toClient))
    PROVE  Conversation'
<1>1. /\ outcome' = Append(outcome, how) /\ client' = Idle /\ active' = None
      /\ UNCHANGED <<host, workers>>
  BY DEF Return, Record, Receive
<1>2. client.id = Len(outcome) + 1 /\ client.id # None /\ Len(outcome) \in Nat
  BY TurnFacts DEF Receive, ClientTurn, InHand
<1>3. /\ \A id : id \in Ended' <=> id \in Ended \/ id = client.id
      /\ client'.id = None /\ client'.pc = "idle"
  <2>1. Len(outcome') = Len(outcome) + 1
    BY <1>1, TurnFacts
  <2>2. \A id : id \in 1 .. (Len(outcome) + 1) <=>
            id \in 1 .. Len(outcome) \/ id = Len(outcome) + 1
    BY <1>2
  <2> QED BY <1>1, <1>2, <2>1, <2>2 DEF Ended, Idle
<1>4. /\ ReplyFound(Head(toClient)) /\ Head(toClient).id = client.id
      /\ \A m \in Contents(toClient') : m \in Contents(toClient)
      /\ \A m \in Contents(toClient') : m.id = client.id => IdleFailure
  BY <1>2, ReplyRead DEF InHand
<1>5. host.active = None /\ \A f \in Contents(toHost) : InHand(f) => f.kind \notin Openings
  BY <1>2, <1>4, TurnFacts DEF ReplyFound
<1>6. ClientTurn'
  BY <1>1, <1>3 DEF ClientTurn
<1>7. host.plan = NoPlan
  BY <1>5 DEF Turns, HostTurn
<1>8. HostTurn'
  BY <1>1, <1>5, <1>7 DEF HostTurn, NoPlan
<1>9. FramesTurn'
  <2>1. ASSUME NEW f \in Contents(toHost)
        PROVE  FrameFound(f)'
    <3>1. FrameFound(f)
      BY DEF Turns, FramesTurn
    <3>2. InHand(f) => f.kind \in PlanFrames \ Openings /\ f.id = client.id
      BY <1>5, <3>1, TurnFacts DEF FrameFound, FrameFits, PlanFrames, Openings, InHand
    <3> QED BY <1>1, <1>3, <1>5, <3>1, <3>2 DEF FrameFound
  <2>2. \A f \in Contents(toHost) : Discarded(f) => Discarded(f)'
    BY <1>1 DEF Discarded
  <2> QED BY <1>1, <2>1, <2>2 DEF Turns, FramesTurn
<1>10. RepliesTurn'
  <2>1. ASSUME NEW m \in Contents(toClient')
        PROVE  ReplyFound(m)'
    <3>1. ReplyFound(m)
      BY <1>4 DEF Turns, RepliesTurn
    <3> QED BY <1>3, <1>4, <3>1 DEF ReplyFound, InHand
  <2> QED BY <1>3, <2>1 DEF RepliesTurn
<1>11. WorkerTurn'
  BY <1>1, ClientLeavesWorker DEF Turns
<1> QED BY <1>6, <1>8, <1>9, <1>10, <1>11 DEF Conversation, Turns

(* The client's turn: it writes the next frame of its plan.                 *)
LEMMA WriteKeepsTurns ==
    ASSUME TypeOK, ClientTurn, Speaking, Turns, Receive,
           NEW frame \in Frames, NEW state, Write(frame, state),
           InHand(Head(toClient)), ~Final(Head(toClient)),
           frame.id = client.id, frame.kind \notin Openings,
           state.pc = client.pc, state.id = client.id, state.kind = client.kind,
           client.paging => state.paging, client.kind = "plan",
           \/ frame.kind = "plan_add" /\ state.sent > 0 /\ ~state.paging
           \/ frame.kind \in {"plan_finish", "plan_next"} /\ state.paging
    PROVE  Conversation'
<1>1. CASE ~host.up
  BY <1>1, PoisonEnds DEF Write, Conversation
<1>2. CASE host.up
  <2>1. /\ toHost' = Append(toHost, frame) /\ client' = state
        /\ UNCHANGED <<active, outcome, host, workers>>
    BY <1>2 DEF Write, Receive
  <2>2. client.id = Len(outcome) + 1 /\ client.id # None /\ Len(outcome) \in Nat
    BY TurnFacts DEF Receive, ClientTurn, InHand
  <2>3. /\ ReplyFound(Head(toClient)) /\ Head(toClient).id = client.id
        /\ \A m \in Contents(toClient') : m \in Contents(toClient)
        /\ \A m \in Contents(toClient') : m.id = client.id => Final(m)
        /\ EndsLast(toClient', client.id)
    BY <2>2, ReplyRead DEF InHand
  <2>4. /\ ~Working /\ (~IdleFailure /\ host.active = None => client.id = host.canceledPlan)
        /\ \A f \in Contents(toHost) : ~InHand(f)
    BY <2>2, <2>3, TurnFacts DEF ReplyFound
  <2>5. ClientTurn'
    BY <2>1 DEF ClientTurn
  <2>6. HostTurn'
    BY <2>1 DEF Turns, HostTurn
  <2>7. Ended' = Ended /\ Working' = Working /\ \A f : InHand(f)' <=> InHand(f)
    BY <2>1 DEF Ended, Working, InHand
  <2>8. Contents(toHost') = Contents(toHost) \cup {frame} /\ InOrder(toHost')
    <3>1. toHost \in Seq(Frames) /\ InOrder(toHost)
      BY TurnFacts DEF Turns, FramesTurn
    <3>2. \A f \in Contents(toHost) : f.id < client.id
      BY <2>2, <2>4 DEF Turns, FramesTurn, FrameFound, Ended, None
    <3> QED BY <2>1, <3>1, <3>2, AppendedContents, AppendInOrder
  <2>9. FramesTurn'
    <3>1. \A f \in Contents(toHost) : FrameFound(f)' /\ (Discarded(f) => Discarded(f)')
      BY <2>1, <2>4, <2>7 DEF Turns, FramesTurn, FrameFound, Discarded
    <3>2. FrameFound(frame)'
      <4>1. InHand(frame)' /\ FrameFits(frame)'
        BY <2>1, <2>2 DEF InHand, FrameFits
      <4> QED BY <2>4, <2>7, <4>1 DEF FrameFound
    <3>3. ~IdleFailure /\ host.active = None => Discarded(frame)'
      BY <2>1, <2>4 DEF Discarded
    <3> QED BY <2>1, <2>8, <3>1, <3>2, <3>3 DEF Turns, FramesTurn
  <2>10. RepliesTurn'
    <3>1. ASSUME NEW m \in Contents(toClient')
          PROVE  ReplyFound(m)'
      <4>1. ReplyFound(m)
        BY <2>3 DEF Turns, RepliesTurn
      <4>2. CASE m.id \in Ended \/ m.id = None
        BY <2>2, <2>7, <4>1, <4>2, TurnFacts DEF ReplyFound, InHand
      <4>3. CASE InHand(m) /\ ReplyFits(m)
        <5>1. Final(m) /\ Final(m)'
          BY <2>3, <4>3 DEF InHand, Final
        <5>2. ReplyFits(m)'
          BY <2>1, <4>3, <5>1 DEF ReplyFits, Final
        <5>3. host.active = None
          BY <4>1, <4>3, <5>1, TurnFacts DEF ReplyFound, InHand
        <5> QED BY <2>1, <2>4, <2>7, <2>8, <4>3, <5>1, <5>2, <5>3 DEF ReplyFound
      <4> QED BY <4>1, <4>2, <4>3 DEF ReplyFound
    <3> QED BY <2>1, <2>3, <3>1 DEF RepliesTurn
  <2>11. WorkerTurn'
    BY <2>1, ClientLeavesWorker DEF Turns
  <2> QED BY <2>5, <2>6, <2>9, <2>10, <2>11 DEF Conversation, Turns
<1> QED BY <1>1, <1>2

LEMMA ReceiveKeepsConversation ==
    ASSUME TypeOK, ClientTurn, Turns, Receive
    PROVE  Conversation'
<1> DEFINE m == Head(toClient)
<1>1. client.pc = "calling" /\ Speaking /\ client \in Clients
  BY DEF Receive, Speaking, TypeOK
<1>2. /\ m \in Replies /\ ReplyFound(m)
      /\ \A e \in Contents(toClient') : e \in Contents(toClient)
      /\ client.id # None => EndsLast(toClient', client.id)
  BY <1>1, ReplyRead
<1>3. client.id # None /\ client.id = Len(outcome) + 1
  BY <1>1, TurnFacts DEF ClientTurn, None
<1>4. CASE ~InHand(m)
  <2>1. m.id # client.id
    BY <1>3, <1>4 DEF InHand
  <2>2. CASE UNCHANGED <<client, active, toHost, outcome>>
    <3>1. UNCHANGED <<client, outcome, host, toHost, workers>>
      BY <2>2 DEF Receive
    <3>2. HostTurn' /\ FramesTurn' /\ RepliesTurn'
      <4>1. InOrder(toHost') /\ \A f \in Contents(toHost') : f \in Contents(toHost)
        BY <3>1 DEF Turns, FramesTurn
      <4> QED BY <1>1, <1>2, <3>1, <4>1, DoesNothing DEF Turns
    <3>3. ClientTurn'
      BY <2>2 DEF ClientTurn
    <3>4. WorkerTurn'
      BY <3>1, ClientLeavesWorker DEF Turns
    <3> QED BY <3>2, <3>3, <3>4 DEF Conversation, Turns
  <2>3. CASE Poison("protocol")
    BY <2>3, PoisonEnds DEF Conversation
  <2>4. Expected(m) => m.kind = "cancel_result"
    BY <2>1 DEF Expected
  <2>5. Expected(m) => UNCHANGED <<client, active, toHost, outcome>>
    BY <2>4 DEF Receive, Accept
  <2> QED BY <2>1, <2>2, <2>3, <2>5 DEF Receive, Reject
<1>5. CASE InHand(m)
  <2>1. /\ ReplyFits(m) /\ Expected(m) /\ m.id = client.id /\ m.kind # "cancel_result"
        /\ Accept(m)
    <3>1. ReplyFits(m) /\ m.id = client.id
      BY <1>1, <1>2, <1>5, TurnFacts DEF ReplyFound, InHand
    <3>2. Expected(m)
      BY <1>5, <3>1, FitsIsExpected
    <3> QED BY <3>1, <3>2 DEF Receive, ReplyFits
  <2>2. ASSUME NEW how \in {m.kind, "result"}, Final(m), Return(how), UNCHANGED toHost,
               how \in Ends
        PROVE  Conversation'
    BY <1>1, <1>5, <2>2, ReturnKeepsTurns
  <2>3. CASE m.kind \in {"result", "error", "canceled"}
    BY <2>1, <2>2, <2>3 DEF Accept, Final, Ends
  <2>4. CASE m.kind = "page" /\ m.cursor = 0
    BY <2>1, <2>2, <2>4 DEF Accept, Final, Ends
  <2>5. CASE m.kind = "page" /\ m.cursor # 0
    <3>1. /\ Write(NextFrame(client.id, m.cursor), client) /\ ~Final(m)
          /\ client.kind = "plan" /\ client.paging
      BY <2>1, <2>5 DEF Accept, Final, ReplyFits
    <3>2. NextFrame(client.id, m.cursor) \in Frames
      BY <1>1, <1>2, FrameTypes, TurnFacts DEF Replies
    <3>3. /\ NextFrame(client.id, m.cursor).id = client.id
          /\ NextFrame(client.id, m.cursor).kind = "plan_next"
      BY DEF NextFrame, Frame
    <3> QED BY <1>1, <1>5, <3>1, <3>2, <3>3, WriteKeepsTurns DEF Openings
  <2>6. CASE m.kind \in {"ready", "added"}
    <3>1. UploadNext /\ ~Final(m) /\ client.kind = "plan" /\ ~client.paging
      BY <2>1, <2>6 DEF Accept, Final, ReplyFits
    <3>2. /\ Frame("plan_add", client.id) \in Frames
          /\ Frame("plan_finish", client.id) \in Frames
      BY <1>1, FrameTypes, TurnFacts DEF PlanFrames
    <3>3. /\ Frame("plan_add", client.id).id = client.id
          /\ Frame("plan_finish", client.id).id = client.id
          /\ Frame("plan_add", client.id).kind = "plan_add"
          /\ Frame("plan_finish", client.id).kind = "plan_finish"
      BY DEF Frame
    <3>4. CASE Write(Frame("plan_add", client.id), [client EXCEPT !.sent = @ + 1])
      <4> DEFINE state == [client EXCEPT !.sent = @ + 1]
      <4>1. /\ state.pc = client.pc /\ state.id = client.id /\ state.kind = client.kind
            /\ state.paging = client.paging /\ state.sent = client.sent + 1
        BY <1>1 DEF Clients
      <4>2. state.sent > 0
        BY <1>1, <4>1, ConstantTypes DEF Clients
      <4> HIDE DEF state
      <4>3. Write(Frame("plan_add", client.id), state)
        BY <3>4 DEF state
      <4> QED BY <1>1, <1>5, <3>1, <3>2, <3>3, <4>1, <4>2, <4>3, WriteKeepsTurns DEF Openings
    <3>5. CASE Write(Frame("plan_finish", client.id), [client EXCEPT !.paging = TRUE])
      <4> DEFINE state == [client EXCEPT !.paging = TRUE]
      <4>1. /\ state.pc = client.pc /\ state.id = client.id /\ state.kind = client.kind
            /\ state.paging
        BY <1>1 DEF Clients
      <4> HIDE DEF state
      <4>2. Write(Frame("plan_finish", client.id), state)
        BY <3>5 DEF state
      <4> QED BY <1>1, <1>5, <3>1, <3>2, <3>3, <4>1, <4>2, WriteKeepsTurns DEF Openings
    <3> QED BY <3>1, <3>4, <3>5 DEF UploadNext
  <2> QED BY <2>1, <2>3, <2>4, <2>5, <2>6 DEF ReplyFits
<1> QED BY <1>4, <1>5

LEMMA NextKeepsConversation ==
    ASSUME TypeOK, Conversation, [Next]_vars
    PROVE  Conversation'
<1>1. ClientTurn
  BY DEF Conversation
<1>2. ASSUME UNCHANGED <<client, active, outcome>>, Speaking => Turns'
      PROVE  Conversation'
  BY <1>1, <1>2 DEF Conversation, ClientTurn, Speaking
<1>3. CASE Begin \/ Receive
  <2>1. Speaking /\ Turns
    BY <1>3 DEF Begin, Receive, Speaking, Conversation
  <2> QED BY <1>1, <1>3, <2>1, BeginKeepsConversation, ReceiveKeepsConversation
<1>4. CASE Timeout \/ SeeExit
  BY <1>4, PoisonEnds DEF Timeout, SeeExit, Conversation
<1>5. CASE Drop \/ Close
  <2>1. client'.pc \in {"closing", "closed"} /\ client'.id = client.id /\ client.pc # "calling"
    BY <1>5 DEF Drop, Close, TypeOK, Clients
  <2>2. active' \in {None, client'.id}
    BY <1>1, <1>5, <2>1 DEF Drop, Close, ClientTurn
  <2> QED BY <1>1, <2>1, <2>2 DEF Conversation, ClientTurn, Speaking
<1>6. CASE \E c \in Controllers : Control(c)
  <2>1. UNCHANGED <<client, active, outcome>>
    BY <1>6 DEF Control, ReadTarget, WriteCancel
  <2> QED BY <1>1, <1>2, <1>6, <2>1, ControlKeepsTurns DEF Conversation
<1>7. CASE ReadFrame
  BY <1>1, <1>2, <1>7, ReadFrameKeepsTurns DEF Conversation, ReadFrame
<1>8. CASE HostFails
  BY <1>1, <1>2, <1>8, HostFailsKeepsTurns DEF Conversation, HostFails
<1>9. ASSUME NEW g \in DOMAIN workers, ReadMail(g)
      PROVE  Conversation'
  BY <1>1, <1>2, <1>9, ReadMailKeepsTurns DEF Conversation, ReadMail
<1>10. ASSUME NEW g \in DOMAIN workers, Worker(g)
       PROVE  Conversation'
  <2>1. UNCHANGED <<client, active, outcome>>
    BY <1>10 DEF Worker, Spawn, CompilerExits, WorkerReplies, WorkerFails, WorkerStops,
                 OthersUnchanged
  <2> QED BY <1>1, <1>2, <1>10, <2>1, WorkerKeepsTurns DEF Conversation
<1>11. CASE UNCHANGED vars
  <2>1. UNCHANGED <<client, active, outcome, toHost, toClient, host, workers>>
    BY <1>11 DEF vars
  <2>2. Turns => Turns'
    BY <2>1, SameTurns, WorkerUntouched DEF Turns
  <2> QED BY <1>2, <2>1, <2>2 DEF Conversation
<1>12. Done => UNCHANGED vars
  BY DEF Done
<1> QED BY <1>3, <1>4, <1>5, <1>6, <1>7, <1>8, <1>9, <1>10, <1>11, <1>12 DEF Next, Client

LEMMA ConversationHolds == Spec => []Conversation
<1>1. Init => Conversation
  <2> SUFFICES ASSUME Init PROVE Conversation
    OBVIOUS
  <2>1. /\ host.up /\ host.active = None /\ host.plan = NoPlan /\ host.worker = 0
        /\ client = Idle /\ toHost = <<>> /\ toClient = <<>> /\ active = None
    BY DEF Init
  <2>2. Contents(<<>>) = {} /\ DOMAIN <<>> = {}
    BY DEF Contents
  <2>3. ClientTurn
    BY <2>1 DEF ClientTurn, Idle
  <2>4. HostTurn
    BY <2>1 DEF HostTurn, NoPlan
  <2>5. FramesTurn /\ RepliesTurn
    BY <2>1, <2>2 DEF FramesTurn, RepliesTurn, InOrder, EndsLast
  <2>6. WorkerTurn
    BY <2>1 DEF WorkerTurn
  <2> QED BY <2>3, <2>4, <2>5, <2>6 DEF Conversation, Turns
<1>2. TypeOK /\ Conversation /\ [Next]_vars => Conversation'
  BY NextKeepsConversation
<1> QED BY <1>1, <1>2, TypeCorrect, PTL DEF Spec

-----------------------------------------------------------------------------
(* The compilers.                                                           *)

(* What a step makes of worker `g`, its compiler and what is known of it.    *)
LEMMA StoppedCompiler ==
    ASSUME NEW w \in Workers
    PROVE  /\ StopCompiler(w) \in Workers /\ StopCompiler(w).compiler # "running"
           /\ w.compiler = "stopped" => StopCompiler(w).compiler = "stopped"
           /\ StopCompiler(w).mail = w.mail
<1>1. StopCompiler(w) \in Workers
  BY WorkerTypes
<1> QED BY <1>1 DEF StopCompiler, Workers

KnownIn(w, g, children) ==
    /\ w.compiler = "running" =>
          g \in children \/ \E m \in Contents(w.mail) : m.kind = "compiler_child"
    /\ \A m \in Contents(w.mail) : m.kind = "compiler_child_exit" => w.compiler = "stopped"

LEMMA TerminatedKnown ==
    ASSUME NEW ws \in Seq(Workers), NEW children,
           \A g \in DOMAIN ws : KnownIn(ws[g], g, host.children),
           children = host.children \ {host.worker}
    PROVE  \A g \in DOMAIN ws : KnownIn(Terminated(ws)[g], g, children)
<1> SUFFICES ASSUME NEW g \in DOMAIN ws PROVE KnownIn(Terminated(ws)[g], g, children)
  OBVIOUS
<1>1. ws[g] \in Workers /\ KnownIn(ws[g], g, host.children)
  BY SequenceElement
<1>2. CASE g # host.worker
  BY <1>1, <1>2 DEF Terminated, KnownIn
<1>3. CASE g = host.worker
  <2> DEFINE u == IF g \in host.children THEN StopCompiler(ws[g]) ELSE ws[g]
             v == [u EXCEPT !.state = IF @ = "up" THEN "terminating" ELSE @]
  <2>1. /\ u \in Workers /\ u.mail = ws[g].mail
        /\ u.compiler = "running" => ws[g].compiler = "running" /\ g \notin host.children
        /\ ws[g].compiler = "stopped" => u.compiler = "stopped"
    BY <1>1, StoppedCompiler
  <2>2. Terminated(ws)[g] = v
    BY <1>3 DEF Terminated
  <2> HIDE DEF u
  <2>3. v.mail = u.mail /\ v.compiler = u.compiler
    BY <2>1 DEF Workers
  <2> QED BY <1>1, <2>1, <2>2, <2>3 DEF KnownIn
<1> QED BY <1>2, <1>3

LEMMA ReadMailKeepsCompilers ==
    ASSUME TypeOK, CompilersKnown, NEW g \in DOMAIN workers, ReadMail(g)
    PROVE  CompilersKnown'
<1> DEFINE mail == workers[g].mail
           message == Head(mail)
           w == [workers[g] EXCEPT !.mail = Tail(@)]
           read == [workers EXCEPT ![g].mail = Tail(@)]
<1>1. host.up /\ host' \in Hosts /\ DOMAIN workers' = DOMAIN workers
  <2>1. TypeOK'
    BY ReadMailKeepsType
  <2> QED BY <2>1, MailLeaves DEF ReadMail, TypeOK
<1>2. /\ \A v \in DOMAIN workers : workers[v] \in Workers /\ KnownIn(workers[v], v, host.children)
      /\ host \in Hosts /\ workers \in Seq(Workers)
  BY <1>1, SequenceElement DEF TypeOK, CompilersKnown, KnownIn
<1>3. /\ w \in Workers /\ w.mail = Tail(mail) /\ w.compiler = workers[g].compiler
      /\ \A e \in Contents(w.mail) : e \in Contents(mail)
      /\ \A e \in Contents(mail) : e = message \/ e \in Contents(w.mail)
      /\ message \in Contents(mail)
  BY <1>2, MailRead DEF Workers
<1>4. read = [workers EXCEPT ![g] = w]
  OBVIOUS
<1> HIDE DEF w
<1>5. /\ DOMAIN read = DOMAIN workers /\ read[g] = w
      /\ \A v \in DOMAIN workers : v # g => read[v] = workers[v]
      /\ read \in Seq(Workers)
  <2>1. read \in Seq(Workers)
    BY <1>2, <1>3, <1>4, ReplaceOne
  <2> QED BY <1>4, <2>1
<1> HIDE DEF read
<1>6. SUFFICES \A v \in DOMAIN workers : KnownIn(workers'[v], v, host'.children)
  BY <1>1 DEF CompilersKnown, KnownIn
<1>7. ASSUME message.kind # "compiler_child"
      PROVE  \A v \in DOMAIN workers : KnownIn(read[v], v, host.children)
  BY <1>2, <1>3, <1>5, <1>7 DEF KnownIn
<1>8. CASE message.kind = "compiler_child" /\ Register(g, read)
  <2>1. CASE g # host.worker
    <3>1. workers' = [read EXCEPT ![g] = StopCompiler(@)] /\ host' = host
      BY <1>8, <2>1 DEF Register
    <3>2. workers'[g] = StopCompiler(w) /\ \A v \in DOMAIN workers : v # g => workers'[v] = workers[v]
      BY <1>5, <3>1
    <3>3. KnownIn(StopCompiler(w), g, host'.children)
      BY <1>2, <1>3, StoppedCompiler DEF KnownIn
    <3> QED BY <1>2, <3>1, <3>2, <3>3
  <2>2. CASE g = host.worker
    <3>1. workers' = read /\ host'.children = host.children \cup {g}
      BY <1>2, <1>8, <2>2 DEF Register, Hosts
    <3> QED BY <1>2, <1>3, <1>5, <3>1 DEF KnownIn
  <2> QED BY <2>1, <2>2
<1>9. CASE /\ message.kind = "compiler_child_exit" /\ workers' = read
           /\ host' = [host EXCEPT !.children = @ \ {g}]
  <2>1. host'.children = host.children \ {g}
    BY <1>2, <1>9 DEF Hosts
  <2>2. w.compiler = "stopped"
    BY <1>2, <1>3, <1>9 DEF KnownIn
  <2> QED BY <1>2, <1>3, <1>5, <1>9, <2>1, <2>2 DEF KnownIn
<1>10. CASE message.kind \in {"result", "error"} /\ workers' = read /\ TakeReply(g, message)
  <2>1. host'.children = host.children
    BY <1>2, <1>10 DEF TakeReply, SendPage, Answer, Cleared, Hosts
  <2> QED BY <1>7, <1>10, <2>1
<1>11. CASE message.kind = "failed"
  <2>1. CASE workers' = read /\ UNCHANGED <<host, toClient>>
    BY <1>7, <1>11, <2>1
  <2>2. CASE workers' = Terminated(read) /\ EndRequest(WithoutWorker(host))
    <3>1. host'.children = host.children \ {host.worker}
      BY <1>2, <2>2 DEF EndRequest, Answer, Cleared, WithoutWorker, Hosts
    <3> QED BY <1>5, <1>7, <1>11, <2>2, <3>1, TerminatedKnown
  <2> QED BY <1>11, <2>1, <2>2 DEF ReadMail, read
<1>12. CASE message.kind = "exited"
  <2>1. workers' = IF g \in host.children THEN [read EXCEPT ![g] = StopCompiler(@)] ELSE read
    BY <1>12 DEF ReadMail, read
  <2>2. host'.children = host.children \ {g}
    <3>1. CASE g # host.worker
      BY <1>2, <1>12, <3>1 DEF ReadMail, Hosts
    <3>2. CASE g = host.worker
      <4>1. EndRequest(WithoutWorker(host))
        BY <1>12, <3>2 DEF ReadMail
      <4> QED BY <1>2, <3>2, <4>1 DEF EndRequest, Answer, Cleared, WithoutWorker, Hosts
    <3> QED BY <3>1, <3>2
  <2>3. \A v \in DOMAIN workers : v # g => workers'[v] = workers[v]
    BY <1>5, <2>1
  <2>4. workers'[g] = IF g \in host.children THEN StopCompiler(w) ELSE w
    BY <1>5, <2>1
  <2>5. KnownIn(workers'[g], g, host'.children)
    <3>1. KnownIn(w, g, host.children)
      BY <1>5, <1>7, <1>12
    <3> QED BY <1>3, <2>2, <2>4, <3>1, StoppedCompiler DEF KnownIn
  <2> QED BY <1>2, <2>2, <2>3, <2>5 DEF KnownIn
<1> QED BY <1>8, <1>9, <1>10, <1>11, <1>12 DEF ReadMail, read

LEMMA AllDeadCompilers ==
    ASSUME TypeOK, CompilersKnown, host'.up = FALSE, DOMAIN workers' = DOMAIN workers,
           \A g \in DOMAIN workers :
               \/ workers'[g] = [StopCompiler(workers[g]) EXCEPT !.state = "dead"]
               \/ workers'[g] = [workers[g] EXCEPT !.state = "dead"]
    PROVE  CompilersKnown'
<1> SUFFICES ASSUME NEW g \in DOMAIN workers
             PROVE  \A m \in Contents(workers'[g].mail) :
                        m.kind = "compiler_child_exit" => workers'[g].compiler = "stopped"
  BY DEF CompilersKnown
<1>1. workers[g] \in Workers /\ StopCompiler(workers[g]) \in Workers
  BY SequenceElement, WorkerTypes DEF TypeOK
<1>2. \A u \in Workers : /\ [u EXCEPT !.state = "dead"].mail = u.mail
                         /\ [u EXCEPT !.state = "dead"].compiler = u.compiler
  BY DEF Workers
<1>3. PICK u \in {workers[g], StopCompiler(workers[g])} :
         workers'[g].mail = u.mail /\ workers'[g].compiler = u.compiler
  BY <1>1, <1>2
<1>4. u.mail = workers[g].mail /\ (workers[g].compiler = "stopped" => u.compiler = "stopped")
  BY <1>1, <1>3, StoppedCompiler
<1> QED BY <1>3, <1>4 DEF CompilersKnown

LEMMA SameCompilers ==
    ASSUME TypeOK, CompilersKnown, host'.children = host.children, host'.up = host.up,
           DOMAIN workers' = DOMAIN workers,
           \A g \in DOMAIN workers : /\ workers'[g].mail = workers[g].mail
                                     /\ workers'[g].compiler = workers[g].compiler
    PROVE  CompilersKnown'
  BY DEF CompilersKnown

LEMMA PostKeepsCompilers ==
    ASSUME TypeOK, CompilersKnown, NEW h \in Hosts, h.worker = host.worker,
           h.children = host.children, h.up = host.up, NEW id, Post(h, id)
    PROVE  CompilersKnown'
<1>1. /\ host.worker \in 0 .. Len(workers) /\ workers \in Seq(Workers) /\ Len(workers) \in Nat
      /\ \A g \in DOMAIN workers : workers[g] \in Workers
  BY SequenceElement DEF TypeOK
<1>2. CASE h.worker = 0
  <2>1. workers' = Append(workers, NewWorker(id)) /\ host' = [h EXCEPT !.worker = Len(workers) + 1]
    BY <1>2 DEF Post
  <2>2. host'.children = host.children /\ host'.up = host.up
    BY <2>1 DEF Hosts
  <2>3. /\ DOMAIN workers' = 1 .. (Len(workers) + 1)
        /\ \A g \in DOMAIN workers : workers'[g] = workers[g]
        /\ workers'[Len(workers) + 1] = NewWorker(id)
    BY <1>1, <2>1
  <2>4. /\ NewWorker(id).compiler = "none" /\ NewWorker(id).mail = <<>> /\ Contents(<<>>) = {}
    BY DEF NewWorker, Contents
  <2>5. \A g \in DOMAIN workers' : g \in DOMAIN workers \/ g = Len(workers) + 1
    BY <1>1, <2>3
  <2> QED BY <2>2, <2>3, <2>4, <2>5 DEF CompilersKnown
<1>3. CASE h.worker # 0
  <2> DEFINE g == host.worker
             job == IF workers[g].state = "up" THEN id ELSE workers[g].job
  <2>1. g \in DOMAIN workers
    BY <1>1, <1>3
  <2>2. host' = h /\ workers' = [workers EXCEPT ![g] = [workers[g] EXCEPT !.job = job]]
    BY <1>3, <2>1 DEF Post
  <2>3. /\ [workers[g] EXCEPT !.job = job].mail = workers[g].mail
        /\ [workers[g] EXCEPT !.job = job].compiler = workers[g].compiler
    BY <1>1, <2>1 DEF Workers
  <2>4. \A v \in DOMAIN workers : workers'[v] = IF v = g THEN [workers[g] EXCEPT !.job = job]
                                                         ELSE workers[v]
    BY <2>2
  <2>5. DOMAIN workers' = DOMAIN workers
    BY <2>2
  <2> HIDE DEF job
  <2> QED BY <2>2, <2>3, <2>4, <2>5, SameCompilers
<1> QED BY <1>2, <1>3

LEMMA TerminateKeepsCompilers ==
    ASSUME TypeOK, CompilersKnown, host.up, workers' = Terminated(workers),
           host'.children = host.children \ {host.worker}
    PROVE  CompilersKnown'
<1>1. \A g \in DOMAIN workers : KnownIn(workers[g], g, host.children)
  BY DEF CompilersKnown, KnownIn
<1>2. \A g \in DOMAIN workers : KnownIn(workers'[g], g, host'.children)
  BY <1>1, TerminatedKnown DEF TypeOK
<1>3. DOMAIN workers' = DOMAIN workers
  BY DEF Terminated
<1> QED BY <1>2, <1>3 DEF CompilersKnown, KnownIn

LEMMA ReadFrameKeepsCompilers ==
    ASSUME TypeOK, CompilersKnown, ReadFrame
    PROVE  CompilersKnown'
<1> DEFINE frame == Head(toHost)
<1>1. host.up /\ host \in Hosts
  BY DEF ReadFrame, TypeOK
<1>2. ASSUME UNCHANGED workers, host'.children = host.children, host'.up = host.up
      PROVE  CompilersKnown'
  BY <1>2, SameCompilers
<1>3. ASSUME Dispatch(frame) PROVE CompilersKnown'
  <2> DEFINE h == [host EXCEPT !.active = frame.id]
  <2>1. frame.id \in {None} \cup Ids
    <3>1. frame \in Frames
      BY HeadTailProperties DEF ReadFrame, TypeOK
    <3> QED BY <3>1 DEF Frames
  <2>2. h \in Hosts /\ h.worker = host.worker /\ h.children = host.children /\ h.up = host.up
    BY <1>1, <2>1 DEF Hosts
  <2>3. Post(h, frame.id) => CompilersKnown'
    <3> HIDE DEF h
    <3> QED BY <2>2, PostKeepsCompilers
  <2> QED BY <1>2, <1>3, <2>3 DEF Dispatch, Answer
<1>4. ASSUME OutOfSequence(frame) PROVE CompilersKnown'
  <2>1. CASE host' = host /\ UNCHANGED workers
    BY <1>2, <2>1
  <2>2. CASE host' = Cleared(host) /\ UNCHANGED workers
    <3>1. host'.children = host.children /\ host'.up = host.up
      BY <1>1, <2>2 DEF Cleared, Hosts
    <3> QED BY <1>2, <2>2, <3>1
  <2>3. CASE host' = WithoutWorker(Cleared(host)) /\ workers' = Terminated(workers)
    <3>1. host'.children = host.children \ {host.worker}
      BY <1>1, <2>3 DEF WithoutWorker, Cleared, Hosts
    <3> QED BY <1>1, <2>3, <3>1, TerminateKeepsCompilers
  <2> QED BY <1>4, <2>1, <2>2, <2>3 DEF OutOfSequence, FailPlan, Answer
<1>5. ASSUME BeginPlan(frame), UNCHANGED workers PROVE CompilersKnown'
  <2>1. host'.children = host.children /\ host'.up = host.up
    BY <1>1, <1>5 DEF BeginPlan, Answer, Hosts
  <2> QED BY <1>2, <1>5, <2>1
<1>6. ASSUME AddFiles(frame) PROVE CompilersKnown'
  <2>1. CASE /\ Answer([host EXCEPT !.plan.received = @ + 1], Reply("added", frame.id))
             /\ UNCHANGED workers
    <3>1. host'.children = host.children /\ host'.up = host.up
      BY <1>1, <2>1 DEF Answer, Hosts
    <3> QED BY <1>2, <2>1, <3>1
  <2> QED BY <1>4, <1>6, <2>1 DEF AddFiles
<1>7. ASSUME FinishPlan(frame) PROVE CompilersKnown'
  <2> DEFINE plan == [host.plan EXCEPT !.phase = "processing"]
             h == [host EXCEPT !.plan = plan]
  <2>1. plan \in Plans
    BY SessionTypes DEF Plans
  <2>2. h \in Hosts /\ h.worker = host.worker /\ h.children = host.children /\ h.up = host.up
    <3> HIDE DEF plan
    <3> QED BY <1>1, <2>1 DEF Hosts
  <2>3. Post([host EXCEPT !.plan.phase = "processing"], frame.id) => Post(h, frame.id)
    OBVIOUS
  <2>4. Post(h, frame.id) => CompilersKnown'
    <3> HIDE DEF h
    <3> QED BY <2>2, PostKeepsCompilers
  <2> QED BY <1>4, <1>7, <2>3, <2>4 DEF FinishPlan
<1>8. ASSUME NextPage(frame) PROVE CompilersKnown'
  <2>1. CASE SendPage(host.plan) /\ UNCHANGED workers
    <3>1. host'.children = host.children /\ host'.up = host.up
      BY <1>1, <2>1 DEF SendPage, Answer, Cleared, Hosts
    <3> QED BY <1>2, <2>1, <3>1
  <2> QED BY <1>4, <1>8, <2>1 DEF NextPage
<1>9. ASSUME Cancel(frame) PROVE CompilersKnown'
  <2>1. CASE ~FindsTarget(frame)
    BY <1>2, <1>9, <2>1 DEF Cancel, Answer
  <2>2. CASE FindsTarget(frame)
    <3>1. host'.children = host.children \ {host.worker} /\ workers' = Terminated(workers)
      BY <1>1, <1>9, <2>2 DEF Cancel, WithoutWorker, Cleared, Hosts
    <3> QED BY <1>1, <3>1, TerminateKeepsCompilers
  <2> QED BY <2>1, <2>2
<1>10. ASSUME Exit(TRUE) PROVE CompilersKnown'
  <2>1. host'.up = FALSE
    BY <1>1, <1>10 DEF Exit, Hosts
  <2> QED BY <1>10, <2>1, AllDeadCompilers DEF Exit
<1> QED BY <1>2, <1>3, <1>4, <1>5, <1>6, <1>7, <1>8, <1>9, <1>10 DEF ReadFrame, Handle

LEMMA WorkerKeepsCompilers ==
    ASSUME TypeOK, CompilersKnown, NEW g \in DOMAIN workers, Worker(g)
    PROVE  CompilersKnown'
<1> DEFINE w == workers[g]
<1>1. w \in Workers /\ host' = host /\ w.mail \in Seq(Messages)
  <2>1. w \in Workers
    BY SequenceElement DEF TypeOK
  <2>2. host' = host
    BY DEF Worker, Spawn, CompilerExits, WorkerReplies, WorkerFails, WorkerStops, OthersUnchanged
  <2> QED BY <2>1, <2>2 DEF Workers
<1>2. ASSUME NEW messages, NEW v \in Workers, Posts(g, messages, v), v.mail = w.mail,
             \A m \in Contents(w.mail) : m \in Contents(w.mail \o messages),
             \A m \in Contents(w.mail \o messages) : m.kind = "compiler_child_exit" =>
                 v.compiler = "stopped",
             v.compiler = "running" => \/ w.compiler = "running"
                                       \/ \E m \in Contents(w.mail \o messages) :
                                             m.kind = "compiler_child"
      PROVE  CompilersKnown'
  <2>1. /\ DOMAIN workers' = DOMAIN workers
        /\ workers'[g] = [v EXCEPT !.mail = @ \o messages]
        /\ \A u \in DOMAIN workers : u # g => workers'[u] = workers[u]
    BY <1>2, PostsMail
  <2>2. workers'[g].mail = w.mail \o messages /\ workers'[g].compiler = v.compiler
    BY <1>2, <2>1 DEF Workers
  <2> QED BY <1>1, <1>2, <2>1, <2>2 DEF CompilersKnown
<1>3. \A kind \in {"compiler_child", "compiler_child_exit", "result", "error", "failed",
                   "exited"}, id \in {None} \cup Ids :
          Mail(kind, id) \in Messages /\ Mail(kind, id).kind = kind
  BY DEF Mail, Messages
<1>4. ASSUME NEW a \in Messages
      PROVE  Contents(w.mail \o <<a>>) = Contents(w.mail) \cup {a}
  <2>1. w.mail \o <<a>> = Append(w.mail, a)
    BY <1>1, OneMessage
  <2>2. Contents(Append(w.mail, a)) = Contents(w.mail) \cup {a}
    BY <1>1, AppendedContents
  <2> QED BY <2>1, <2>2
<1>5. \A m \in Contents(w.mail) : m.kind = "compiler_child_exit" => w.compiler = "stopped"
  BY DEF CompilersKnown
<1>6. CASE Spawn(g)
  <2> DEFINE v == [w EXCEPT !.compiler = "running"]
  <2>1. v \in Workers /\ v.mail = w.mail /\ v.compiler = "running" /\ w.compiler = "none"
    BY <1>1, <1>6 DEF Workers, Spawn
  <2>2. Posts(g, <<Mail("compiler_child", None)>>, v)
    BY <1>6 DEF Spawn
  <2> HIDE DEF v
  <2>3. \A m \in Contents(w.mail \o <<Mail("compiler_child", None)>>) :
            m.kind # "compiler_child_exit"
    BY <1>3, <1>4, <1>5, <2>1
  <2>4. \E m \in Contents(w.mail \o <<Mail("compiler_child", None)>>) : m.kind = "compiler_child"
    BY <1>3, <1>4
  <2>5. \A m \in Contents(w.mail) : m \in Contents(w.mail \o <<Mail("compiler_child", None)>>)
    BY <1>3, <1>4
  <2> QED BY <1>2, <2>1, <2>2, <2>3, <2>4, <2>5
<1>7. CASE CompilerExits(g)
  <2> DEFINE v == [w EXCEPT !.compiler = "stopped"]
  <2>1. v \in Workers /\ v.mail = w.mail /\ v.compiler = "stopped"
    BY <1>1 DEF Workers
  <2>2. Posts(g, <<Mail("compiler_child_exit", None)>>, v)
    BY <1>7 DEF CompilerExits
  <2> HIDE DEF v
  <2>3. \A m \in Contents(w.mail) : m \in Contents(w.mail \o <<Mail("compiler_child_exit", None)>>)
    BY <1>3, <1>4
  <2> QED BY <1>2, <2>1, <2>2, <2>3
<1>8. CASE WorkerReplies(g)
  <2>1. PICK kind \in {"result", "error"} :
           Posts(g, <<Mail(kind, w.job)>>, [w EXCEPT !.job = None])
    BY <1>8 DEF WorkerReplies
  <2> DEFINE v == [w EXCEPT !.job = None]
             message == Mail(kind, w.job)
  <2>2. v \in Workers /\ v.mail = w.mail /\ v.compiler = w.compiler
    BY <1>1 DEF Workers
  <2>3. message \in Messages /\ message.kind \notin {"compiler_child", "compiler_child_exit"}
    <3>1. w.job \in {None} \cup Ids
      BY <1>1 DEF Workers
    <3> QED BY <1>3, <3>1
  <2>4. Posts(g, <<message>>, v)
    BY <2>1
  <2> HIDE DEF v, message
  <2>5. Contents(w.mail \o <<message>>) = Contents(w.mail) \cup {message}
    BY <1>4, <2>3
  <2> QED BY <1>2, <1>5, <2>2, <2>3, <2>4, <2>5
<1>9. CASE WorkerFails(g) \/ WorkerStops(g)
  <2>1. PICK messages \in {<<Mail("failed", None), Mail("exited", None)>>,
                           <<Mail("exited", None)>>} :
           Posts(g, messages, [w EXCEPT !.state = "dead", !.job = None])
    BY <1>9 DEF WorkerFails, WorkerStops
  <2> DEFINE v == [w EXCEPT !.state = "dead", !.job = None]
  <2>2. v \in Workers /\ v.mail = w.mail /\ v.compiler = w.compiler
    BY <1>1 DEF Workers
  <2>3. \A m \in Contents(w.mail \o messages) :
            m \in Contents(w.mail) \/ m \in {Mail("failed", None), Mail("exited", None)}
    <3>1. CASE messages = <<Mail("exited", None)>>
      BY <1>3, <1>4, <3>1
    <3>2. CASE messages = <<Mail("failed", None), Mail("exited", None)>>
      <4> DEFINE first == Append(w.mail, Mail("failed", None))
      <4>1. w.mail \o messages = Append(first, Mail("exited", None))
        BY <1>1, <1>3, <3>2, TwoMessages
      <4>2. first \in Seq(Messages) /\ Contents(first) = Contents(w.mail) \cup {Mail("failed", None)}
        BY <1>1, <1>3, AppendedContents, AppendProperties
      <4> HIDE DEF first
      <4>3. Contents(w.mail \o messages) = Contents(first) \cup {Mail("exited", None)}
        BY <1>3, <4>1, <4>2, AppendedContents
      <4> QED BY <4>2, <4>3
    <3> QED BY <2>1, <3>1, <3>2
  <2>4. \A m \in Contents(w.mail) : m \in Contents(w.mail \o messages)
    <3>1. messages \in Seq(Messages)
      <4> DEFINE a == Mail("failed", None)
                 b == Mail("exited", None)
      <4>1. a \in Messages /\ b \in Messages
        BY <1>3
      <4>2. messages = <<a, b>> \/ messages = <<b>>
        BY <2>1
      <4> HIDE DEF a, b
      <4>3. <<a, b>> \in Seq(Messages)
        BY <4>1
      <4>4. <<b>> \in Seq(Messages)
        BY <4>1
      <4> QED BY <4>2, <4>3, <4>4
    <3>2. \A i \in DOMAIN w.mail : i \in DOMAIN (w.mail \o messages) /\ (w.mail \o messages)[i] = w.mail[i]
      BY <1>1, <3>1
    <3> QED BY <3>2 DEF Contents
  <2>5. Posts(g, messages, v)
    BY <2>1
  <2> HIDE DEF v
  <2> QED BY <1>2, <1>3, <1>5, <2>2, <2>3, <2>4, <2>5
<1> QED BY <1>6, <1>7, <1>8, <1>9 DEF Worker

LEMMA CompilersHold == Spec => []CompilersKnown
<1>1. Init => CompilersKnown
  BY DEF Init, CompilersKnown
<1>2. TypeOK /\ CompilersKnown /\ [Next]_vars => CompilersKnown'
  <2> SUFFICES ASSUME TypeOK, CompilersKnown, [Next]_vars PROVE CompilersKnown'
    OBVIOUS
  <2>1. ASSUME UNCHANGED <<host, workers>> PROVE CompilersKnown'
    BY <2>1 DEF CompilersKnown
  <2>2. ASSUME KillGroup PROVE CompilersKnown'
    <3>1. host'.up = FALSE
      BY <2>2 DEF KillGroup, TypeOK, Hosts
    <3> QED BY <2>2, <3>1, AllDeadCompilers DEF KillGroup
  <2>3. CASE Client
    <3>1. KillGroup \/ UNCHANGED <<host, workers>>
      BY <2>3 DEF Client, Begin, Receive, Timeout, SeeExit, Drop, Close
    <3> QED BY <2>1, <2>2, <3>1
  <2>4. CASE \E c \in Controllers : Control(c)
    BY <2>1, <2>4 DEF Control, ReadTarget, WriteCancel
  <2>5. CASE HostFails
    <3>1. PICK handled \in BOOLEAN : Exit(handled)
      BY <2>5 DEF HostFails
    <3>2. host'.up = FALSE
      BY <3>1 DEF Exit, TypeOK, Hosts
    <3> QED BY <3>1, <3>2, AllDeadCompilers DEF Exit
  <2>6. CASE Done \/ UNCHANGED vars
    BY <2>1, <2>6 DEF Done, vars
  <2> QED BY <2>3, <2>4, <2>5, <2>6, ReadFrameKeepsCompilers, ReadMailKeepsCompilers,
             WorkerKeepsCompilers DEF Next
<1> QED BY <1>1, <1>2, TypeCorrect, PTL DEF Spec

(* However cancels, answers, failures and the frames of a plan cross, the    *)
(* host has nothing in hand that the client has given up, and every compiler *)
(* that still runs is one a live host will kill: it is registered, or its    *)
(* registration is on the way.  This holds whether or not a worker may fail  *)
(* between two requests.                                                    *)
THEOREM NothingIsLeftBehind == Spec => []NothingLeftBehind
<1>1. Conversation => ReadyWhenIdle
  BY DEF Conversation, ClientTurn, Speaking, Turns, HostTurn, ReadyWhenIdle
<1>2. CompilersKnown => CompilerAccountedFor
  BY DEF CompilersKnown, CompilerAccountedFor, Contents
<1>3. Conversation /\ CompilersKnown => NothingLeftBehind
  BY <1>1, <1>2 DEF NothingLeftBehind
<1> QED BY <1>3, ConversationHolds, CompilersHold, PTL

-----------------------------------------------------------------------------
(* What the caller sees.  Where no worker fails between two requests, every  *)
(* reply the client reads is one it expects, so a request ends only in the   *)
(* ways of CheckerCall.                                                      *)

Lost(how) ==
    /\ outcome' = Append(outcome, how)
    /\ client'.pc = "poisoned"
    /\ client'.id = None
    /\ asked' = asked

LEMMA LostIsFail ==
    ASSUME TypeOK, ClientTurn, NEW how \in {"timeout", "failed"}, Lost(how),
           \/ client.pc = "calling"
           \/ client.pc = "idle" /\ Len(outcome) < Requests
    PROVE  Abstract!Fail
<1>1. Len(outcome) < Requests
  <2>1. CASE client.pc = "calling"
    <3>1. client.id = Len(outcome) + 1 /\ client.id \in {None} \cup Ids /\ Len(outcome) \in Nat
      BY <2>1 DEF ClientTurn, TypeOK, Clients
    <3> QED BY <3>1, ConstantTypes DEF Ids, None
  <2> QED BY <2>1
<1> QED BY <1>1 DEF Abstract!Fail, Lost, None

LEMMA PoisonLoses ==
    ASSUME NEW how, Poison(how), asked' = asked
    PROVE  Lost(how)
BY DEF Poison, Record, Idle, Lost

LEMMA WritesOrLoses ==
    ASSUME TypeOK, ClientTurn, client.pc = "calling", asked' = asked, NEW frame, NEW state,
           Write(frame, state), state.id = client.id, state.pc = client.pc
    PROVE  Abstract!Fail \/ UNCHANGED Abstract!vars
<1>1. CASE host.up
  BY <1>1 DEF Write, Abstract!vars
<1>2. CASE ~host.up
  BY <1>2, PoisonLoses, LostIsFail DEF Write
<1> QED BY <1>1, <1>2

LEMMA BeginsCall ==
    ASSUME TypeOK, ClientTurn, Begin
    PROVE  Abstract!Begin \/ Abstract!Fail
<1>1. client.pc = "idle" /\ client.id = None /\ Len(outcome) < Requests /\ asked' = asked
  BY DEF Begin, ClientTurn
<1>2. CASE host.up
  <2>1. PICK kind \in Kinds, chunks \in 0 .. Chunks :
            /\ client' = [Idle EXCEPT !.pc = "calling", !.id = Len(outcome) + 1,
                                      !.kind = kind, !.chunks = chunks]
            /\ UNCHANGED outcome
    BY <1>2 DEF Begin
  <2>2. client'.pc = "calling" /\ client'.id = Len(outcome) + 1
    BY <2>1 DEF Idle
  <2> QED BY <1>1, <2>1, <2>2 DEF Abstract!Begin, None
<1>3. CASE ~host.up
  BY <1>1, <1>3, PoisonLoses, LostIsFail DEF Begin
<1> QED BY <1>2, <1>3

LEMMA ReturnsCall ==
    ASSUME ClientTurn, client.pc = "calling", asked' = asked,
           NEW how \in {"result", "error", "canceled"}, Return(how),
           how = "canceled" => client.id \in asked,
           client.id # None
    PROVE  Abstract!Finish
BY DEF Return, Record, Idle, Abstract!Finish, None

(* With a worker that fails only in a request, the reply the client reads    *)
(* is the end of its request, the next message of its plan, or the reply to  *)
(* a cancel.                                                                 *)
LEMMA ReadsExpected ==
    ASSUME IdleFailure = FALSE, TypeOK, ClientTurn, Speaking, Turns, Receive
    PROVE  LET m == Head(toClient) IN
           /\ Expected(m) /\ Accept(m)
           /\ m \in Replies
           /\ m.kind # "cancel_result" => InHand(m)
<1> DEFINE m == Head(toClient)
<1>1. m \in Replies /\ ReplyFound(m)
  BY ReplyRead
<1>2. client.pc = "calling" /\ client.id = Len(outcome) + 1
  BY DEF Receive, ClientTurn
<1>3. client.id # None
  BY <1>2, TurnFacts DEF None
<1>4. CASE m.id = None /\ m.kind = "cancel_result"
  <2>1. Expected(m)
    BY <1>3, <1>4 DEF Expected
  <2> QED BY <1>1, <1>4, <2>1 DEF Receive
<1>5. CASE InHand(m) /\ ReplyFits(m)
  <2>1. Expected(m)
    BY <1>5, FitsIsExpected
  <2> QED BY <1>1, <1>5, <2>1 DEF Receive
<1> QED BY <1>1, <1>4, <1>5 DEF ReplyFound

LEMMA ReceivesCall ==
    ASSUME IdleFailure = FALSE, TypeOK, ClientTurn, Speaking, Turns, Receive, CanceledWasAsked'
    PROVE  Abstract!Finish \/ Abstract!Fail \/ UNCHANGED Abstract!vars
<1> DEFINE m == Head(toClient)
<1>1. /\ Accept(m) /\ m \in Replies
      /\ m.kind # "cancel_result" => InHand(m)
  BY ReadsExpected
<1>2. client.pc = "calling" /\ client.id = Len(outcome) + 1 /\ client.id # None /\ asked' = asked
  <2>1. client.pc = "calling" /\ client.id = Len(outcome) + 1 /\ asked' = asked
    BY DEF Receive, ClientTurn
  <2> QED BY <2>1, TurnFacts DEF None
<1>3. client \in Clients
  BY DEF TypeOK
<1>4. ASSUME NEW how \in {"result", "error", "canceled"}, Return(how)
      PROVE  Abstract!Finish
  <2>1. ASSUME how = "canceled" PROVE client.id \in asked
    <3>1. outcome' = Append(outcome, how) /\ outcome \in Seq(Ends) /\ how \in Ends
      BY <1>4 DEF Return, Record, TypeOK, Ends
    <3>2. client.id \in DOMAIN outcome' /\ outcome'[client.id] = how
      BY <1>2, <3>1
    <3> QED BY <1>2, <2>1, <3>2 DEF CanceledWasAsked
  <2> QED BY <1>2, <1>4, <2>1, ReturnsCall
<1>5. CASE m.kind = "cancel_result"
  BY <1>1, <1>2, <1>5 DEF Accept, Abstract!vars
<1>6. CASE m.kind \in {"result", "error", "canceled"}
  BY <1>1, <1>4, <1>6 DEF Accept
<1>7. CASE m.kind \in {"ready", "added"}
  <2>1. UploadNext
    BY <1>1, <1>7 DEF Accept
  <2>2. /\ [client EXCEPT !.sent = @ + 1].id = client.id
        /\ [client EXCEPT !.sent = @ + 1].pc = client.pc
        /\ [client EXCEPT !.paging = TRUE].id = client.id
        /\ [client EXCEPT !.paging = TRUE].pc = client.pc
    BY <1>3 DEF Clients
  <2> QED BY <1>2, <2>1, <2>2, WritesOrLoses DEF UploadNext
<1>8. CASE m.kind = "page" /\ m.cursor # 0
  BY <1>1, <1>2, <1>8, WritesOrLoses DEF Accept
<1>9. CASE m.kind = "page" /\ m.cursor = 0
  BY <1>1, <1>4, <1>9 DEF Accept
<1> QED BY <1>1, <1>5, <1>6, <1>7, <1>8, <1>9 DEF Replies

LEMMA StepsCall ==
    ASSUME IdleFailure = FALSE, TypeOK, Conversation, CanceledWasAsked', [Next]_vars
    PROVE  [Abstract!Next]_(Abstract!vars)
<1>1. ClientTurn
  BY DEF Conversation
<1>2. UNCHANGED <<client, asked, outcome>> => UNCHANGED Abstract!vars
  BY DEF Abstract!vars
<1>3. CASE Client
  <2>1. CASE Begin
    BY <1>1, <2>1, BeginsCall DEF Abstract!Next
  <2>2. CASE Receive
    <3>1. Speaking /\ Turns
      BY <2>2 DEF Receive, Speaking, Conversation
    <3> QED BY <1>1, <2>2, <3>1, ReceivesCall DEF Abstract!Next
  <2>3. CASE Timeout \/ SeeExit
    <3>1. client.pc = "calling" /\ asked' = asked /\ (Poison("timeout") \/ Poison("failed"))
      BY <2>3 DEF Timeout, SeeExit
    <3> QED BY <1>1, <3>1, PoisonLoses, LostIsFail DEF Abstract!Next
  <2>4. CASE Drop \/ Close
    <3>1. /\ client.pc \in {"idle", "poisoned", "closing"} /\ client.id = None
          /\ UNCHANGED <<asked, outcome>>
      BY <1>1, <2>4 DEF Drop, Close, ClientTurn
    <3>2. client'.id = client.id /\ client'.pc \in {"closing", "closed"}
      BY <2>4 DEF Drop, Close, TypeOK, Clients
    <3>3. Abstract!Close
      BY <3>1, <3>2 DEF Abstract!Close, None
    <3> QED BY <3>3 DEF Abstract!Next
  <2> QED BY <1>3, <2>1, <2>2, <2>3, <2>4 DEF Client
<1>4. ASSUME NEW c \in Controllers, Control(c)
      PROVE  Abstract!Ask \/ UNCHANGED Abstract!vars
  <2>1. CASE ReadTarget(c)
    <3>1. active # None /\ asked' = asked \cup {active} /\ UNCHANGED <<client, outcome>>
      BY <2>1 DEF ReadTarget
    <3>2. active = client.id
      BY <1>1, <3>1 DEF ClientTurn
    <3> QED BY <3>1, <3>2 DEF Abstract!Ask, None
  <2>2. CASE WriteCancel(c)
    BY <1>2, <2>2 DEF WriteCancel
  <2> QED BY <1>4, <2>1, <2>2 DEF Control
<1>5. CASE ReadFrame \/ HostFails
  BY <1>2, <1>5 DEF ReadFrame, HostFails
<1>6. ASSUME NEW g \in DOMAIN workers, ReadMail(g) \/ Worker(g)
      PROVE  UNCHANGED Abstract!vars
  BY <1>2, <1>6 DEF ReadMail, Worker, Spawn, CompilerExits, WorkerReplies, WorkerFails,
                    WorkerStops, OthersUnchanged
<1>7. CASE Done \/ UNCHANGED vars
  BY <1>2, <1>7 DEF Done, vars
<1> QED BY <1>3, <1>4, <1>5, <1>6, <1>7 DEF Next, Abstract!Next

(* The client, its pipes, the host and its workers are together the call of  *)
(* CheckerCall: one request at a time, each with one end, canceled only as   *)
(* asked, and never called again after a failure.                            *)
THEOREM SidecarImplementsCall ==
    ASSUME IdleFailure = FALSE
    PROVE  Spec => ImplementsCall
<1>1. Init => Abstract!Init
  BY DEF Init, Idle, None, Abstract!Init
<1>2. TypeOK /\ Conversation /\ CanceledWasAsked' /\ [Next]_vars
        => [Abstract!Next]_(Abstract!vars)
  BY StepsCall
<1> QED BY <1>1, <1>2, TypeCorrect, ConversationHolds, CancelSafe, PTL
        DEF Spec, ImplementsCall, Abstract!Spec

(* However cancels, replies and the frames of a plan cross, the client       *)
(* never reads a message that it must take for a breach of the protocol.     *)
THEOREM ClientNeverDesynchronized ==
    ASSUME IdleFailure = FALSE
    PROVE  Spec => []NeverDesynchronized
<1>1. Init => NeverDesynchronized
  BY DEF Init, NeverDesynchronized
<1>2. TypeOK /\ NeverDesynchronized /\ [Abstract!Next]_(Abstract!vars) => NeverDesynchronized'
  <2> SUFFICES ASSUME TypeOK, NeverDesynchronized, [Abstract!Next]_(Abstract!vars)
               PROVE  NeverDesynchronized'
    OBVIOUS
  <2>1. ASSUME NEW how \in Ends \ {"protocol"}, outcome' = Append(outcome, how)
        PROVE  NeverDesynchronized'
    <3>1. outcome \in Seq(Ends)
      BY DEF TypeOK
    <3>2. \A i \in DOMAIN outcome' :
             \/ i \in DOMAIN outcome /\ outcome'[i] = outcome[i]
             \/ outcome'[i] = how
      BY <2>1, <3>1
    <3> QED BY <3>2 DEF NeverDesynchronized
  <2>2. CASE outcome' = outcome
    BY <2>2 DEF NeverDesynchronized
  <2> QED BY <2>1, <2>2 DEF Abstract!Next, Abstract!Begin, Abstract!Ask, Abstract!Finish,
                            Abstract!Fail, Abstract!Close, Abstract!vars, Ends
<1>3. [Next]_vars /\ TypeOK /\ Conversation /\ CanceledWasAsked'
        => [Abstract!Next]_(Abstract!vars)
  BY StepsCall
<1> QED BY <1>1, <1>2, <1>3, TypeCorrect, ConversationHolds, CancelSafe, PTL DEF Spec
=============================================================================
