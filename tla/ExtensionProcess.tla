-------------------------- MODULE ExtensionProcess --------------------------
(***************************************************************************)
(* One generation of an extension process and its supervisor               *)
(* (crates/plugin-host/src/supervisor.rs): the calls that are multiplexed  *)
(* over the child's pipes, the reader task, the heartbeat monitor, the     *)
(* streams with their byte credit, and the three ways a generation is torn *)
(* down.                                                                   *)
(*                                                                         *)
(* Every caller issues one request, so a caller names its request and its  *)
(* stream.  Frames have unit size.  The extension is the environment: it   *)
(* may be slow, crash, stop its heartbeats or break the protocol.  The     *)
(* handshake that precedes all this is in ExtensionRuntimes (a start that  *)
(* succeeds or fails); diagnostics and redaction are left out.             *)
(***************************************************************************)
EXTENDS Naturals, Sequences, FiniteSets

CONSTANTS
    Callers,        \* request() calls, one per caller
    Streamers,      \* the callers that go through request_stream
    MaxRequests,    \* negotiated max_concurrent_requests
    Window,         \* initial_stream_credit, in frames
    MaxFrames,      \* frames of a stream, the last one terminal (bound)
    MaxPipe         \* messages in the child's stdout pipe (bound)

ASSUME ProcessAssumption ==
    /\ IsFiniteSet(Callers) /\ "drainer" \notin Callers /\ Streamers \subseteq Callers
    /\ MaxRequests \in Nat \ {0} /\ Window \in Nat \ {0}
    /\ MaxFrames \in Nat \ {0} /\ MaxPipe \in Nat \ {0}

Drainer == "drainer"
Killers == Callers \cup {Drainer}

VARIABLES
    \* the SupervisedProcess
    accepting, stopped, health,
    pending,      \* requests with a oneshot sender in the map
    sink,         \* sink[c]: the StreamSink of c's stream, or NoSink
    \* the tasks
    reader, monitor,
    killer,       \* killer[k]: progress of kill() in caller k or the drain
    \* the callers
    pc,
    answer,       \* answer[c]: the oneshot: "none", "value" or "closed"
    received,     \* received[c]: frames put into the stream's channel
    taken,        \* taken[c]: frames its consumer has taken out
    \* the child
    child,
    wedged,       \* it has stopped reading its stdin, and the pipe is full
    asked, out,
    credit,       \* credit[c]: byte credit the child may still use
    grant,        \* grant[c]: credit messages on their way to the child
    sent,         \* sent[c]: frames the child has sent
    \* history
    excused       \* the generation may go down: the extension crashed, broke the
                  \* protocol, missed its heartbeats or ignored a cancellation,
                  \* it was shut down, a stream lost its consumer before its last
                  \* frame (dropped, abandoned, timed out), or a write was cut in
                  \* the middle

process == <<accepting, stopped, health, pending, sink>>
tasks == <<reader, monitor, killer>>
callers == <<pc, answer, received, taken>>
memory == <<child, wedged, asked, credit, grant, sent>>
extension == <<memory, out>>
vars == <<process, tasks, callers, extension, excused>>

Sink(o, n, x) == [open |-> o, credit |-> n, next |-> x]
NoSink == Sink(FALSE, 0, 0)

Zero == [c \in Callers |-> 0]

Init ==
    /\ accepting = TRUE /\ stopped = FALSE /\ health = "ready"
    /\ pending = {}
    /\ sink = [c \in Callers |-> NoSink]
    /\ reader = "run" /\ monitor = "run"
    /\ killer = [k \in Killers |-> "idle"]
    /\ pc = [c \in Callers |-> "idle"]
    /\ answer = [c \in Callers |-> "none"]
    /\ received = Zero
    /\ taken = Zero
    /\ child = "up" /\ wedged = FALSE /\ asked = {} /\ out = <<>>
    /\ credit = Zero
    /\ grant = Zero
    /\ sent = Zero
    /\ excused = FALSE

-----------------------------------------------------------------------------
(* The parts a teardown is made of.  Dropping a oneshot sender or a stream  *)
(* sender is what its receiver sees as the end.                            *)

\* pending.clear()
ClearPending ==
    /\ pending' = {}
    /\ answer' = [c \in Callers |-> IF c \in pending THEN "closed" ELSE answer[c]]

\* streams.clear(); what is buffered can still be received.
ClearStreams == sink' = [c \in Callers |-> NoSink]

\* The child is gone with what it knew; what it had written stays readable.
KillChild ==
    /\ child' = "dead" /\ wedged' = FALSE /\ asked' = {}
    /\ credit' = Zero
    /\ grant' = Zero
    /\ sent' = Zero

-----------------------------------------------------------------------------
(* Callers: request_stream and request.                                    *)

Goto(c, p) == pc' = [pc EXCEPT ![c] = p]

ends == <<sink, answer, received, taken>>

\* The call is over: its channels are gone, and its stream's sink with them.
Return(c) ==
    /\ Goto(c, "done")
    /\ sink' = [sink EXCEPT ![c] = NoSink]
    /\ answer' = [answer EXCEPT ![c] = "none"]
    /\ received' = [received EXCEPT ![c] = 0]
    /\ taken' = [taken EXCEPT ![c] = 0]

\* request_stream registers the sink before it sends the request.
OpenStream(c) ==
    /\ c \in Streamers /\ pc[c] = "idle"
    /\ sink' = [sink EXCEPT ![c] = Sink(TRUE, Window, 0)]
    /\ Goto(c, "admit")
    /\ UNCHANGED <<accepting, stopped, health, pending, tasks, answer, received,
                   taken, extension, excused>>

\* request: refused once the generation drains or has stopped.
Admit(c) ==
    /\ pc[c] = IF c \in Streamers THEN "admit" ELSE "idle"
    /\ IF accepting /\ ~stopped
       THEN Goto(c, "insert") /\ UNCHANGED ends
       ELSE Return(c)
    /\ UNCHANGED <<accepting, stopped, health, pending, tasks, extension, excused>>

\* As Insert, without the limit the handshake agreed on.
InsertUnbounded(c) ==
    /\ pc[c] = "insert"
    /\ pending' = pending \cup {c} /\ Goto(c, "write")
    /\ UNCHANGED <<accepting, stopped, health, ends, tasks, extension, excused>>

\* Under the lock of the map: the negotiated concurrency, then the entry.
Insert(c) ==
    /\ pc[c] = "insert"
    /\ IF Cardinality(pending) >= MaxRequests
       THEN Return(c) /\ UNCHANGED pending
       ELSE pending' = pending \cup {c} /\ Goto(c, "write") /\ UNCHANGED ends
    /\ UNCHANGED <<accepting, stopped, health, tasks, extension, excused>>

\* write_message: a dead child has closed the pipe, and a full pipe blocks the
\* writer and whoever waits for its lock.
Write(c) ==
    /\ pc[c] = "write"
    /\ \/ /\ child = "up" /\ ~wedged
          /\ asked' = asked \cup {c} /\ Goto(c, "wait")
          /\ UNCHANGED <<pending, ends>>
       \/ /\ child = "dead"
          /\ pending' = pending \ {c} /\ Return(c)
          /\ UNCHANGED asked
    /\ UNCHANGED <<accepting, stopped, health, tasks, child, wedged, out, credit,
                   grant, sent, excused>>

\* The response, or the dropped sender as ProcessStopped.
Receive(c) ==
    /\ pc[c] = "wait" /\ answer[c] # "none"
    /\ IF answer[c] = "value" /\ c \in Streamers
       THEN Goto(c, "stream") /\ UNCHANGED ends
       ELSE Return(c)
    /\ UNCHANGED <<accepting, stopped, health, pending, tasks, extension, excused>>

\* As Deadline, with the entry given up together with the call.
DeadlineForgets(c) ==
    /\ pc[c] = "wait" /\ answer[c] = "none"
    /\ Goto(c, "cancel")
    /\ pending' = pending \ {c}
    /\ UNCHANGED <<accepting, stopped, health, sink, tasks, answer, received, taken,
                   extension, excused>>

\* The deadline of the request.
Deadline(c) ==
    /\ pc[c] = "wait" /\ answer[c] = "none"
    /\ Goto(c, "cancel")
    /\ UNCHANGED <<process, tasks, answer, received, taken, extension, excused>>

\* It writes Cancel, whatever comes of it, and then starts the grace period.
WriteCancel(c) ==
    /\ pc[c] = "cancel" /\ (wedged => child = "dead")
    /\ Goto(c, "grace")
    /\ UNCHANGED <<process, tasks, answer, received, taken, extension, excused>>

\* An answer within cancel_grace: the call times out, the generation lives.
\* A stream that was answered has lost its consumer.
GraceAnswered(c) ==
    /\ pc[c] = "grace" /\ answer[c] # "none"
    /\ Return(c)
    /\ excused' = (excused \/ c \in Streamers)
    /\ UNCHANGED <<accepting, stopped, health, pending, tasks, extension>>

\* As GraceOver, waiting for the answer without a timer.
GraceWithoutTimer(c) == FALSE /\ UNCHANGED vars

\* No answer: take the entry back and kill the generation.
GraceOver(c) ==
    /\ pc[c] = "grace" /\ answer[c] = "none"
    /\ pending' = pending \ {c}
    /\ Goto(c, "kill")
    /\ killer' = [killer EXCEPT ![c] = "child"]
    /\ excused' = TRUE
    /\ UNCHANGED <<accepting, stopped, health, sink, reader, monitor, answer,
                   received, taken, extension>>

\* The caller's future is dropped at an await point (a disconnected client, a
\* bounded operation out of time).  Nothing takes its entry or its sink back, a
\* write may have put half a frame into the pipe; kill() has sent its signal by
\* then and the reader does the rest.
Abandon(c) ==
    /\ pc[c] \in {"insert", "write", "wait", "cancel", "grace", "kill"}
    /\ killer[c] # "child"
    /\ Goto(c, "gone")
    /\ killer' = [killer EXCEPT ![c] = "idle"]
    /\ excused' = (excused \/ c \in Streamers \/ pc[c] \in {"write", "cancel"})
    /\ UNCHANGED <<process, reader, monitor, answer, received,
                   taken, extension>>

-----------------------------------------------------------------------------
(* Consumers of a stream: RpcStream.                                       *)

\* As Take, without the host's own credit.
TakeWithoutCredit(c) ==
    /\ pc[c] = "stream" /\ taken[c] < received[c]
    /\ taken' = [taken EXCEPT ![c] = @ + 1]
    /\ Goto(c, "credit")
    /\ UNCHANGED <<process, tasks, answer, received, extension, excused>>

\* next() and the first half of accept(): the host's own credit grows before
\* the Credit message can leave.
Take(c) ==
    /\ pc[c] = "stream" /\ taken[c] < received[c]
    /\ taken' = [taken EXCEPT ![c] = @ + 1]
    /\ sink' = IF sink[c].open
               THEN [sink EXCEPT ![c] = Sink(TRUE, sink[c].credit + 1, sink[c].next)]
               ELSE sink
    /\ Goto(c, "credit")
    /\ UNCHANGED <<accepting, stopped, health, pending, tasks, answer, received,
                   extension, excused>>

\* The second half: write Credit.  A failed write takes the credit back and
\* ends the consumer's loop, as does the terminal frame.
WriteCredit(c) ==
    /\ pc[c] = "credit" /\ (wedged => child = "dead")
    /\ grant' = IF child = "up" THEN [grant EXCEPT ![c] = @ + 1] ELSE grant
    /\ IF child = "up" /\ taken[c] < MaxFrames
       THEN Goto(c, "stream") /\ UNCHANGED ends
       ELSE Return(c)
    /\ UNCHANGED <<accepting, stopped, health, pending, tasks, child, wedged, asked,
                   out, credit, sent, excused>>

\* next() returned None: the sink was cleared and the channel is empty.
StreamEnds(c) ==
    /\ pc[c] = "stream" /\ taken[c] = received[c] /\ ~sink[c].open
    /\ Return(c)
    /\ UNCHANGED <<accepting, stopped, health, pending, tasks, extension, excused>>

\* The consumer of the rows goes away: RpcStream is dropped.
DropStream(c) ==
    /\ pc[c] \in {"stream", "credit"}
    /\ Return(c)
    /\ excused' = TRUE
    /\ UNCHANGED <<accepting, stopped, health, pending, tasks, extension>>

CallerStep(c) ==
    \/ OpenStream(c) \/ Admit(c) \/ Insert(c) \/ Write(c) \/ Receive(c)
    \/ Deadline(c) \/ WriteCancel(c) \/ GraceAnswered(c) \/ GraceOver(c)
    \/ Take(c) \/ WriteCredit(c) \/ StreamEnds(c)

-----------------------------------------------------------------------------
(* The extension.                                                          *)

Msg(kind, id, seq) == [kind |-> kind, id |-> id, seq |-> seq]
Send(m) == Len(out) < MaxPipe /\ out' = Append(out, m)

\* It answers a request; a stream then has the credit of Welcome.
Respond(c) ==
    /\ child = "up" /\ c \in asked
    /\ asked' = asked \ {c}
    /\ Send(Msg("response", c, 0))
    /\ credit' = [credit EXCEPT ![c] = IF c \in Streamers THEN Window ELSE 0]
    /\ UNCHANGED <<process, tasks, callers, child, wedged, grant, sent, excused>>

\* The next frame, within the credit the child knows of.
SendFrame(c) ==
    /\ child = "up" /\ credit[c] > 0 /\ sent[c] < MaxFrames
    /\ Send(Msg("frame", c, sent[c]))
    /\ credit' = [credit EXCEPT ![c] = @ - 1]
    /\ sent' = [sent EXCEPT ![c] = @ + 1]
    /\ UNCHANGED <<process, tasks, callers, child, wedged, asked, grant, excused>>

\* It reads a Credit message.
ReadCredit(c) ==
    /\ child = "up" /\ ~wedged /\ grant[c] > 0
    /\ grant' = [grant EXCEPT ![c] = @ - 1]
    /\ credit' = [credit EXCEPT ![c] = @ + 1]
    /\ UNCHANGED <<process, tasks, callers, child, wedged, asked, out, sent, excused>>

\* It breaks the protocol (an unknown id, an unexpected message).
Misbehave ==
    /\ child = "up"
    /\ Send(Msg("junk", Drainer, 0))
    /\ excused' = TRUE
    /\ UNCHANGED <<process, tasks, callers, child, wedged, asked, credit, grant, sent>>

\* It stops reading its stdin for good, and goes on sending heartbeats.
StopReading ==
    /\ child = "up" /\ ~wedged
    /\ wedged' = TRUE
    /\ UNCHANGED <<process, tasks, callers, child, asked, out, credit, grant, sent,
                   excused>>

\* It exits.
Exit ==
    /\ child = "up"
    /\ KillChild
    /\ excused' = TRUE
    /\ UNCHANGED <<process, tasks, callers, out>>

ExtensionStep ==
    \/ \E c \in Callers : Respond(c) \/ SendFrame(c) \/ ReadCredit(c)
    \/ Misbehave \/ StopReading \/ Exit

-----------------------------------------------------------------------------
(* The reader task.                                                        *)

\* Is the message one the reader accepts?  Otherwise it stops.
Acceptable(m) ==
    \/ m.kind = "response" /\ m.id \in pending
    \/ /\ m.kind = "frame"
       /\ sink[m.id].open /\ m.seq = sink[m.id].next /\ sink[m.id].credit > 0
       /\ pc[m.id] # "gone"

\* A response leaves the map and wakes its caller; a frame is charged to its
\* stream and queued.  A heartbeat or a log changes nothing that is kept here.
ReadMessage ==
    /\ reader = "run" /\ out # <<>>
    /\ LET m == Head(out) IN
       /\ out' = Tail(out)
       /\ IF ~Acceptable(m)
          THEN reader' = "stop" /\ UNCHANGED <<pending, answer, sink, received>>
          ELSE IF m.kind = "response"
          THEN /\ pending' = pending \ {m.id}
               /\ answer' = [answer EXCEPT ![m.id] = "value"]
               /\ UNCHANGED <<reader, sink, received>>
          ELSE /\ sink' = [sink EXCEPT ![m.id] = Sink(TRUE, @.credit - 1, @.next + 1)]
               /\ received' = [received EXCEPT ![m.id] = @ + 1]
               /\ UNCHANGED <<reader, pending, answer>>
    /\ UNCHANGED <<accepting, stopped, health, monitor, killer, pc, taken, child,
                   wedged, asked, credit, grant, sent, excused>>

\* End of file.
ReadEnd ==
    /\ reader = "run" /\ out = <<>> /\ child = "dead"
    /\ reader' = "stop"
    /\ UNCHANGED <<process, monitor, killer, callers, extension, excused>>

\* health.write, pending.clear and streams.clear, in this order.  No step of
\* another actor reads two of the three, so they are one step.
Release(h) == health' = h /\ ClearPending /\ ClearStreams

\* The teardown of a task that gives the generation up: refuse new calls,
\* report Degraded and release callers and consumers, kill the child.
Teardown(at, next) ==
    \/ /\ at = "stop" /\ next = "release"
       /\ stopped' = TRUE
       /\ UNCHANGED <<health, pending, answer, sink, memory>>
    \/ /\ at = "release" /\ next = "child"
       /\ Release("degraded")
       /\ UNCHANGED <<stopped, memory>>
    \/ /\ at = "child" /\ next = "done"
       /\ KillChild
       /\ UNCHANGED <<stopped, health, pending, answer, sink>>

TeardownSteps == {"release", "child", "done"}

ReaderTeardown ==
    \E next \in TeardownSteps :
        /\ Teardown(reader, next)
        /\ reader' = next
        /\ UNCHANGED <<accepting, monitor, killer, pc, received, taken, out, excused>>

ReaderStep == ReadMessage \/ ReadEnd \/ ReaderTeardown

-----------------------------------------------------------------------------
(* The heartbeat monitor.                                                  *)

\* A tick finds the generation stopped: the task ends.
MonitorEnds ==
    /\ monitor = "run" /\ stopped
    /\ monitor' = "done"
    /\ UNCHANGED <<process, reader, killer, callers, extension, excused>>

\* A tick finds the last heartbeat too old.
HeartbeatMissed ==
    /\ monitor = "run" /\ ~stopped
    /\ monitor' = "stop"
    /\ excused' = TRUE
    /\ UNCHANGED <<process, reader, killer, callers, extension>>

MonitorTeardown ==
    \E next \in TeardownSteps :
        /\ Teardown(monitor, next)
        /\ monitor' = next
        /\ UNCHANGED <<accepting, reader, killer, pc, received, taken, out, excused>>

-----------------------------------------------------------------------------
(* begin_drain, shutdown and kill.                                         *)

BeginDrain ==
    /\ accepting
    /\ accepting' = FALSE
    /\ UNCHANGED <<stopped, health, pending, sink, tasks, callers, extension, excused>>

\* shutdown, after the drain saw active_work reach zero or ran out of time.
\* A generation that has stopped already is left to who stopped it.
Shutdown ==
    /\ ~accepting /\ killer[Drainer] = "idle"
    /\ killer' = [killer EXCEPT ![Drainer] = IF stopped THEN "done" ELSE "notify"]
    /\ stopped' = TRUE /\ excused' = TRUE
    /\ UNCHANGED <<accepting, health, pending, sink, reader, monitor, callers,
                   extension>>

\* It writes the Shutdown message before it kills.
NotifyShutdown ==
    /\ killer[Drainer] = "notify" /\ (wedged => child = "dead")
    /\ killer' = [killer EXCEPT ![Drainer] = "child"]
    /\ UNCHANGED <<process, reader, monitor, callers, extension, excused>>

\* As Kill, taking a generation that is marked stopped for one that was killed.
KillUnlessStopped(k) ==
    /\ killer[k] = "child"
    /\ killer' = [killer EXCEPT ![k] = IF stopped THEN "done" ELSE "release"]
    /\ stopped' = TRUE
    /\ IF stopped THEN UNCHANGED memory ELSE KillChild
    /\ UNCHANGED <<accepting, health, pending, sink, reader, monitor, callers, out, excused>>

\* kill(): the child first, then the report, the callers and the consumers.
Kill(k) ==
    /\ \/ /\ killer[k] = "child" /\ killer' = [killer EXCEPT ![k] = "release"]
          /\ stopped' = TRUE /\ KillChild
          /\ UNCHANGED <<health, pending, answer, sink, pc, received, taken>>
       \/ /\ killer[k] = "release"
          /\ killer' = [killer EXCEPT ![k] = IF k = Drainer THEN "done" ELSE "idle"]
          /\ Release("stopped")
          /\ pc' = IF k \in Callers THEN [pc EXCEPT ![k] = "done"] ELSE pc
          /\ UNCHANGED <<stopped, memory, received, taken>>
    /\ UNCHANGED <<accepting, reader, monitor, out, excused>>

-----------------------------------------------------------------------------
HostStep ==
    \/ \E c \in Callers : CallerStep(c)
    \/ ReaderStep \/ MonitorEnds \/ MonitorTeardown
    \/ NotifyShutdown
    \/ \E k \in Killers : Kill(k)

Next ==
    \/ HostStep
    \/ \E c \in Callers : Abandon(c) \/ DropStream(c)
    \/ HeartbeatMissed \/ BeginDrain \/ Shutdown
    \/ ExtensionStep

\* Calls, the two tasks and a kill under way run on the host's executor, and
\* a deadline is a timer of its own.  The extension, the consumers and the
\* operator owe nothing.
Fairness ==
    /\ \A c \in Callers :
          WF_vars(OpenStream(c) \/ Admit(c) \/ Insert(c) \/ Write(c) \/ Receive(c)
                  \/ Deadline(c) \/ WriteCancel(c) \/ GraceAnswered(c) \/ GraceOver(c))
    /\ WF_vars(ReaderStep)
    /\ WF_vars(MonitorTeardown)
    /\ WF_vars(NotifyShutdown)
    /\ \A k \in Killers : WF_vars(Kill(k))

Spec == Init /\ [][Next]_vars /\ Fairness

-----------------------------------------------------------------------------
(* Properties.                                                             *)

TaskPcs == {"run", "stop"} \cup TeardownSteps
KillPcs == {"idle", "notify", "child", "release", "done"}
CallerPcs == {"idle", "admit", "insert", "write", "wait", "cancel", "grace", "kill",
              "stream", "credit", "done", "gone"}

Messages == [kind : {"response", "frame", "junk"}, id : Killers, seq : 0..MaxFrames]

\* Type invariant of the supervisor, its callers and the pipes.
TypeOK ==
    /\ accepting \in BOOLEAN /\ stopped \in BOOLEAN
    /\ health \in {"ready", "degraded", "stopped"}
    /\ pending \subseteq Callers
    /\ sink \in [Callers -> [open : BOOLEAN, credit : 0..Window, next : 0..MaxFrames]]
    /\ reader \in TaskPcs /\ monitor \in TaskPcs
    /\ killer \in [Killers -> KillPcs]
    /\ pc \in [Callers -> CallerPcs]
    /\ answer \in [Callers -> {"none", "value", "closed"}]
    /\ received \in [Callers -> 0..MaxFrames] /\ taken \in [Callers -> 0..MaxFrames]
    /\ child \in {"up", "dead"} /\ wedged \in BOOLEAN /\ asked \subseteq Callers
    /\ out \in Seq(Messages) /\ Len(out) <= MaxPipe
    /\ credit \in [Callers -> 0..Window] /\ grant \in [Callers -> 0..Window]
    /\ sent \in [Callers -> 0..MaxFrames]
    /\ excused \in BOOLEAN

FramesIn(s, c) == {i \in 1..Len(s) : s[i].kind = "frame" /\ s[i].id = c}
InFlight(c) == Cardinality(FramesIn(out, c))

\* The two ends of a stream never disagree to the extension's cost: the
\* credit the host still grants covers what the child may send, what is on its
\* way to the host and the credit on its way to the child.  An extension that
\* keeps to its credit is therefore never stopped for exceeding it.  Stated
\* with the type invariant, which bounds the credits.
CreditCovers ==
    /\ TypeOK
    /\ \A c \in Streamers :
          sink[c].open /\ pc[c] \in {"stream", "credit"} =>
              sink[c].credit >= credit[c] + grant[c] + InFlight(c)

\* A generation goes down for a reason: unless the extension failed or was
\* shut down, a stream lost its consumer early or a call was abandoned in the
\* middle of a write, the reader accepts whatever arrives, late answers to
\* timed-out or abandoned calls included.
BlamelessSurvives == ~excused => ~stopped /\ reader = "run"

GivenUp == stopped \/ \E k \in Killers : killer[k] = "child"

\* The extension never holds more requests than the handshake agreed on until
\* the generation is given up, although calls are abandoned and time out.
NegotiatedConcurrency == ~GivenUp => Cardinality(asked) <= MaxRequests

Calling(c) == pc[c] \in {"admit", "insert", "write", "wait", "cancel", "grace", "kill"}
Returned(c) == pc[c] \in {"stream", "credit", "done", "gone"}

\* No call is left waiting: its deadline, the grace period or the teardown
\* ends it, even if its entry was made after a teardown cleared the map.  The
\* exception is a child that lives and no longer reads: no timer covers the
\* writes of a request and of its cancellation.
EveryCallReturns ==
    \A c \in Callers :
        Calling(c) ~> Returned(c) \/ (wedged /\ child = "up" /\ pc[c] \in {"write", "cancel"})

\* A generation that refuses calls is on its way out: its child is killed,
\* its health says so and the reader ends, whichever of the reader, the
\* monitor, a timed-out call or the drain gave it up, and even if that call
\* is abandoned halfway.  The same exception holds for the Shutdown message.
StoppedIsTornDown ==
    stopped ~> \/ child = "dead" /\ health # "ready" /\ reader = "done"
               \/ killer[Drainer] = "notify" /\ wedged

=============================================================================
