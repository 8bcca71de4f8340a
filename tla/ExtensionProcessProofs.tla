----------------------- MODULE ExtensionProcessProofs -----------------------
(***************************************************************************)
(* Proofs about ExtensionProcess: credit, concurrency and blame, for any   *)
(* callers, window, concurrency and pipe.                                  *)
(***************************************************************************)
EXTENDS ExtensionProcess, FiniteSetTheorems, TLAPS

\* The types, without the bounds that the accounts give.
Shape ==
    /\ accepting \in BOOLEAN /\ stopped \in BOOLEAN
    /\ health \in {"ready", "degraded", "stopped"}
    /\ pending \subseteq Callers
    /\ sink \in [Callers -> [open : BOOLEAN, credit : Nat, next : Nat]]
    /\ reader \in TaskPcs /\ monitor \in TaskPcs
    /\ killer \in [Killers -> KillPcs]
    /\ pc \in [Callers -> CallerPcs]
    /\ answer \in [Callers -> {"none", "value", "closed"}]
    /\ received \in [Callers -> Nat] /\ taken \in [Callers -> Nat]
    /\ child \in {"up", "dead"} /\ wedged \in BOOLEAN /\ asked \subseteq Callers
    /\ out \in Seq(Messages) /\ Len(out) <= MaxPipe
    /\ credit \in [Callers -> Nat] /\ grant \in [Callers -> Nat]
    /\ sent \in [Callers -> 0..MaxFrames]
    /\ excused \in BOOLEAN

Early == {"idle", "admit", "insert", "write"}
Streaming == {"stream", "credit"}

\* The child has not answered c and the host has received nothing of it.
Fresh(c) ==
    /\ credit[c] = 0 /\ grant[c] = 0 /\ sent[c] = 0 /\ received[c] = 0 /\ taken[c] = 0
    /\ \A i \in 1..Len(out) : out[i].id # c

\* A request is with the child until its response is on the way.
Talk(c) ==
    /\ pc[c] \in Early \/ answer[c] = "value" \/ pc[c] \in Streaming => c \notin asked
    /\ pc[c] \in Early \/ c \in asked => Fresh(c)
    /\ pc[c] \in Early => answer[c] # "value"
    /\ pc[c] \in Streaming \cup {"admit"} => c \in Streamers
TalkInv == \A c \in Callers : Talk(c)

\* Responses and frames belong to a caller, and a stream has MaxFrames frames.
PipeInv ==
    \A i \in 1..Len(out) :
        out[i].kind # "junk" => out[i].id \in Callers /\ out[i].seq < MaxFrames

Owed(c) == IF pc[c] = "credit" THEN 1 ELSE 0

\* Whatever the child may send, has sent or is about to be allowed to send was taken out of
\* the channel or is part of the window.
Account(c) ==
    /\ taken[c] <= received[c]
    /\ credit[c] + grant[c] + InFlight(c) + received[c] + Owed(c) <= Window + taken[c]
AccountInv == \A c \in Callers : Account(c)

\* The host's own credit and position follow the channel.
SinkFollows(c) ==
    /\ received[c] <= MaxFrames
    /\ ~sink[c].open => sink[c] = NoSink
    /\ sink[c].open =>
          /\ c \in Streamers
          /\ sink[c].credit + received[c] = Window + taken[c]
          /\ sink[c].next = received[c]
SinkInv == \A c \in Callers : SinkFollows(c)

\* What gave the generation up has said so.
GiveInv ==
    /\ reader \in TeardownSteps \/ monitor \in TeardownSteps => stopped
    /\ \A k \in Killers : killer[k] = "release" => stopped

\* What the child holds has its entry in the map.
ConcInv ==
    ~GivenUp =>
        /\ asked \subseteq pending /\ Cardinality(pending) <= MaxRequests
        /\ \A c \in Callers : pc[c] = "write" => c \in pending

\* The frames of c in the pipe are those from the next the host expects to the last one sent,
\* in this order.
FlowOf(s, c, lo, hi) ==
    /\ lo <= hi
    /\ \A i \in FramesIn(s, c) : s[i].seq >= lo /\ s[i].seq < hi
    /\ \A i, j \in FramesIn(s, c) : i < j => s[i].seq < s[j].seq
    /\ \A k \in lo .. hi - 1 : \E i \in FramesIn(s, c) : s[i].seq = k
Flow(c) == FlowOf(out, c, received[c], sent[c])

\* No frame of c is on its way or will be.
Quiet(c) ==
    /\ FramesIn(out, c) = {}
    /\ (credit[c] = 0 /\ grant[c] = 0) \/ sent[c] = MaxFrames

\* Nobody tears the generation down.
Calm ==
    /\ ~stopped /\ reader = "run" /\ monitor = "run" /\ child = "up"
    /\ \A k \in Killers : killer[k] = "idle"
    /\ \A c \in Callers : answer[c] # "closed"

\* Every response on its way has its entry in the map, and there is one for each entry.
ResponsesExpected ==
    /\ \A i \in 1..Len(out) : out[i].kind # "junk"
    /\ \A i \in 1..Len(out) : out[i].kind = "response" => out[i].id \in pending
    /\ \A i, j \in 1..Len(out) :
          out[i].kind = "response" /\ out[j].kind = "response" /\ out[i].id = out[j].id => i = j

\* A stream keeps its sink until its consumer has the last frame.
StreamOpen(c) ==
    /\ c \in asked \/ pc[c] \notin {"idle", "done", "gone"} => sink[c].open
    /\ pc[c] # "gone"
StreamsOpen == \A c \in Streamers : StreamOpen(c)

FramesExpected == \A c \in Callers : IF sink[c].open THEN Flow(c) ELSE Quiet(c)

\* As long as nothing has happened that the generation may go down for, nobody tears it down
\* and the reader will accept every message when it comes to it.
BlameInv == ~excused => Calm /\ ResponsesExpected /\ StreamsOpen /\ FramesExpected

IInv == Shape /\ TalkInv /\ PipeInv /\ AccountInv /\ SinkInv /\ GiveInv /\ ConcInv /\ BlameInv

-----------------------------------------------------------------------------
(* Frames in the pipe. *)

(* The frames of a stream in the pipe can be counted. *)
LEMMA FramesFinite ==
    ASSUME NEW s \in Seq(Messages), NEW c
    PROVE  IsFiniteSet(FramesIn(s, c)) /\ Cardinality(FramesIn(s, c)) \in Nat
<1>1. IsFiniteSet(1..Len(s))
  BY FS_Interval
<1>2. FramesIn(s, c) \in SUBSET (1..Len(s))
  BY DEF FramesIn
<1> QED
  BY <1>1, <1>2, FS_Subset, FS_CardinalityType

(* Send puts a message behind the others. *)
LEMMA FramesAppend ==
    ASSUME NEW s \in Seq(Messages), NEW m \in Messages, NEW c
    PROVE  /\ ~(m.kind = "frame" /\ m.id = c) => FramesIn(Append(s, m), c) = FramesIn(s, c)
           /\ (m.kind = "frame" /\ m.id = c) =>
                 /\ FramesIn(Append(s, m), c) = FramesIn(s, c) \cup {Len(s) + 1}
                 /\ Cardinality(FramesIn(Append(s, m), c)) = Cardinality(FramesIn(s, c)) + 1
<1>1. /\ Len(Append(s, m)) = Len(s) + 1 /\ Len(s) \in Nat
      /\ \A i \in 1..Len(s) : Append(s, m)[i] = s[i]
      /\ Append(s, m)[Len(s) + 1] = m
  OBVIOUS
<1>2. \A i : i \in 1..(Len(s) + 1) <=> (i \in 1..Len(s) \/ i = Len(s) + 1)
  BY <1>1
<1>3. ASSUME ~(m.kind = "frame" /\ m.id = c) PROVE FramesIn(Append(s, m), c) = FramesIn(s, c)
  BY <1>1, <1>2, <1>3 DEF FramesIn
<1>4. ASSUME m.kind = "frame" /\ m.id = c
      PROVE  FramesIn(Append(s, m), c) = FramesIn(s, c) \cup {Len(s) + 1}
  BY <1>1, <1>2, <1>4 DEF FramesIn
<1>5. Len(s) + 1 \notin FramesIn(s, c)
  BY <1>1 DEF FramesIn
<1>6. Cardinality(FramesIn(s, c) \cup {Len(s) + 1}) = Cardinality(FramesIn(s, c)) + 1
  BY <1>5, FramesFinite, FS_AddElement
<1> QED
  BY <1>3, <1>4, <1>6

(* The reader takes the first message. *)
LEMMA FramesTail ==
    ASSUME NEW s \in Seq(Messages), s # <<>>, NEW c
    PROVE  /\ \A i \in Nat : i \in FramesIn(Tail(s), c) <=> (i > 0 /\ i + 1 \in FramesIn(s, c))
           /\ Cardinality(FramesIn(s, c)) = Cardinality(FramesIn(Tail(s), c))
                 + (IF Head(s).kind = "frame" /\ Head(s).id = c THEN 1 ELSE 0)
<1> DEFINE B == FramesIn(Tail(s), c)
           S == FramesIn(s, c) \ {1}
           f == [i \in B |-> i + 1]
<1>1. /\ Tail(s) \in Seq(Messages) /\ Len(Tail(s)) = Len(s) - 1 /\ Len(s) \in Nat /\ Len(s) > 0
      /\ \A i \in 1..Len(s) - 1 : Tail(s)[i] = s[i + 1]
      /\ Head(s) = s[1]
  OBVIOUS
<1>2. \A i \in Nat : i \in B <=> (i > 0 /\ i + 1 \in FramesIn(s, c))
  BY <1>1 DEF FramesIn
<1>3. f \in [B -> S] /\ \A x, y \in B : f[x] = f[y] => x = y
  <2>1. \A i \in B : i \in Nat /\ i > 0
    BY <1>1 DEF FramesIn
  <2> QED
    BY <1>2, <2>1
<1>4. ASSUME NEW y \in S PROVE \E x \in B : f[x] = y
  <2>1. y \in Nat /\ y > 1
    BY <1>1 DEF FramesIn
  <2>2. y - 1 \in B
    BY <1>2, <2>1
  <2> QED
    BY <2>1, <2>2
<1>5. f \in Bijection(B, S)
  BY <1>3, <1>4 DEF Bijection, Injection, Surjection, IsInjective
<1>6. Cardinality(S) = Cardinality(B)
  <2>1. IsFiniteSet(B)
    BY <1>1, FramesFinite
  <2>2. ExistsBijection(B, S)
    BY <1>5 DEF ExistsBijection
  <2> HIDE DEF B, S
  <2> QED
    BY <2>1, <2>2, FS_Bijection
<1>7. 1 \in FramesIn(s, c) <=> (Head(s).kind = "frame" /\ Head(s).id = c)
  BY <1>1 DEF FramesIn
<1>8. /\ IsFiniteSet(FramesIn(s, c)) /\ Cardinality(FramesIn(s, c)) \in Nat
      /\ Cardinality(S) = IF 1 \in FramesIn(s, c) THEN Cardinality(FramesIn(s, c)) - 1
                          ELSE Cardinality(FramesIn(s, c))
  BY FramesFinite, FS_RemoveElement
<1> QED
  BY <1>2, <1>6, <1>7, <1>8

-----------------------------------------------------------------------------
(* Types. *)

\* The types of what belongs to the calls.
CallShape ==
    /\ pc \in [Callers -> CallerPcs]
    /\ sink \in [Callers -> [open : BOOLEAN, credit : Nat, next : Nat]]
    /\ answer \in [Callers -> {"none", "value", "closed"}]
    /\ received \in [Callers -> Nat] /\ taken \in [Callers -> Nat]

(* What Return leaves has its types. *)
LEMMA ReturnShape ==
    ASSUME Shape, NEW c \in Callers, Return(c) \/ (UNCHANGED ends /\ \E p \in CallerPcs : Goto(c, p))
    PROVE  CallShape'
<1>a. NoSink \in [open : BOOLEAN, credit : Nat, next : Nat]
  BY DEF Sink, NoSink
<1>b. "done" \in CallerPcs
  BY DEF CallerPcs
<1>1. CASE Return(c)
  <2>1. pc' \in [Callers -> CallerPcs]
    BY <1>1, <1>b DEF Return, Goto, Shape
  <2>2. sink' \in [Callers -> [open : BOOLEAN, credit : Nat, next : Nat]]
    BY <1>1, <1>a DEF Return, Shape
  <2>3. answer' \in [Callers -> {"none", "value", "closed"}]
    BY <1>1 DEF Return, Shape
  <2>4. received' \in [Callers -> Nat] /\ taken' \in [Callers -> Nat]
    BY <1>1 DEF Return, Shape
  <2> QED
    BY <2>1, <2>2, <2>3, <2>4 DEF CallShape
<1>2. CASE UNCHANGED ends /\ \E p \in CallerPcs : Goto(c, p)
  BY <1>2 DEF ends, Goto, Shape, CallShape
<1> QED
  BY <1>1, <1>2

(* The points a call goes to. *)
LEMMA PcsOK == {"idle", "admit", "insert", "write", "wait", "stream", "credit", "done"} \subseteq CallerPcs
  BY DEF CallerPcs

(* Every step keeps the types. *)
LEMMA ShapeNext == Shape /\ PipeInv /\ [Next]_vars => Shape'
<1> SUFFICES ASSUME Shape, PipeInv, [Next]_vars PROVE Shape'
  OBVIOUS
<1> USE ProcessAssumption
<1>a. Sink(TRUE, Window, 0) \in [open : BOOLEAN, credit : Nat, next : Nat] /\ NoSink \in [open : BOOLEAN, credit : Nat, next : Nat]
  BY DEF Sink, NoSink
<1>b. ASSUME NEW n \in Nat, NEW x \in Nat PROVE Sink(TRUE, n, x) \in [open : BOOLEAN, credit : Nat, next : Nat]
  BY DEF Sink
<1>c. ASSUME KillChild
      PROVE  /\ child' \in {"up", "dead"} /\ wedged' \in BOOLEAN /\ asked' \subseteq Callers
             /\ credit' \in [Callers -> Nat] /\ grant' \in [Callers -> Nat]
             /\ sent' \in [Callers -> 0..MaxFrames]
  <2>1. Zero \in [Callers -> Nat] /\ Zero \in [Callers -> 0..MaxFrames]
    BY DEF Zero
  <2> QED
    BY <1>c, <2>1 DEF KillChild
<1>d. ASSUME NEW h \in {"degraded", "stopped"}, Release(h)
      PROVE  /\ health' \in {"ready", "degraded", "stopped"} /\ pending' \subseteq Callers
             /\ sink' \in [Callers -> [open : BOOLEAN, credit : Nat, next : Nat]]
             /\ answer' \in [Callers -> {"none", "value", "closed"}]
  BY <1>a, <1>d DEF Release, ClearPending, ClearStreams, Shape
<1>1. ASSUME NEW c \in Callers, OpenStream(c) PROVE Shape'
  BY <1>1, <1>a DEF OpenStream, Goto, Shape, tasks, extension, memory, CallerPcs
<1>2. ASSUME NEW c \in Callers, Admit(c) PROVE Shape'
  <2>1. CallShape'
    BY <1>2, ReturnShape, PcsOK DEF Admit
  <2>2. /\ pending' \subseteq Callers /\ asked' \subseteq Callers /\ grant' \in [Callers -> Nat]
        /\ UNCHANGED <<accepting, stopped, health, reader, monitor, killer, child, wedged>>
        /\ UNCHANGED <<out, credit, sent, excused>>
    BY <1>2 DEF Admit, Shape, tasks, extension, memory
  <2> QED
    BY <2>1, <2>2 DEF Shape, CallShape
<1>3. ASSUME NEW c \in Callers, Insert(c) PROVE Shape'
  <2>1. CallShape'
    BY <1>3, ReturnShape, PcsOK DEF Insert
  <2>2. /\ pending' \subseteq Callers /\ asked' \subseteq Callers /\ grant' \in [Callers -> Nat]
        /\ UNCHANGED <<accepting, stopped, health, reader, monitor, killer, child, wedged>>
        /\ UNCHANGED <<out, credit, sent, excused>>
    BY <1>3 DEF Insert, Shape, tasks, extension, memory
  <2> QED
    BY <2>1, <2>2 DEF Shape, CallShape
<1>4. ASSUME NEW c \in Callers, Write(c) PROVE Shape'
  <2>1. CallShape'
    BY <1>4, ReturnShape, PcsOK DEF Write
  <2>2. /\ pending' \subseteq Callers /\ asked' \subseteq Callers /\ grant' \in [Callers -> Nat]
        /\ UNCHANGED <<accepting, stopped, health, reader, monitor, killer, child, wedged>>
        /\ UNCHANGED <<out, credit, sent, excused>>
    BY <1>4 DEF Write, Shape, tasks, extension, memory
  <2> QED
    BY <2>1, <2>2 DEF Shape, CallShape
<1>5. ASSUME NEW c \in Callers, Receive(c) PROVE Shape'
  <2>1. CallShape'
    BY <1>5, ReturnShape, PcsOK DEF Receive
  <2>2. /\ pending' \subseteq Callers /\ asked' \subseteq Callers /\ grant' \in [Callers -> Nat]
        /\ UNCHANGED <<accepting, stopped, health, reader, monitor, killer, child, wedged>>
        /\ UNCHANGED <<out, credit, sent, excused>>
    BY <1>5 DEF Receive, Shape, tasks, extension, memory
  <2> QED
    BY <2>1, <2>2 DEF Shape, CallShape
<1>6. ASSUME NEW c \in Callers, Deadline(c) \/ WriteCancel(c) PROVE Shape'
  BY <1>6 DEF Deadline, WriteCancel, Goto, Shape, process, tasks, extension, memory, CallerPcs
<1>7. ASSUME NEW c \in Callers, GraceAnswered(c) PROVE Shape'
  BY <1>7, <1>a DEF GraceAnswered, Return, Goto, Shape, tasks, extension, memory, CallerPcs
<1>8. ASSUME NEW c \in Callers, GraceOver(c) PROVE Shape'
  BY <1>8 DEF GraceOver, Goto, Shape, extension, memory, CallerPcs, KillPcs, Killers
<1>9. ASSUME NEW c \in Callers, Abandon(c) PROVE Shape'
  BY <1>9 DEF Abandon, Goto, Shape, process, extension, memory, CallerPcs, KillPcs, Killers
<1>10. ASSUME NEW c \in Callers, Take(c) PROVE Shape'
  <2>1. sink' \in [Callers -> [open : BOOLEAN, credit : Nat, next : Nat]]
    <3>1. sink[c].credit + 1 \in Nat /\ sink[c].next \in Nat
      BY DEF Shape
    <3>2. Sink(TRUE, sink[c].credit + 1, sink[c].next) \in [open : BOOLEAN, credit : Nat, next : Nat]
      BY <1>b, <3>1
    <3> QED
      BY <1>10, <3>2 DEF Take, Shape
  <2>2. pc' \in [Callers -> CallerPcs] /\ taken' \in [Callers -> Nat]
    BY <1>10 DEF Take, Goto, Shape, CallerPcs
  <2> QED
    BY <1>10, <2>1, <2>2 DEF Take, Shape, tasks, extension, memory
<1>11. ASSUME NEW c \in Callers, WriteCredit(c) PROVE Shape'
  <2>1. CallShape'
    BY <1>11, ReturnShape, PcsOK DEF WriteCredit
  <2>2. /\ pending' \subseteq Callers /\ asked' \subseteq Callers /\ grant' \in [Callers -> Nat]
        /\ UNCHANGED <<accepting, stopped, health, reader, monitor, killer, child, wedged>>
        /\ UNCHANGED <<out, credit, sent, excused>>
    BY <1>11 DEF WriteCredit, Shape, tasks, extension, memory
  <2> QED
    BY <2>1, <2>2 DEF Shape, CallShape
<1>12. ASSUME NEW c \in Callers, StreamEnds(c) PROVE Shape'
  BY <1>12, <1>a DEF StreamEnds, Return, Goto, Shape, tasks, extension, memory, CallerPcs
<1>13. ASSUME NEW c \in Callers, DropStream(c) PROVE Shape'
  BY <1>13, <1>a DEF DropStream, Return, Goto, Shape, tasks, extension, memory, CallerPcs
<1>14. ASSUME NEW c \in Callers, Respond(c) PROVE Shape'
  <2>1. Msg("response", c, 0) \in Messages
    BY DEF Msg, Messages, Killers
  <2> QED
    BY <1>14, <2>1 DEF Respond, Send, Shape, process, tasks, callers
<1>15. ASSUME NEW c \in Callers, SendFrame(c) PROVE Shape'
  <2>1. Msg("frame", c, sent[c]) \in Messages
    BY DEF Msg, Messages, Killers, Shape
  <2> QED
    <3>1. out' \in Seq(Messages) /\ Len(out') <= MaxPipe
      BY <1>15, <2>1 DEF SendFrame, Send, Shape
    <3>2. credit' \in [Callers -> Nat] /\ sent' \in [Callers -> 0..MaxFrames]
      BY <1>15 DEF SendFrame, Shape
    <3> QED
      BY <1>15, <3>1, <3>2 DEF SendFrame, Shape, process, tasks, callers
<1>16. ASSUME NEW c \in Callers, ReadCredit(c) PROVE Shape'
  <2>1. credit' \in [Callers -> Nat] /\ grant' \in [Callers -> Nat]
    BY <1>16 DEF ReadCredit, Shape
  <2> QED
    BY <1>16, <2>1 DEF ReadCredit, Shape, process, tasks, callers
<1>17. CASE Misbehave
  <2>1. Msg("junk", Drainer, 0) \in Messages
    BY DEF Msg, Messages, Killers
  <2> QED
    BY <1>17, <2>1 DEF Misbehave, Send, Shape, process, tasks, callers
<1>18. CASE StopReading
  BY <1>18 DEF StopReading, Shape, process, tasks, callers
<1>19. CASE Exit
  BY <1>19, <1>c DEF Exit, Shape, process, tasks, callers
<1>20. CASE ReadMessage
  <2>1. Head(out) \in Messages /\ Tail(out) \in Seq(Messages) /\ Len(Tail(out)) <= MaxPipe
    BY <1>20 DEF ReadMessage, Shape
  <2>2. CASE ~Acceptable(Head(out))
    BY <1>20, <2>1, <2>2 DEF ReadMessage, Shape, TaskPcs
  <2>3. CASE Acceptable(Head(out)) /\ Head(out).kind = "response"
    BY <1>20, <2>1, <2>3 DEF ReadMessage, Shape, Acceptable
  <2>4. CASE Acceptable(Head(out)) /\ Head(out).kind # "response"
    <3> DEFINE d == Head(out).id
    <3>1. sink[d].credit > 0 /\ d \in Callers
      <4>1. out # <<>> /\ Head(out) = out[1] /\ 1 \in 1..Len(out)
        BY <1>20 DEF ReadMessage, Shape
      <4> QED
        BY <2>4, <4>1 DEF Acceptable, PipeInv
    <3>2. sink[d].credit - 1 \in Nat /\ sink[d].next + 1 \in Nat /\ received[d] + 1 \in Nat
      BY <3>1 DEF Shape
    <3>3. Sink(TRUE, sink[d].credit - 1, sink[d].next + 1) \in [open : BOOLEAN, credit : Nat, next : Nat]
      BY <1>b, <3>2
    <3>4. /\ sink' = [sink EXCEPT ![d] = Sink(TRUE, sink[d].credit - 1, sink[d].next + 1)]
          /\ received' = [received EXCEPT ![d] = received[d] + 1]
      BY <1>20, <2>4 DEF ReadMessage
    <3>5. sink' \in [Callers -> [open : BOOLEAN, credit : Nat, next : Nat]]
      BY <3>3, <3>4 DEF Shape
    <3>6. received' \in [Callers -> Nat]
      BY <3>2, <3>4 DEF Shape
    <3> QED
      BY <1>20, <2>1, <2>4, <3>5, <3>6 DEF ReadMessage, Shape
  <2> QED
    BY <2>2, <2>3, <2>4
<1>21. CASE ReadEnd \/ MonitorEnds \/ HeartbeatMissed \/ BeginDrain
  <2>1. CASE BeginDrain
    BY <2>1 DEF BeginDrain, Shape, callers, extension, memory, tasks
  <2>2. CASE ReadEnd \/ MonitorEnds \/ HeartbeatMissed
    BY <2>2 DEF ReadEnd, MonitorEnds, HeartbeatMissed, Shape, process, callers, extension, memory, TaskPcs,
       TeardownSteps
  <2> QED
    BY <1>21, <2>1, <2>2
<1>22. CASE ReaderTeardown \/ MonitorTeardown
  <2>1. PICK at \in TaskPcs, next \in TeardownSteps :
           /\ Teardown(at, next)
           /\ (reader' = next /\ UNCHANGED monitor) \/ (monitor' = next /\ UNCHANGED reader)
           /\ UNCHANGED <<accepting, killer, pc, received, taken, out, excused>>
    BY <1>22 DEF ReaderTeardown, MonitorTeardown, Shape
  <2>2. reader' \in TaskPcs /\ monitor' \in TaskPcs
    BY <2>1 DEF TaskPcs, Shape
  <2>3. CASE at = "stop"
    BY <2>1, <2>2, <2>3 DEF Teardown, memory, Shape
  <2>4. CASE at = "release"
    BY <2>1, <2>2, <2>4, <1>d DEF Teardown, memory, Shape
  <2>5. CASE at = "child"
    BY <2>1, <2>2, <2>5, <1>c DEF Teardown, Shape
  <2> QED
    BY <2>1, <2>3, <2>4, <2>5 DEF Teardown
<1>23. CASE Shutdown \/ NotifyShutdown
  BY <1>23 DEF Shutdown, NotifyShutdown, Shape, process, callers, extension, memory, KillPcs, Killers
<1>24. ASSUME NEW k \in Killers, Kill(k) PROVE Shape'
  <2>1. killer' \in [Killers -> KillPcs]
    BY <1>24 DEF Kill, Shape, KillPcs
  <2>2. CASE killer[k] = "child"
    BY <1>24, <2>1, <2>2, <1>c DEF Kill, Shape
  <2>3. CASE killer[k] = "release"
    <3>1. pc' \in [Callers -> CallerPcs]
      BY <1>24, <2>3, PcsOK DEF Kill, Shape
    <3> QED
      BY <1>24, <2>1, <2>3, <3>1, <1>d DEF Kill, memory, Shape
  <2> QED
    BY <1>24, <2>2, <2>3 DEF Kill
<1>25. CASE UNCHANGED vars
  BY <1>25 DEF vars, Shape, process, tasks, callers, extension, memory
<1> QED
  BY <1>1, <1>2, <1>3, <1>4, <1>5, <1>6, <1>7, <1>8, <1>9, <1>10, <1>11, <1>12, <1>13, <1>14, <1>15, <1>16,
     <1>17, <1>18, <1>19, <1>20, <1>21, <1>22, <1>23, <1>24, <1>25
  DEF Next, HostStep, CallerStep, ReaderStep, ExtensionStep

-----------------------------------------------------------------------------
(* The pipe and the requests. *)

(* Where the messages of a longer pipe come from. *)
LEMMA AppendAt ==
    ASSUME NEW s \in Seq(Messages), NEW m \in Messages, NEW i \in 1..Len(Append(s, m))
    PROVE  \/ i \in 1..Len(s) /\ Append(s, m)[i] = s[i]
           \/ i = Len(s) + 1 /\ Append(s, m)[i] = m
  OBVIOUS

(* Where the messages of a shorter pipe come from. *)
LEMMA TailAt ==
    ASSUME NEW s \in Seq(Messages), s # <<>>, NEW i \in 1..Len(Tail(s))
    PROVE  i + 1 \in 1..Len(s) /\ Tail(s)[i] = s[i + 1]
  OBVIOUS

(* The host's steps do not write into the pipe. *)
LEMMA PipeSteps ==
    ASSUME [Next]_vars
    PROVE  \/ out' = out
           \/ out # <<>> /\ out' = Tail(out)
           \/ \E c \in Callers : Respond(c) \/ SendFrame(c)
           \/ Misbehave
  BY DEF Next, HostStep, CallerStep, ReaderStep, ExtensionStep, vars, extension, memory, OpenStream, Admit, Insert,
     Write, Receive, Deadline, WriteCancel, GraceAnswered, GraceOver, Abandon, Take, WriteCredit, StreamEnds,
     DropStream, ReadCredit, StopReading, Exit, ReadMessage, ReadEnd, ReaderTeardown, MonitorEnds,
     HeartbeatMissed, MonitorTeardown, BeginDrain, Shutdown, NotifyShutdown, Kill

(* Responses and frames belong to callers. *)
LEMMA PipeNext == Shape /\ PipeInv /\ [Next]_vars => PipeInv'
<1> SUFFICES ASSUME Shape, PipeInv, [Next]_vars, NEW i \in 1..Len(out'), out'[i].kind # "junk"
             PROVE  out'[i].id \in Callers /\ out'[i].seq < MaxFrames
  BY DEF PipeInv
<1>1. CASE out' = out
  BY <1>1 DEF PipeInv
<1>2. CASE out # <<>> /\ out' = Tail(out)
  BY <1>2, TailAt DEF PipeInv, Shape
<1>3. ASSUME NEW c \in Callers, Respond(c) PROVE out'[i].id \in Callers /\ out'[i].seq < MaxFrames
  <2> DEFINE m == Msg("response", c, 0)
  <2>1. m \in Messages /\ m.id = c /\ m.seq = 0 /\ 0 < MaxFrames
    BY ProcessAssumption DEF Msg, Messages, Killers
  <2>2. out' = Append(out, m)
    BY <1>3 DEF Respond, Send
  <2> HIDE DEF m
  <2> QED
    BY <2>1, <2>2, AppendAt DEF PipeInv, Shape
<1>4. ASSUME NEW c \in Callers, SendFrame(c) PROVE out'[i].id \in Callers /\ out'[i].seq < MaxFrames
  <2> DEFINE m == Msg("frame", c, sent[c])
  <2>1. m \in Messages /\ m.id = c /\ m.seq = sent[c] /\ sent[c] < MaxFrames
    BY <1>4 DEF SendFrame, Msg, Messages, Killers, Shape
  <2>2. out' = Append(out, m)
    BY <1>4 DEF SendFrame, Send
  <2> HIDE DEF m
  <2> QED
    BY <2>1, <2>2, AppendAt DEF PipeInv, Shape
<1>5. CASE Misbehave
  <2> DEFINE m == Msg("junk", Drainer, 0)
  <2>1. m \in Messages /\ m.kind = "junk"
    BY ProcessAssumption DEF Msg, Messages, Killers
  <2>2. out' = Append(out, m)
    BY <1>5 DEF Misbehave, Send
  <2> HIDE DEF m
  <2> QED
    BY <2>1, <2>2, AppendAt DEF PipeInv, Shape
<1> QED
  BY <1>1, <1>2, <1>3, <1>4, <1>5, PipeSteps

(* A step that neither asks for c, nor answers it, nor moves its call. *)
LEMMA TalkFrame ==
    ASSUME NEW c \in Callers, Talk(c), pc'[c] = pc[c], answer'[c] # "value" \/ answer'[c] = answer[c],
           c \in asked' => c \in asked,
           credit'[c] = credit[c] \/ credit'[c] = 0, grant'[c] = grant[c] \/ grant'[c] = 0,
           sent'[c] = sent[c] \/ sent'[c] = 0, received'[c] = received[c], taken'[c] = taken[c],
           \A i \in 1..Len(out') : out'[i].id = c => \E j \in 1..Len(out) : out[j].id = c
    PROVE  Talk(c)'
  BY DEF Talk, Fresh

(* A call that goes on to a point where nothing is asked of it. *)
LEMMA TalkMoves ==
    ASSUME NEW c \in Callers, Talk(c), pc'[c] \notin Early \cup Streaming, answer'[c] = answer[c] \/ answer'[c] = "none",
           asked' = asked, credit' = credit, grant' = grant, sent' = sent, out' = out,
           \/ received'[c] = received[c] /\ taken'[c] = taken[c]
           \/ received'[c] = 0 /\ taken'[c] = 0
    PROVE  Talk(c)'
  BY DEF Talk, Fresh, Early, Streaming

(* The call returns without anything on its way. *)
LEMMA ReturnPoint ==
    ASSUME Shape, NEW c \in Callers, NEW d \in Callers, Return(c)
    PROVE  /\ pc'[d] = IF d = c THEN "done" ELSE pc[d]
           /\ answer'[d] = IF d = c THEN "none" ELSE answer[d]
           /\ received'[d] = IF d = c THEN 0 ELSE received[d]
           /\ taken'[d] = IF d = c THEN 0 ELSE taken[d]
           /\ sink'[d] = IF d = c THEN NoSink ELSE sink[d]
  BY DEF Return, Goto, Shape

(* Requests are asked once and answered once. *)
LEMMA TalkNext == Shape /\ PipeInv /\ TalkInv /\ [Next]_vars => TalkInv'
<1> SUFFICES ASSUME Shape, PipeInv, TalkInv, [Next]_vars, NEW d \in Callers PROVE Talk(d)'
  BY DEF TalkInv
<1>a. Talk(d)
  BY DEF TalkInv
<1>b. "done" \notin Early \cup Streaming
  BY DEF Early, Streaming
<1>c. ASSUME NEW c \in Callers, Return(c), asked' = asked, credit' = credit, grant' = grant, sent' = sent, out' = out
      PROVE  Talk(d)'
  <2>1. CASE d = c
    BY <1>a, <1>b, <1>c, <2>1, ReturnPoint, TalkMoves
  <2>2. CASE d # c
    BY <1>a, <1>c, <2>2, ReturnPoint, TalkFrame
  <2> QED
    BY <2>1, <2>2
<1>d. ASSUME KillChild PROVE asked' = {} /\ credit'[d] = 0 /\ grant'[d] = 0 /\ sent'[d] = 0
  BY <1>d DEF KillChild, Zero
<1>e. ASSUME NEW h, Release(h) PROVE answer'[d] # "value" \/ answer'[d] = answer[d]
  BY <1>e DEF Release, ClearPending, Shape
<1>1. ASSUME NEW c \in Callers, OpenStream(c) PROVE Talk(d)'
  BY <1>1, <1>a DEF OpenStream, Goto, Shape, Talk, Fresh, Early, Streaming, extension, memory
<1>2. ASSUME NEW c \in Callers, Admit(c) PROVE Talk(d)'
  <2>1. CASE Return(c)
    BY <1>2, <2>1, <1>c DEF Admit, extension, memory
  <2>2. CASE Goto(c, "insert") /\ UNCHANGED ends
    BY <1>2, <2>2, <1>a DEF Admit, Goto, ends, Shape, Talk, Fresh, Early, Streaming, extension, memory
  <2> QED
    BY <1>2, <2>1, <2>2 DEF Admit
<1>3. ASSUME NEW c \in Callers, Insert(c) PROVE Talk(d)'
  <2>1. CASE Return(c)
    BY <1>3, <2>1, <1>c DEF Insert, extension, memory
  <2>2. CASE Goto(c, "write") /\ UNCHANGED ends
    BY <1>3, <2>2, <1>a DEF Insert, Goto, ends, Shape, Talk, Fresh, Early, Streaming, extension, memory
  <2> QED
    BY <1>3, <2>1, <2>2 DEF Insert
<1>4. ASSUME NEW c \in Callers, Write(c) PROVE Talk(d)'
  <2>1. CASE Return(c) /\ UNCHANGED asked
    BY <1>4, <2>1, <1>c DEF Write
  <2>2. CASE asked' = asked \cup {c} /\ Goto(c, "wait") /\ UNCHANGED ends
    <3>1. /\ pc'[d] = (IF d = c THEN "wait" ELSE pc[d]) /\ answer' = answer
          /\ UNCHANGED out /\ UNCHANGED credit /\ UNCHANGED grant /\ UNCHANGED sent
          /\ UNCHANGED received /\ UNCHANGED taken
      BY <1>4, <2>2 DEF Write, Goto, ends, Shape
    <3>2. CASE d = c
      <4>1. Fresh(c)
        BY <1>4, <1>a, <3>2 DEF Write, Talk, Early
      <4>2. answer[c] # "value"
        BY <1>4, <1>a, <3>2 DEF Write, Talk, Early
      <4> QED
        BY <2>2, <3>1, <3>2, <4>1, <4>2 DEF Talk, Fresh, Early, Streaming
    <3>3. CASE d # c
      BY <1>a, <2>2, <3>1, <3>3, TalkFrame
    <3> QED
      BY <3>2, <3>3
  <2> QED
    BY <1>4, <2>1, <2>2 DEF Write
<1>5. ASSUME NEW c \in Callers, Receive(c) PROVE Talk(d)'
  <2>1. CASE Return(c)
    BY <1>5, <2>1, <1>c DEF Receive, extension, memory
  <2>2. CASE answer[c] = "value" /\ c \in Streamers /\ Goto(c, "stream") /\ UNCHANGED ends
    BY <1>5, <2>2, <1>a DEF Receive, Goto, ends, Shape, Talk, Fresh, Early, Streaming, extension, memory
  <2> QED
    BY <1>5, <2>1, <2>2 DEF Receive
<1>6. ASSUME NEW c \in Callers, Deadline(c) \/ WriteCancel(c) \/ GraceOver(c) \/ Abandon(c) PROVE Talk(d)'
  <2>1. /\ pc'[d] = pc[d] \/ pc'[d] \notin Early \cup Streaming
        /\ UNCHANGED asked /\ UNCHANGED credit /\ UNCHANGED grant /\ UNCHANGED sent /\ UNCHANGED out
        /\ UNCHANGED answer /\ UNCHANGED received /\ UNCHANGED taken
    BY <1>6 DEF Deadline, WriteCancel, GraceOver, Abandon, Goto, Shape, Early, Streaming, extension, memory
  <2> QED
    BY <1>a, <2>1, TalkFrame, TalkMoves
<1>7. ASSUME NEW c \in Callers, GraceAnswered(c) \/ StreamEnds(c) \/ DropStream(c) PROVE Talk(d)'
  BY <1>7, <1>c DEF GraceAnswered, StreamEnds, DropStream, extension, memory
<1>8. ASSUME NEW c \in Callers, Take(c) PROVE Talk(d)'
  BY <1>8, <1>a DEF Take, Goto, Shape, Talk, Fresh, Early, Streaming, extension, memory
<1>9. ASSUME NEW c \in Callers, WriteCredit(c) PROVE Talk(d)'
  <2>1. /\ UNCHANGED asked /\ UNCHANGED credit /\ UNCHANGED sent /\ UNCHANGED out
        /\ grant'[d] = grant[d] \/ d = c
    BY <1>9 DEF WriteCredit, Shape
  <2>2. CASE Return(c)
    <3>1. CASE d = c
      <4>1. c \notin asked
        BY <1>9, <1>a, <3>1 DEF WriteCredit, Talk, Streaming
      <4> QED
        BY <1>b, <2>1, <2>2, <3>1, <4>1, ReturnPoint DEF Talk
    <3>2. CASE d # c
      BY <1>a, <2>1, <2>2, <3>2, ReturnPoint, TalkFrame
    <3> QED
      BY <3>1, <3>2
  <2>3. CASE Goto(c, "stream") /\ UNCHANGED ends
    <3>1. /\ pc'[d] = (IF d = c THEN "stream" ELSE pc[d])
          /\ UNCHANGED answer /\ UNCHANGED received /\ UNCHANGED taken
      BY <2>3 DEF Goto, ends, Shape
    <3>2. CASE d = c
      BY <1>9, <1>a, <2>1, <3>1, <3>2 DEF WriteCredit, Talk, Early, Streaming
    <3>3. CASE d # c
      BY <1>a, <2>1, <3>1, <3>3, TalkFrame
    <3> QED
      BY <3>2, <3>3
  <2> QED
    BY <1>9, <2>2, <2>3 DEF WriteCredit
<1>10. ASSUME NEW c \in Callers, Respond(c) PROVE Talk(d)'
  <2> DEFINE m == Msg("response", c, 0)
  <2>1. m \in Messages /\ m.id = c
    BY ProcessAssumption DEF Msg, Messages, Killers
  <2>2. out' = Append(out, m)
    BY <1>10 DEF Respond, Send
  <2>3. /\ asked' = asked \ {c} /\ c \in asked /\ (credit'[d] = credit[d] \/ d = c)
        /\ UNCHANGED pc /\ UNCHANGED answer /\ UNCHANGED received /\ UNCHANGED taken
        /\ UNCHANGED grant /\ UNCHANGED sent
    BY <1>10 DEF Respond, callers, Shape
  <2> HIDE DEF m
  <2>4. CASE d = c
    BY <1>a, <2>3, <2>4 DEF Talk
  <2>5. CASE d # c
    <3>1. \A i \in 1..Len(out') : out'[i].id = d => \E j \in 1..Len(out) : out[j].id = d
      BY <2>1, <2>2, <2>5, AppendAt DEF Shape
    <3> QED
      BY <1>a, <2>3, <2>5, <3>1, TalkFrame
  <2> QED
    BY <2>4, <2>5
<1>11. ASSUME NEW c \in Callers, SendFrame(c) PROVE Talk(d)'
  <2> DEFINE m == Msg("frame", c, sent[c])
  <2>1. m \in Messages /\ m.id = c
    BY <1>11 DEF SendFrame, Msg, Messages, Killers, Shape
  <2>2. out' = Append(out, m)
    BY <1>11 DEF SendFrame, Send
  <2>3. /\ UNCHANGED asked /\ credit[c] > 0 /\ ((credit'[d] = credit[d] /\ sent'[d] = sent[d]) \/ d = c)
        /\ UNCHANGED pc /\ UNCHANGED answer /\ UNCHANGED received /\ UNCHANGED taken /\ UNCHANGED grant
    BY <1>11 DEF SendFrame, callers, Shape
  <2> HIDE DEF m
  <2>4. CASE d = c
    <3>1. ~Fresh(c)
      BY <2>3 DEF Fresh
    <3> QED
      BY <1>a, <2>3, <2>4, <3>1 DEF Talk
  <2>5. CASE d # c
    <3>1. \A i \in 1..Len(out') : out'[i].id = d => \E j \in 1..Len(out) : out[j].id = d
      BY <2>1, <2>2, <2>5, AppendAt DEF Shape
    <3> QED
      BY <1>a, <2>3, <2>5, <3>1, TalkFrame
  <2> QED
    BY <2>4, <2>5
<1>12. ASSUME NEW c \in Callers, ReadCredit(c) PROVE Talk(d)'
  <2>1. /\ UNCHANGED asked /\ grant[c] > 0 /\ ((credit'[d] = credit[d] /\ grant'[d] = grant[d]) \/ d = c)
        /\ UNCHANGED pc /\ UNCHANGED answer /\ UNCHANGED received /\ UNCHANGED taken /\ UNCHANGED sent
        /\ UNCHANGED out
    BY <1>12 DEF ReadCredit, callers, Shape
  <2>2. CASE d = c
    <3>1. ~Fresh(c)
      BY <2>1 DEF Fresh
    <3> QED
      BY <1>a, <2>1, <2>2, <3>1 DEF Talk
  <2>3. CASE d # c
    BY <1>a, <2>1, <2>3, TalkFrame
  <2> QED
    BY <2>2, <2>3
<1>13. CASE Misbehave
  <2> DEFINE m == Msg("junk", Drainer, 0)
  <2>1. m \in Messages /\ m.id # d
    BY ProcessAssumption DEF Msg, Messages, Killers, Drainer
  <2>2. out' = Append(out, m)
    BY <1>13 DEF Misbehave, Send
  <2>3. /\ UNCHANGED asked /\ UNCHANGED pc /\ UNCHANGED answer /\ UNCHANGED received /\ UNCHANGED taken
        /\ UNCHANGED sent /\ UNCHANGED credit /\ UNCHANGED grant
    BY <1>13 DEF Misbehave, callers
  <2> HIDE DEF m
  <2>4. \A i \in 1..Len(out') : out'[i].id = d => \E j \in 1..Len(out) : out[j].id = d
    BY <2>1, <2>2, AppendAt DEF Shape
  <2> QED
    BY <1>a, <2>3, <2>4, TalkFrame
<1>14. CASE ReadMessage
  <2> DEFINE m == Head(out)
  <2>1. out # <<>> /\ m = out[1] /\ 1 \in 1..Len(out) /\ out' = Tail(out)
    BY <1>14 DEF ReadMessage, Shape
  <2>2. \A i \in 1..Len(out') : out'[i].id = d => \E j \in 1..Len(out) : out[j].id = d
    BY <2>1, TailAt DEF Shape
  <2>3. /\ UNCHANGED pc /\ UNCHANGED taken /\ UNCHANGED asked /\ UNCHANGED credit /\ UNCHANGED grant
        /\ UNCHANGED sent
        /\ d # m.id => answer'[d] = answer[d] /\ received'[d] = received[d]
    BY <1>14 DEF ReadMessage, Shape
  <2> HIDE DEF m
  <2>4. CASE d = m.id
    <3>1. ~Fresh(d)
      BY <2>1, <2>4 DEF Fresh
    <3> QED
      BY <1>a, <2>3, <2>4, <3>1 DEF Talk
  <2>5. CASE d # m.id
    BY <1>a, <2>2, <2>3, <2>5, TalkFrame
  <2> QED
    BY <2>4, <2>5
<1>15. CASE ReadEnd \/ MonitorEnds \/ HeartbeatMissed \/ BeginDrain \/ StopReading \/ Shutdown \/ NotifyShutdown
            \/ UNCHANGED vars
  <2>1. /\ UNCHANGED pc /\ UNCHANGED taken /\ UNCHANGED asked /\ UNCHANGED credit /\ UNCHANGED grant
        /\ UNCHANGED sent /\ UNCHANGED received /\ UNCHANGED answer /\ UNCHANGED out
    BY <1>15 DEF ReadEnd, MonitorEnds, HeartbeatMissed, BeginDrain, StopReading, Shutdown, NotifyShutdown, vars,
       callers, extension, memory
  <2> QED
    BY <1>a, <2>1, TalkFrame
<1>16. CASE Exit
  <2>1. /\ UNCHANGED pc /\ UNCHANGED taken /\ UNCHANGED received /\ UNCHANGED answer /\ UNCHANGED out
    BY <1>16 DEF Exit, callers
  <2>2. KillChild
    BY <1>16 DEF Exit
  <2> QED
    BY <1>a, <1>d, <2>1, <2>2, TalkFrame
<1>17. CASE ReaderTeardown \/ MonitorTeardown
  <2>1. PICK at \in TaskPcs, next \in TeardownSteps : Teardown(at, next)
    BY <1>17 DEF ReaderTeardown, MonitorTeardown, Shape
  <2>2. /\ UNCHANGED pc /\ UNCHANGED taken /\ UNCHANGED received /\ UNCHANGED out
    BY <1>17 DEF ReaderTeardown, MonitorTeardown
  <2>3. answer'[d] # "value" \/ answer'[d] = answer[d]
    BY <2>1, <1>e DEF Teardown
  <2>4. (asked' = {} /\ credit'[d] = 0 /\ grant'[d] = 0 /\ sent'[d] = 0) \/ UNCHANGED memory
    BY <2>1, <1>d DEF Teardown
  <2>5. (asked' = {} /\ credit'[d] = 0 /\ grant'[d] = 0 /\ sent'[d] = 0)
           \/ (asked' = asked /\ credit'[d] = credit[d] /\ grant'[d] = grant[d] /\ sent'[d] = sent[d])
    BY <2>4 DEF memory
  <2> QED
    BY <1>a, <2>2, <2>3, <2>5, TalkFrame
<1>18. ASSUME NEW k \in Killers, Kill(k) PROVE Talk(d)'
  <2>1. /\ UNCHANGED taken /\ UNCHANGED received /\ UNCHANGED out
    BY <1>18 DEF Kill
  <2>2. CASE killer[k] = "child"
    <3>1. KillChild /\ UNCHANGED answer /\ UNCHANGED pc
      BY <1>18, <2>2 DEF Kill
    <3> QED
      BY <1>a, <1>d, <2>1, <3>1, TalkFrame
  <2>3. CASE killer[k] = "release"
    <3>1. /\ UNCHANGED asked /\ UNCHANGED credit /\ UNCHANGED grant /\ UNCHANGED sent
          /\ answer'[d] # "value" \/ answer'[d] = answer[d]
          /\ pc'[d] = pc[d] \/ pc'[d] = "done"
      BY <1>18, <2>3, <1>e DEF Kill, memory, Shape
    <3>2. CASE pc'[d] = pc[d]
      BY <1>a, <2>1, <3>1, <3>2, TalkFrame
    <3>3. CASE pc'[d] = "done"
      BY <1>a, <1>b, <2>1, <3>1, <3>3 DEF Talk, Fresh
    <3> QED
      BY <3>1, <3>2, <3>3
  <2> QED
    BY <1>18, <2>2, <2>3 DEF Kill
<1> QED
  BY <1>1, <1>2, <1>3, <1>4, <1>5, <1>6, <1>7, <1>8, <1>9, <1>10, <1>11, <1>12, <1>13, <1>14, <1>15, <1>16,
     <1>17, <1>18
  DEF Next, HostStep, CallerStep, ReaderStep, ExtensionStep

-----------------------------------------------------------------------------
(* Giving up, and the negotiated concurrency. *)

(* The steps that do not give the generation up and are no part of a teardown. *)
LEMMA TaskSteps ==
    ASSUME [Next]_vars
    PROVE  \/ UNCHANGED <<reader, monitor, killer, stopped>>
           \/ \E c \in Callers : GraceOver(c) \/ Abandon(c)
           \/ ReadMessage \/ ReadEnd \/ ReaderTeardown \/ MonitorEnds \/ HeartbeatMissed \/ MonitorTeardown
           \/ Shutdown \/ NotifyShutdown
           \/ \E k \in Killers : Kill(k)
  BY DEF Next, HostStep, CallerStep, ReaderStep, ExtensionStep, vars, process, tasks, OpenStream, Admit, Insert,
     Write, Receive, Deadline, WriteCancel, GraceAnswered, Take, WriteCredit, StreamEnds,
     DropStream, Respond, SendFrame, ReadCredit, Misbehave, StopReading, Exit, BeginDrain

(* A task that tears the generation down has marked it stopped. *)
LEMMA GiveNext == Shape /\ GiveInv /\ [Next]_vars => GiveInv' /\ (stopped => stopped')
<1> SUFFICES ASSUME Shape, GiveInv, [Next]_vars PROVE GiveInv' /\ (stopped => stopped')
  OBVIOUS
<1>1. CASE UNCHANGED <<reader, monitor, killer, stopped>>
  BY <1>1 DEF GiveInv
<1>2. ASSUME NEW c \in Callers, GraceOver(c) \/ Abandon(c) PROVE GiveInv' /\ (stopped => stopped')
  <2>1. /\ reader' = reader /\ monitor' = monitor /\ stopped' = stopped
        /\ \A k \in Killers : killer'[k] = killer[k] \/ killer'[k] \in {"child", "idle"}
    BY <1>2 DEF GraceOver, Abandon, process, Shape
  <2> QED
    BY <2>1 DEF GiveInv
<1>3. CASE ReadMessage \/ ReadEnd \/ HeartbeatMissed
  <2>1. /\ reader' = reader \/ reader' = "stop"
        /\ monitor' = monitor \/ monitor' = "stop"
        /\ stopped' = stopped /\ killer' = killer
    BY <1>3 DEF ReadMessage, ReadEnd, HeartbeatMissed, process
  <2> QED
    BY <2>1 DEF GiveInv, TeardownSteps
<1>4. CASE MonitorEnds
  BY <1>4 DEF MonitorEnds, process, GiveInv
<1>5. CASE ReaderTeardown \/ MonitorTeardown
  <2>1. stopped' /\ killer' = killer
    BY <1>5 DEF ReaderTeardown, MonitorTeardown, Teardown, GiveInv, TeardownSteps
  <2> QED
    BY <2>1 DEF GiveInv
<1>6. CASE Shutdown
  BY <1>6 DEF Shutdown, GiveInv
<1>7. CASE NotifyShutdown
  <2>1. /\ reader' = reader /\ monitor' = monitor /\ stopped' = stopped
        /\ \A k \in Killers : killer'[k] = killer[k] \/ killer'[k] = "child"
    BY <1>7 DEF NotifyShutdown, process, Shape
  <2> QED
    BY <2>1 DEF GiveInv
<1>8. ASSUME NEW k \in Killers, Kill(k) PROVE GiveInv' /\ (stopped => stopped')
  <2>1. stopped'
    BY <1>8 DEF Kill, GiveInv
  <2> QED
    BY <2>1 DEF GiveInv
<1> QED
  BY <1>1, <1>2, <1>3, <1>4, <1>5, <1>6, <1>7, <1>8, TaskSteps

(* A generation that is given up stays given up. *)
LEMMA GivenUpStays == Shape /\ GiveInv /\ GivenUp /\ [Next]_vars => GivenUp'
<1> SUFFICES ASSUME Shape, GiveInv, GivenUp, [Next]_vars PROVE GivenUp'
  OBVIOUS
<1>1. CASE stopped
  BY <1>1, GiveNext DEF GivenUp
<1>2. ASSUME NEW q \in Killers, killer[q] = "child", ~stopped PROVE GivenUp'
  <2>1. CASE UNCHANGED <<reader, monitor, killer, stopped>>
    BY <1>2, <2>1 DEF GivenUp
  <2>2. ASSUME NEW c \in Callers, GraceOver(c) \/ Abandon(c) PROVE killer'[q] = "child"
    BY <1>2, <2>2 DEF GraceOver, Abandon, Shape
  <2>3. CASE ReadMessage \/ ReadEnd \/ HeartbeatMissed \/ MonitorEnds \/ ReaderTeardown \/ MonitorTeardown
    BY <1>2, <2>3 DEF ReadMessage, ReadEnd, HeartbeatMissed, MonitorEnds, ReaderTeardown, MonitorTeardown, GivenUp
  <2>4. CASE Shutdown \/ \E k \in Killers : Kill(k)
    <3>1. stopped'
      BY <2>4 DEF Shutdown, Kill, GiveInv
    <3> QED
      BY <3>1 DEF GivenUp
  <2>5. CASE NotifyShutdown
    BY <1>2, <2>5 DEF NotifyShutdown, Shape, GivenUp, Killers
  <2> QED
    BY <2>1, <2>2, <2>3, <2>4, <2>5, TaskSteps DEF GivenUp
<1> QED
  BY <1>1, <1>2 DEF GivenUp

(* The map's entries can be counted. *)
LEMMA PendingFinite ==
    ASSUME NEW S \in SUBSET Callers
    PROVE  IsFiniteSet(S) /\ Cardinality(S) \in Nat
  BY ProcessAssumption, FS_Subset, FS_CardinalityType

(* The map does not grow and the child is asked nothing new. *)
LEMMA ConcFrame ==
    ASSUME Shape, ConcInv, ~GivenUp, ~GivenUp',
           asked' \subseteq pending', pending' \subseteq pending,
           \A c \in Callers : pc'[c] = "write" => c \in pending'
    PROVE  ConcInv'
<1>1. Cardinality(pending') <= Cardinality(pending) /\ Cardinality(pending') \in Nat /\ Cardinality(pending) \in Nat
  <2>1. pending \in SUBSET Callers /\ pending' \in SUBSET pending /\ pending' \in SUBSET Callers
    BY DEF Shape
  <2> QED
    BY <2>1, PendingFinite, FS_Subset
<1> QED
  BY <1>1, ProcessAssumption DEF ConcInv

(* What the child holds has its entry, and the entries are bounded. *)
LEMMA ConcNext == Shape /\ PipeInv /\ TalkInv /\ GiveInv /\ ConcInv /\ [Next]_vars => ConcInv'
<1> SUFFICES ASSUME Shape, PipeInv, TalkInv, GiveInv, ConcInv, [Next]_vars, ~GivenUp' PROVE ConcInv'
  BY DEF ConcInv
<1>a. ~GivenUp /\ ~stopped /\ ~stopped'
  BY GivenUpStays DEF GivenUp
<1>b. /\ asked \subseteq pending /\ Cardinality(pending) <= MaxRequests
      /\ \A c \in Callers : pc[c] = "write" => c \in pending
  BY <1>a DEF ConcInv
<1>c. ASSUME UNCHANGED pending, UNCHANGED asked \/ asked' = {},
             \A c \in Callers : pc'[c] = pc[c] \/ pc'[c] # "write"
      PROVE  ConcInv'
  BY <1>a, <1>b, <1>c, ConcFrame
<1>1. ASSUME NEW c \in Callers,
             OpenStream(c) \/ Admit(c) \/ Receive(c) \/ Deadline(c) \/ WriteCancel(c) \/ GraceAnswered(c)
                \/ Take(c) \/ WriteCredit(c) \/ StreamEnds(c) \/ Abandon(c) \/ DropStream(c)
      PROVE  ConcInv'
  <2>1. UNCHANGED pending /\ UNCHANGED asked
    BY <1>1 DEF OpenStream, Admit, Receive, Deadline, WriteCancel, GraceAnswered, Take, WriteCredit, StreamEnds,
       Abandon, DropStream, process, extension, memory
  <2>2. \A d \in Callers : pc'[d] = pc[d] \/ pc'[d] # "write"
    BY <1>1 DEF OpenStream, Admit, Receive, Deadline, WriteCancel, GraceAnswered, Take, WriteCredit, StreamEnds,
       Abandon, DropStream, Return, Goto, Shape, ends
  <2> QED
    BY <1>c, <2>1, <2>2
<1>2. ASSUME NEW c \in Callers, Insert(c) PROVE ConcInv'
  <2>1. CASE Cardinality(pending) >= MaxRequests
    <3>1. UNCHANGED pending /\ UNCHANGED asked /\ Return(c)
      BY <1>2, <2>1 DEF Insert, extension, memory
    <3>2. \A d \in Callers : pc'[d] = pc[d] \/ pc'[d] # "write"
      BY <3>1 DEF Return, Goto, Shape
    <3> QED
      BY <1>c, <3>1, <3>2
  <2>2. CASE ~(Cardinality(pending) >= MaxRequests)
    <3>1. /\ pending' = pending \cup {c} /\ UNCHANGED asked
          /\ \A d \in Callers : pc'[d] = "write" => (pc[d] = "write" \/ d = c)
      BY <1>2, <2>2 DEF Insert, Goto, Shape, extension, memory
    <3>2. Cardinality(pending') <= MaxRequests
      <4>1. pending \in SUBSET Callers
        BY DEF Shape
      <4>2. IsFiniteSet(pending) /\ Cardinality(pending) \in Nat
        BY <4>1, PendingFinite
      <4>3. Cardinality(pending \cup {c}) <= Cardinality(pending) + 1
        BY <4>2, FS_AddElement
      <4>4. Cardinality(pending \cup {c}) \in Nat
        BY <4>2, FS_AddElement, FS_CardinalityType
      <4> QED
        BY <2>2, <3>1, <4>2, <4>3, <4>4, ProcessAssumption
    <3> QED
      BY <1>b, <3>1, <3>2 DEF ConcInv
  <2> QED
    BY <2>1, <2>2
<1>3. ASSUME NEW c \in Callers, Write(c) PROVE ConcInv'
  <2>1. CASE pending' = pending \ {c} /\ UNCHANGED asked /\ Return(c)
    <3>1. c \notin asked
      BY <1>3 DEF Write, TalkInv, Talk, Early
    <3>2. \A d \in Callers : pc'[d] = "write" => pc[d] = "write" /\ d # c
      BY <2>1 DEF Return, Goto, Shape
    <3> QED
      BY <1>a, <1>b, <2>1, <3>1, <3>2, ConcFrame
  <2>2. CASE asked' = asked \cup {c} /\ Goto(c, "wait") /\ UNCHANGED pending
    <3>1. c \in pending
      BY <1>3, <1>b DEF Write
    <3>2. \A d \in Callers : pc'[d] = "write" => pc[d] = "write"
      BY <2>2 DEF Goto, Shape
    <3> QED
      BY <1>a, <1>b, <2>2, <3>1, <3>2, ConcFrame
  <2> QED
    BY <1>3, <2>1, <2>2 DEF Write
<1>4. ASSUME NEW c \in Callers, GraceOver(c) PROVE ConcInv'
  <2>1. killer'[c] = "child" /\ c \in Killers
    BY <1>4 DEF GraceOver, Shape, Killers
  <2> QED
    BY <2>1 DEF GivenUp
<1>5. ASSUME NEW c \in Callers, Respond(c) PROVE ConcInv'
  BY <1>5, <1>a, <1>b, ConcFrame DEF Respond, process, callers
<1>6. CASE ReadMessage
  <2> DEFINE m == Head(out)
  <2>1. out # <<>> /\ m = out[1] /\ 1 \in 1..Len(out) /\ UNCHANGED asked /\ UNCHANGED pc
    BY <1>6 DEF ReadMessage, Shape
  <2>2. UNCHANGED pending \/ (pending' = pending \ {m.id} /\ m.kind = "response")
    BY <1>6 DEF ReadMessage
  <2> HIDE DEF m
  <2>3. CASE UNCHANGED pending
    BY <1>c, <2>1, <2>3
  <2>4. CASE pending' = pending \ {m.id} /\ m.kind = "response"
    <3>1. m.id \in Callers
      BY <2>1, <2>4 DEF PipeInv
    <3>2. ~Fresh(m.id)
      BY <2>1 DEF Fresh
    <3>3. m.id \notin asked /\ pc[m.id] # "write"
      BY <3>1, <3>2 DEF TalkInv, Talk, Early
    <3> QED
      BY <1>a, <1>b, <2>1, <2>4, <3>3, ConcFrame
  <2> QED
    BY <2>2, <2>3, <2>4
<1>7. CASE \/ \E c \in Callers : SendFrame(c) \/ ReadCredit(c)
           \/ Misbehave \/ StopReading \/ ReadEnd \/ MonitorEnds \/ HeartbeatMissed \/ BeginDrain
           \/ NotifyShutdown \/ Exit \/ UNCHANGED vars
  <2>1. UNCHANGED pending /\ UNCHANGED pc /\ (UNCHANGED asked \/ asked' = {})
    BY <1>7 DEF SendFrame, ReadCredit, Misbehave, StopReading, ReadEnd, MonitorEnds, HeartbeatMissed, BeginDrain,
       NotifyShutdown, Exit, KillChild, vars, process, callers, extension, memory
  <2> QED
    BY <1>c, <2>1
<1>8. CASE ReaderTeardown \/ MonitorTeardown \/ Shutdown \/ \E k \in Killers : Kill(k)
  <2>1. stopped'
    BY <1>8 DEF ReaderTeardown, MonitorTeardown, Teardown, Shutdown, Kill, GiveInv, TeardownSteps
  <2> QED
    BY <1>a, <2>1
<1> QED
  BY <1>1, <1>2, <1>3, <1>4, <1>5, <1>6, <1>7, <1>8
  DEF Next, HostStep, CallerStep, ReaderStep, ExtensionStep

-----------------------------------------------------------------------------
(* Credit. *)

(* The quantities of the account are numbers. *)
LEMMA Amounts ==
    ASSUME Shape, NEW c \in Callers
    PROVE  /\ credit[c] \in Nat /\ grant[c] \in Nat /\ received[c] \in Nat /\ taken[c] \in Nat
           /\ InFlight(c) \in Nat /\ Owed(c) \in Nat
<1>1. InFlight(c) \in Nat
  BY FramesFinite DEF InFlight, Shape
<1> QED
  BY <1>1 DEF Shape, Owed

(* A step that promises the child nothing more and takes nothing out of the channel. *)
LEMMA AccountFrame ==
    ASSUME Shape, Shape', NEW c \in Callers, Account(c),
           credit'[c] <= credit[c], grant'[c] <= grant[c], InFlight(c)' <= InFlight(c),
           pc'[c] = "credit" => pc[c] = "credit",
           \/ received'[c] = received[c] /\ taken'[c] = taken[c]
           \/ received'[c] = 0 /\ taken'[c] = 0
    PROVE  Account(c)'
<1>1. /\ credit[c] \in Nat /\ grant[c] \in Nat /\ received[c] \in Nat /\ taken[c] \in Nat
      /\ InFlight(c) \in Nat /\ Owed(c) \in Nat
  BY Amounts
<1>2. /\ credit'[c] \in Nat /\ grant'[c] \in Nat /\ received'[c] \in Nat /\ taken'[c] \in Nat
      /\ InFlight(c)' \in Nat /\ Owed(c)' \in Nat
  <2>1. InFlight(c)' \in Nat
    BY FramesFinite DEF InFlight, Shape
  <2> QED
    BY <2>1 DEF Shape, Owed
<1>3. Owed(c)' <= Owed(c)
  BY DEF Owed
<1> QED
  BY <1>1, <1>2, <1>3, ProcessAssumption DEF Account

(* A call whose answer has not come has nothing in the account. *)
LEMMA FreshAccount ==
    ASSUME Shape, NEW c \in Callers, Fresh(c)
    PROVE  FramesIn(out, c) = {} /\ InFlight(c) = 0
<1>1. FramesIn(out, c) = {}
  BY DEF Fresh, FramesIn
<1> QED
  BY <1>1, FS_EmptySet DEF InFlight

(* The credit the child has, is being given or has used is covered by the window. *)
LEMMA AccountNext == Shape /\ Shape' /\ PipeInv /\ TalkInv /\ AccountInv /\ SinkInv /\ [Next]_vars => AccountInv'
<1> SUFFICES ASSUME Shape, Shape', PipeInv, TalkInv, AccountInv, SinkInv, [Next]_vars, NEW d \in Callers
             PROVE  Account(d)'
  BY DEF AccountInv
<1>a. Account(d) /\ Talk(d)
  BY DEF AccountInv, TalkInv
<1>b. /\ credit[d] \in Nat /\ grant[d] \in Nat /\ received[d] \in Nat /\ taken[d] \in Nat
      /\ InFlight(d) \in Nat /\ Owed(d) \in Nat /\ Window \in Nat
  BY Amounts, ProcessAssumption
<1>c. ASSUME out' = out PROVE InFlight(d)' = InFlight(d)
  BY <1>c DEF InFlight
<1>d. ASSUME NEW c \in Callers, Return(c), credit' = credit, grant' = grant, out' = out PROVE Account(d)'
  <2>1. /\ pc'[d] = "credit" => pc[d] = "credit"
        /\ \/ received'[d] = received[d] /\ taken'[d] = taken[d]
           \/ received'[d] = 0 /\ taken'[d] = 0
    BY <1>d, ReturnPoint
  <2> QED
    BY <1>a, <1>b, <1>c, <1>d, <2>1, AccountFrame
<1>e. ASSUME credit' = credit, grant' = grant, out' = out, received' = received, taken' = taken,
             pc'[d] = "credit" => pc[d] = "credit"
      PROVE  Account(d)'
  BY <1>a, <1>b, <1>c, <1>e, AccountFrame
<1>f. ASSUME KillChild, out' = out, received' = received, taken' = taken, pc'[d] = "credit" => pc[d] = "credit"
      PROVE  Account(d)'
  <2>1. credit'[d] = 0 /\ grant'[d] = 0
    BY <1>f DEF KillChild, Zero
  <2> QED
    BY <1>a, <1>b, <1>c, <1>f, <2>1, AccountFrame
<1>1. ASSUME NEW c \in Callers, OpenStream(c) \/ Deadline(c) \/ WriteCancel(c) \/ GraceOver(c) \/ Abandon(c)
      PROVE  Account(d)'
  <2>1. /\ credit' = credit /\ grant' = grant /\ out' = out /\ received' = received /\ taken' = taken
        /\ pc'[d] = "credit" => pc[d] = "credit"
    BY <1>1 DEF OpenStream, Deadline, WriteCancel, GraceOver, Abandon, Goto, Shape, process, extension, memory
  <2> QED
    BY <1>e, <2>1
<1>2. ASSUME NEW c \in Callers, Admit(c) \/ Insert(c) \/ Write(c) \/ Receive(c) \/ GraceAnswered(c)
                \/ StreamEnds(c) \/ DropStream(c)
      PROVE  Account(d)'
  <2>1. credit' = credit /\ grant' = grant /\ out' = out
    BY <1>2 DEF Admit, Insert, Write, Receive, GraceAnswered, StreamEnds, DropStream, extension, memory
  <2>2. Return(c) \/ (UNCHANGED ends /\ \E p \in {"insert", "write", "wait", "stream"} : Goto(c, p))
    BY <1>2 DEF Admit, Insert, Write, Receive, GraceAnswered, StreamEnds, DropStream
  <2>3. CASE UNCHANGED ends /\ \E p \in {"insert", "write", "wait", "stream"} : Goto(c, p)
    <3>1. received' = received /\ taken' = taken /\ (pc'[d] = "credit" => pc[d] = "credit")
      BY <2>3 DEF ends, Goto, Shape
    <3> QED
      BY <1>e, <2>1, <3>1
  <2> QED
    BY <1>d, <2>1, <2>2, <2>3
<1>3. ASSUME NEW c \in Callers, Take(c) PROVE Account(d)'
  <2>1. /\ credit' = credit /\ grant' = grant /\ out' = out /\ received' = received
        /\ d # c => taken'[d] = taken[d] /\ pc'[d] = pc[d]
        /\ d = c => taken'[d] = taken[d] + 1 /\ pc'[d] = "credit" /\ pc[d] = "stream" /\ taken[d] < received[d]
    BY <1>3 DEF Take, Goto, Shape, extension, memory
  <2>2. CASE d = c
    <3>1. Owed(d) = 0 /\ Owed(d)' = 1
      BY <2>1, <2>2 DEF Owed
    <3> QED
      BY <1>a, <1>b, <1>c, <2>1, <2>2, <3>1 DEF Account
  <2>3. CASE d # c
    BY <1>a, <1>b, <1>c, <2>1, <2>3, AccountFrame
  <2> QED
    BY <2>2, <2>3
<1>4. ASSUME NEW c \in Callers, WriteCredit(c) PROVE Account(d)'
  <2>1. /\ credit' = credit /\ out' = out /\ pc[c] = "credit"
        /\ d # c => grant'[d] = grant[d]
        /\ d = c => grant'[d] \in {grant[d], grant[d] + 1}
    BY <1>4 DEF WriteCredit, Shape
  <2>2. /\ d = c => pc'[d] # "credit"
        /\ d # c => pc'[d] = pc[d]
        /\ \/ received'[d] = received[d] /\ taken'[d] = taken[d]
           \/ received'[d] = 0 /\ taken'[d] = 0
    <3>1. CASE Return(c)
      BY <3>1, ReturnPoint
    <3>2. CASE Goto(c, "stream") /\ UNCHANGED ends
      BY <3>2 DEF Goto, ends, Shape
    <3> QED
      BY <1>4, <3>1, <3>2 DEF WriteCredit
  <2>3. CASE d = c
    <3>1. Owed(d) = 1 /\ Owed(d)' = 0
      BY <2>1, <2>2, <2>3 DEF Owed
    <3>2. /\ taken[d] <= received[d]
          /\ credit[d] + grant[d] + InFlight(d) + received[d] + 1 <= Window + taken[d]
      BY <1>a, <3>1 DEF Account
    <3>3. InFlight(d)' = InFlight(d)
      BY <1>c, <2>1
    <3> QED
      BY <1>b, <2>1, <2>2, <2>3, <3>1, <3>2, <3>3 DEF Account
  <2>4. CASE d # c
    BY <1>a, <1>b, <1>c, <2>1, <2>2, <2>4, AccountFrame
  <2> QED
    BY <2>3, <2>4
<1>5. ASSUME NEW c \in Callers, Respond(c) PROVE Account(d)'
  <2> DEFINE m == Msg("response", c, 0)
  <2>1. m \in Messages /\ m.kind # "frame"
    BY ProcessAssumption DEF Msg, Messages, Killers
  <2>2. out' = Append(out, m)
    BY <1>5 DEF Respond, Send
  <2>3. /\ c \in asked /\ pc' = pc /\ received' = received /\ taken' = taken /\ grant' = grant
        /\ d # c => credit'[d] = credit[d]
        /\ d = c => credit'[d] \in {0, Window}
    BY <1>5 DEF Respond, callers, Shape
  <2> HIDE DEF m
  <2>4. InFlight(d)' = InFlight(d)
    BY <2>1, <2>2, FramesAppend DEF InFlight, Shape
  <2>5. CASE d = c
    <3>1. Fresh(d) /\ pc[d] # "credit"
      BY <1>a, <2>3, <2>5 DEF Talk, Streaming
    <3>2. InFlight(d) = 0 /\ grant[d] = 0 /\ received[d] = 0 /\ taken[d] = 0
      BY <3>1, FreshAccount DEF Fresh
    <3>3. Owed(d)' = 0
      BY <2>3, <3>1 DEF Owed
    <3> QED
      BY <1>b, <2>3, <2>4, <2>5, <3>2, <3>3 DEF Account
  <2>6. CASE d # c
    BY <1>a, <1>b, <2>3, <2>4, <2>6, AccountFrame
  <2> QED
    BY <2>5, <2>6
<1>6. ASSUME NEW c \in Callers, SendFrame(c) PROVE Account(d)'
  <2> DEFINE m == Msg("frame", c, sent[c])
  <2>1. m \in Messages /\ m.kind = "frame" /\ m.id = c
    BY <1>6 DEF SendFrame, Msg, Messages, Killers, Shape
  <2>2. out' = Append(out, m)
    BY <1>6 DEF SendFrame, Send
  <2>3. /\ pc' = pc /\ received' = received /\ taken' = taken /\ grant' = grant
        /\ d # c => credit'[d] = credit[d]
        /\ d = c => credit'[d] = credit[d] - 1
    BY <1>6 DEF SendFrame, callers, Shape
  <2> HIDE DEF m
  <2>4. CASE d = c
    <3>1. InFlight(d)' = InFlight(d) + 1
      BY <2>1, <2>2, <2>4, FramesAppend DEF InFlight, Shape
    <3>2. Owed(d)' = Owed(d)
      BY <2>3 DEF Owed
    <3> QED
      BY <1>a, <1>b, <2>3, <2>4, <3>1, <3>2 DEF Account
  <2>5. CASE d # c
    <3>1. InFlight(d)' = InFlight(d)
      BY <2>1, <2>2, <2>5, FramesAppend DEF InFlight, Shape
    <3> QED
      BY <1>a, <1>b, <2>3, <2>5, <3>1, AccountFrame
  <2> QED
    BY <2>4, <2>5
<1>7. ASSUME NEW c \in Callers, ReadCredit(c) PROVE Account(d)'
  <2>1. /\ pc' = pc /\ received' = received /\ taken' = taken /\ out' = out
        /\ d # c => credit'[d] = credit[d] /\ grant'[d] = grant[d]
        /\ d = c => credit'[d] = credit[d] + 1 /\ grant'[d] = grant[d] - 1
    BY <1>7 DEF ReadCredit, callers, Shape
  <2>2. CASE d = c
    <3>1. Owed(d)' = Owed(d)
      BY <2>1 DEF Owed
    <3> QED
      BY <1>a, <1>b, <1>c, <2>1, <2>2, <3>1 DEF Account
  <2>3. CASE d # c
    BY <1>a, <1>b, <1>c, <2>1, <2>3, AccountFrame
  <2> QED
    BY <2>2, <2>3
<1>8. CASE Misbehave
  <2> DEFINE m == Msg("junk", Drainer, 0)
  <2>1. m \in Messages /\ m.kind # "frame"
    BY ProcessAssumption DEF Msg, Messages, Killers
  <2>2. out' = Append(out, m)
    BY <1>8 DEF Misbehave, Send
  <2>3. /\ pc' = pc /\ received' = received /\ taken' = taken /\ credit' = credit /\ grant' = grant
    BY <1>8 DEF Misbehave, callers
  <2> HIDE DEF m
  <2>4. InFlight(d)' = InFlight(d)
    BY <2>1, <2>2, FramesAppend DEF InFlight, Shape
  <2> QED
    BY <1>a, <1>b, <2>3, <2>4, AccountFrame
<1>9. CASE ReadMessage
  <2> DEFINE m == Head(out)
             n == IF m.kind = "frame" /\ m.id = d THEN 1 ELSE 0
  <2>1. out # <<>> /\ out' = Tail(out) /\ pc' = pc /\ taken' = taken /\ credit' = credit /\ grant' = grant
    BY <1>9 DEF ReadMessage
  <2>2. InFlight(d) = InFlight(d)' + n
    BY <2>1, FramesTail DEF InFlight, Shape
  <2>3. received'[d] = received[d] \/ (received'[d] = received[d] + 1 /\ n = 1)
    <3>1. received' = received \/ (Acceptable(m) /\ m.kind # "response"
                                     /\ received' = [received EXCEPT ![m.id] = received[m.id] + 1])
      BY <1>9 DEF ReadMessage
    <3>2. Acceptable(m) /\ m.kind # "response" => m.kind = "frame"
      BY DEF Acceptable
    <3> HIDE DEF m
    <3> QED
      BY <3>1, <3>2 DEF Shape
  <2> HIDE DEF m
  <2>4. n \in {0, 1} /\ Owed(d)' = Owed(d) /\ InFlight(d)' \in Nat
    BY <2>1, FramesFinite DEF Owed, InFlight, Shape
  <2>5. /\ taken[d] <= received[d]
        /\ credit[d] + grant[d] + InFlight(d) + received[d] + Owed(d) <= Window + taken[d]
    BY <1>a DEF Account
  <2>6. taken'[d] = taken[d] /\ credit'[d] = credit[d] /\ grant'[d] = grant[d]
    BY <2>1
  <2> HIDE DEF n
  <2> QED
    BY <1>b, <2>2, <2>3, <2>4, <2>5, <2>6 DEF Account
<1>10. CASE StopReading \/ ReadEnd \/ MonitorEnds \/ HeartbeatMissed \/ BeginDrain \/ Shutdown \/ NotifyShutdown
            \/ UNCHANGED vars
  <2>1. credit' = credit /\ grant' = grant /\ out' = out /\ received' = received /\ taken' = taken /\ pc' = pc
    BY <1>10 DEF StopReading, ReadEnd, MonitorEnds, HeartbeatMissed, BeginDrain, Shutdown, NotifyShutdown, vars,
       callers, extension, memory
  <2> QED
    BY <1>e, <2>1
<1>11. CASE Exit
  BY <1>11, <1>f DEF Exit, callers
<1>12. CASE ReaderTeardown \/ MonitorTeardown
  <2>1. out' = out /\ received' = received /\ taken' = taken /\ pc' = pc
    BY <1>12 DEF ReaderTeardown, MonitorTeardown
  <2>2. KillChild \/ (credit' = credit /\ grant' = grant)
    BY <1>12 DEF ReaderTeardown, MonitorTeardown, Teardown, memory
  <2> QED
    BY <1>e, <1>f, <2>1, <2>2
<1>13. ASSUME NEW k \in Killers, Kill(k) PROVE Account(d)'
  <2>1. out' = out /\ received' = received /\ taken' = taken /\ (pc'[d] = "credit" => pc[d] = "credit")
    BY <1>13 DEF Kill, Shape
  <2>2. KillChild \/ (credit' = credit /\ grant' = grant)
    BY <1>13 DEF Kill, memory
  <2> QED
    BY <1>e, <1>f, <2>1, <2>2
<1> QED
  BY <1>1, <1>2, <1>3, <1>4, <1>5, <1>6, <1>7, <1>8, <1>9, <1>10, <1>11, <1>12, <1>13
  DEF Next, HostStep, CallerStep, ReaderStep, ExtensionStep

(* The host's end of a stream keeps its account. *)
LEMMA SinkNext == Shape /\ PipeInv /\ TalkInv /\ AccountInv /\ SinkInv /\ [Next]_vars => SinkInv'
<1> SUFFICES ASSUME Shape, PipeInv, TalkInv, AccountInv, SinkInv, [Next]_vars, NEW d \in Callers
             PROVE  SinkFollows(d)'
  BY DEF SinkInv
<1>a. SinkFollows(d) /\ Talk(d)
  BY DEF SinkInv, TalkInv
<1>b. received[d] \in Nat /\ taken[d] \in Nat /\ sink[d].credit \in Nat /\ sink[d].next \in Nat
      /\ Window \in Nat /\ MaxFrames \in Nat
  BY ProcessAssumption DEF Shape
<1>c. ASSUME sink'[d] = sink[d], received'[d] = received[d], taken'[d] = taken[d] PROVE SinkFollows(d)'
  BY <1>a, <1>c DEF SinkFollows
<1>d. ASSUME sink'[d] = NoSink, received'[d] = received[d] \/ received'[d] = 0 PROVE SinkFollows(d)'
  BY <1>a, <1>b, <1>d DEF SinkFollows, NoSink, Sink
<1>e. ASSUME NEW c \in Callers, Return(c) PROVE SinkFollows(d)'
  BY <1>c, <1>d, <1>e, ReturnPoint
<1>1. ASSUME NEW c \in Callers, OpenStream(c) PROVE SinkFollows(d)'
  <2>1. /\ received' = received /\ taken' = taken /\ c \in Streamers /\ pc[c] = "idle"
        /\ sink'[d] = IF d = c THEN Sink(TRUE, Window, 0) ELSE sink[d]
    BY <1>1 DEF OpenStream, Shape
  <2>2. CASE d = c
    <3>1. received[d] = 0 /\ taken[d] = 0
      BY <1>a, <2>1, <2>2 DEF Talk, Fresh, Early
    <3> QED
      BY <1>b, <2>1, <2>2, <3>1 DEF SinkFollows, Sink
  <2>3. CASE d # c
    BY <1>c, <2>1, <2>3
  <2> QED
    BY <2>2, <2>3
<1>2. ASSUME NEW c \in Callers, Admit(c) \/ Insert(c) \/ Write(c) \/ Receive(c) \/ GraceAnswered(c)
                \/ StreamEnds(c) \/ DropStream(c) \/ WriteCredit(c)
      PROVE  SinkFollows(d)'
  <2>1. Return(c) \/ UNCHANGED ends
    BY <1>2 DEF Admit, Insert, Write, Receive, GraceAnswered, StreamEnds, DropStream, WriteCredit
  <2> QED
    BY <1>c, <1>e, <2>1 DEF ends
<1>3. ASSUME NEW c \in Callers, Take(c) PROVE SinkFollows(d)'
  <2>1. /\ received' = received
        /\ taken'[d] = IF d = c THEN taken[d] + 1 ELSE taken[d]
        /\ sink'[d] = IF d = c /\ sink[d].open THEN Sink(TRUE, sink[d].credit + 1, sink[d].next) ELSE sink[d]
    BY <1>3 DEF Take, Shape
  <2>2. CASE d = c /\ sink[d].open
    BY <1>a, <1>b, <2>1, <2>2 DEF SinkFollows, Sink
  <2>3. CASE d = c /\ ~sink[d].open
    BY <1>a, <1>b, <2>1, <2>3 DEF SinkFollows
  <2>4. CASE d # c
    BY <1>c, <2>1, <2>4
  <2> QED
    BY <2>2, <2>3, <2>4
<1>4. CASE ReadMessage
  <2> DEFINE m == Head(out)
  <2>1. out # <<>> /\ m = out[1] /\ 1 \in 1..Len(out) /\ taken' = taken
    BY <1>4 DEF ReadMessage, Shape
  <2>2. CASE Acceptable(m) /\ m.kind # "response"
    <3>1. /\ sink' = [sink EXCEPT ![m.id] = Sink(TRUE, sink[m.id].credit - 1, sink[m.id].next + 1)]
          /\ received' = [received EXCEPT ![m.id] = received[m.id] + 1]
      BY <1>4, <2>2 DEF ReadMessage
    <3>2. m.kind = "frame" /\ sink[m.id].open /\ m.seq = sink[m.id].next /\ sink[m.id].credit > 0
      BY <2>2 DEF Acceptable
    <3>3. m.seq < MaxFrames
      BY <2>1, <3>2 DEF PipeInv
    <3> HIDE DEF m
    <3>4. CASE d = m.id
      <4>1. /\ sink'[d] = Sink(TRUE, sink[d].credit - 1, sink[d].next + 1)
            /\ received'[d] = received[d] + 1
        BY <3>1, <3>4 DEF Shape
      <4>2. /\ sink[d].open /\ d \in Streamers /\ sink[d].credit + received[d] = Window + taken[d]
            /\ sink[d].next = received[d] /\ received[d] < MaxFrames /\ sink[d].credit > 0
        BY <1>a, <3>2, <3>3, <3>4 DEF SinkFollows
      <4>3. sink'[d].open /\ sink'[d].credit = sink[d].credit - 1 /\ sink'[d].next = sink[d].next + 1
        BY <4>1 DEF Sink
      <4>4. taken'[d] = taken[d] /\ received'[d] = received[d] + 1
        BY <2>1, <4>1
      <4>5. received'[d] <= MaxFrames
        BY <1>b, <4>2, <4>4
      <4>6. sink'[d].credit + received'[d] = Window + taken'[d] /\ sink'[d].next = received'[d]
        BY <1>b, <4>2, <4>3, <4>4
      <4> QED
        BY <4>2, <4>3, <4>5, <4>6 DEF SinkFollows
    <3>5. CASE d # m.id
      BY <1>c, <2>1, <3>1, <3>5 DEF Shape
    <3> QED
      BY <3>4, <3>5
  <2>3. CASE ~(Acceptable(m) /\ m.kind # "response")
    <3>1. sink' = sink /\ received' = received
      BY <1>4, <2>3 DEF ReadMessage
    <3> QED
      BY <1>c, <2>1, <3>1
  <2> QED
    BY <2>2, <2>3
<1>5. CASE \/ \E c \in Callers : Deadline(c) \/ WriteCancel(c) \/ GraceOver(c) \/ Abandon(c) \/ Respond(c)
                                  \/ SendFrame(c) \/ ReadCredit(c)
           \/ Misbehave \/ StopReading \/ Exit \/ ReadEnd \/ MonitorEnds \/ HeartbeatMissed \/ BeginDrain \/ Shutdown
           \/ NotifyShutdown \/ UNCHANGED vars
  <2>1. sink' = sink /\ received' = received /\ taken' = taken
    BY <1>5 DEF Deadline, WriteCancel, GraceOver, Abandon, Respond, SendFrame, ReadCredit, Misbehave, StopReading,
       Exit, ReadEnd, MonitorEnds, HeartbeatMissed, BeginDrain, Shutdown, NotifyShutdown, vars, process, callers
  <2> QED
    BY <1>c, <2>1
<1>6. CASE ReaderTeardown \/ MonitorTeardown \/ \E k \in Killers : Kill(k)
  <2>1. received' = received /\ taken' = taken
    BY <1>6 DEF ReaderTeardown, MonitorTeardown, Kill
  <2>2. sink'[d] = sink[d] \/ sink'[d] = NoSink
    BY <1>6 DEF ReaderTeardown, MonitorTeardown, Teardown, Kill, Release, ClearStreams
  <2> QED
    BY <1>c, <1>d, <2>1, <2>2
<1> QED
  BY <1>1, <1>2, <1>3, <1>4, <1>5, <1>6
  DEF Next, HostStep, CallerStep, ReaderStep, ExtensionStep

-----------------------------------------------------------------------------
(* Blame. *)

(* The next frame of a stream. *)
LEMMA FlowAppend ==
    ASSUME NEW s \in Seq(Messages), NEW m \in Messages, NEW c, NEW lo \in Nat, NEW hi \in Nat,
           FlowOf(s, c, lo, hi), m.kind = "frame", m.id = c, m.seq = hi
    PROVE  FlowOf(Append(s, m), c, lo, hi + 1)
<1> DEFINE t == Append(s, m)
<1>1. FramesIn(t, c) = FramesIn(s, c) \cup {Len(s) + 1}
  BY FramesAppend
<1>2. /\ \A i \in FramesIn(s, c) : t[i] = s[i] /\ i < Len(s) + 1 /\ i \in Nat /\ s[i].seq \in Nat
      /\ t[Len(s) + 1] = m
  <2>1. \A i \in FramesIn(s, c) : i \in 1..Len(s) /\ s[i] \in Messages
    BY DEF FramesIn
  <2> QED
    BY <2>1 DEF Messages
<1> HIDE DEF t
<1>3. \A i \in FramesIn(t, c) : t[i].seq >= lo /\ t[i].seq < hi + 1
  BY <1>1, <1>2 DEF FlowOf
<1>4. \A i, j \in FramesIn(t, c) : i < j => t[i].seq < t[j].seq
  BY <1>1, <1>2 DEF FlowOf
<1>5. ASSUME NEW k \in lo .. (hi + 1) - 1 PROVE \E i \in FramesIn(t, c) : t[i].seq = k
  <2>1. CASE k = hi
    BY <1>1, <1>2, <2>1
  <2>2. CASE k # hi
    <3>1. k \in lo .. hi - 1
      BY <2>2
    <3>2. PICK i \in FramesIn(s, c) : s[i].seq = k
      BY <3>1 DEF FlowOf
    <3> QED
      BY <1>1, <1>2, <3>2
  <2> QED
    BY <2>1, <2>2
<1>6. lo <= hi + 1
  BY DEF FlowOf
<1> QED
  BY <1>3, <1>4, <1>5, <1>6 DEF FlowOf, t

(* Another message goes into the pipe. *)
LEMMA FlowAppendOther ==
    ASSUME NEW s \in Seq(Messages), NEW m \in Messages, NEW c, NEW lo, NEW hi,
           FlowOf(s, c, lo, hi), ~(m.kind = "frame" /\ m.id = c)
    PROVE  FlowOf(Append(s, m), c, lo, hi)
<1> DEFINE t == Append(s, m)
<1>1. FramesIn(t, c) = FramesIn(s, c)
  BY FramesAppend
<1>2. \A i \in FramesIn(s, c) : t[i] = s[i]
  BY DEF FramesIn
<1> HIDE DEF t
<1>3. FlowOf(t, c, lo, hi)
  BY <1>1, <1>2 DEF FlowOf
<1> QED
  BY <1>3 DEF t

(* Another message is read. *)
LEMMA FlowTailOther ==
    ASSUME NEW s \in Seq(Messages), s # <<>>, NEW c, NEW lo, NEW hi,
           FlowOf(s, c, lo, hi), ~(Head(s).kind = "frame" /\ Head(s).id = c)
    PROVE  FlowOf(Tail(s), c, lo, hi)
<1> DEFINE t == Tail(s)
<1>1. \A i \in FramesIn(t, c) : i \in Nat /\ i + 1 \in FramesIn(s, c) /\ t[i] = s[i + 1]
  BY TailAt DEF FramesIn
<1>2. ASSUME NEW i \in FramesIn(s, c) PROVE i - 1 \in FramesIn(t, c) /\ t[i - 1] = s[i]
  <2>1. i \in 1..Len(s) /\ i # 1
    BY DEF FramesIn
  <2>2. i - 1 \in 1..Len(t) /\ t[i - 1] = s[i]
    BY <2>1
  <2> QED
    BY <2>2 DEF FramesIn
<1> HIDE DEF t
<1>3. \A k \in lo .. hi - 1 : \E i \in FramesIn(t, c) : t[i].seq = k
  BY <1>2 DEF FlowOf
<1>4. /\ \A i \in FramesIn(t, c) : t[i].seq >= lo /\ t[i].seq < hi
      /\ \A i, j \in FramesIn(t, c) : i < j => t[i].seq < t[j].seq
  BY <1>1 DEF FlowOf
<1>5. FlowOf(t, c, lo, hi)
  BY <1>3, <1>4 DEF FlowOf
<1> QED
  BY <1>5 DEF t

(* The first frame of a stream is the one the host expects, and then comes the next. *)
LEMMA FlowTail ==
    ASSUME NEW s \in Seq(Messages), s # <<>>, NEW c, NEW lo \in Nat, NEW hi \in Nat,
           FlowOf(s, c, lo, hi), Head(s).kind = "frame", Head(s).id = c
    PROVE  Head(s).seq = lo /\ FlowOf(Tail(s), c, lo + 1, hi)
<1> DEFINE t == Tail(s)
<1>1. /\ 1 \in FramesIn(s, c) /\ Head(s) = s[1]
      /\ \A i \in FramesIn(s, c) : i \in Nat /\ i >= 1 /\ s[i].seq \in Nat
  <2>1. \A i \in FramesIn(s, c) : i \in 1..Len(s) /\ s[i] \in Messages
    BY DEF FramesIn
  <2> QED
    BY <2>1 DEF FramesIn, Messages
<1>2. s[1].seq >= lo /\ s[1].seq < hi
  BY <1>1 DEF FlowOf
<1>3. PICK p \in FramesIn(s, c) : s[p].seq = lo
  <2>1. lo \in lo .. hi - 1
    BY <1>1, <1>2
  <2> QED
    BY <2>1 DEF FlowOf
<1>4. s[1].seq = lo
  <2>1. CASE p = 1
    BY <1>3, <2>1
  <2>2. CASE p > 1
    BY <1>1, <1>2, <1>3, <2>2 DEF FlowOf
  <2> QED
    BY <1>1, <1>3, <2>1, <2>2
<1>5. \A i \in FramesIn(t, c) : i \in Nat /\ i > 0 /\ i + 1 \in FramesIn(s, c) /\ t[i] = s[i + 1]
  BY TailAt DEF FramesIn
<1>6. ASSUME NEW i \in FramesIn(s, c), i # 1 PROVE i - 1 \in FramesIn(t, c) /\ t[i - 1] = s[i]
  <2>1. i \in 1..Len(s) /\ i # 1
    BY <1>6 DEF FramesIn
  <2>2. i - 1 \in 1..Len(t) /\ t[i - 1] = s[i]
    BY <2>1
  <2> QED
    BY <2>2 DEF FramesIn
<1> HIDE DEF t
<1>7. \A i \in FramesIn(s, c) : i # 1 => s[i].seq >= lo + 1 /\ s[i].seq < hi
  BY <1>1, <1>4 DEF FlowOf
<1>8. \A i \in FramesIn(t, c) : t[i].seq >= lo + 1 /\ t[i].seq < hi
  BY <1>5, <1>7
<1>9. \A i, j \in FramesIn(t, c) : i < j => t[i].seq < t[j].seq
  BY <1>5 DEF FlowOf
<1>10. ASSUME NEW k \in (lo + 1) .. hi - 1 PROVE \E i \in FramesIn(t, c) : t[i].seq = k
  <2>1. k \in lo .. hi - 1 /\ k # lo
    OBVIOUS
  <2>2. PICK i \in FramesIn(s, c) : s[i].seq = k
    BY <2>1 DEF FlowOf
  <2>3. i # 1
    BY <1>4, <2>1, <2>2
  <2> QED
    BY <1>6, <2>2, <2>3
<1>11. lo + 1 <= hi
  BY <1>2, <1>4
<1>12. FlowOf(t, c, lo + 1, hi)
  BY <1>8, <1>9, <1>10, <1>11 DEF FlowOf
<1> QED
  BY <1>1, <1>4, <1>12 DEF t

(* The host's credit covers what the child may still use. *)
LEMMA Covered ==
    ASSUME Shape, NEW c \in Callers, SinkFollows(c), Account(c), sink[c].open
    PROVE  sink[c].credit >= credit[c] + grant[c] + InFlight(c)
<1>1. /\ credit[c] \in Nat /\ grant[c] \in Nat /\ received[c] \in Nat /\ taken[c] \in Nat
      /\ InFlight(c) \in Nat /\ Owed(c) \in Nat /\ sink[c].credit \in Nat /\ Window \in Nat
  BY Amounts, ProcessAssumption DEF Shape
<1>2. sink[c].credit + received[c] = Window + taken[c]
  BY DEF SinkFollows
<1>3. credit[c] + grant[c] + InFlight(c) + received[c] + Owed(c) <= Window + taken[c]
  BY DEF Account
<1> QED
  BY <1>1, <1>2, <1>3

(* The reader accepts what comes to it. *)
LEMMA HeadAccepted ==
    ASSUME IInv, ~excused, out # <<>>
    PROVE  Acceptable(Head(out))
<1> DEFINE m == Head(out)
           c == m.id
<1>1. m = out[1] /\ 1 \in 1..Len(out) /\ m \in Messages /\ out \in Seq(Messages)
  BY DEF IInv, Shape
<1>2. m.kind \in {"response", "frame"}
  <2>1. m.kind # "junk"
    BY <1>1 DEF IInv, BlameInv, ResponsesExpected
  <2> QED
    BY <1>1, <2>1 DEF Messages
<1>3. CASE m.kind = "response"
  BY <1>1, <1>3 DEF IInv, BlameInv, ResponsesExpected, Acceptable
<1>4. CASE m.kind = "frame"
  <2>1. c \in Callers /\ 1 \in FramesIn(out, c)
    BY <1>1, <1>4 DEF IInv, PipeInv, FramesIn
  <2>2. sink[c].open /\ Flow(c)
    BY <2>1 DEF IInv, BlameInv, FramesExpected, Quiet
  <2>3. SinkFollows(c) /\ Account(c) /\ Shape
    BY <2>1 DEF IInv, SinkInv, AccountInv
  <2>4. c \in Streamers /\ pc[c] # "gone"
    BY <2>2, <2>3 DEF SinkFollows, IInv, BlameInv, StreamsOpen, StreamOpen
  <2>5. m.seq = received[c]
    <3>1. received[c] \in Nat /\ sent[c] \in Nat
      BY <2>1, <2>3, ProcessAssumption DEF Shape
    <3> QED
      BY <1>1, <1>4, <2>2, <3>1, FlowTail DEF Flow
  <2>6. InFlight(c) > 0
    <3>1. IsFiniteSet(FramesIn(out, c)) /\ Cardinality(FramesIn(out, c)) \in Nat
      BY <1>1, FramesFinite
    <3>2. Cardinality(FramesIn(out, c)) # 0
      BY <2>1, <3>1, FS_EmptySet
    <3> QED
      BY <3>1, <3>2 DEF InFlight
  <2>7. sink[c].credit > 0
    <3>1. credit[c] \in Nat /\ grant[c] \in Nat /\ InFlight(c) \in Nat /\ sink[c].credit \in Nat
      BY <2>1, <2>3, Amounts DEF Shape
    <3>2. sink[c].credit >= credit[c] + grant[c] + InFlight(c)
      BY <2>1, <2>2, <2>3, Covered
    <3> QED
      BY <2>6, <3>1, <3>2
  <2>8. sink[c].next = received[c]
    BY <2>2, <2>3 DEF SinkFollows
  <2> QED
    BY <1>4, <2>2, <2>4, <2>5, <2>7, <2>8 DEF Acceptable
<1> QED
  BY <1>2, <1>3, <1>4

\* The steps that leave the generation without an excuse.
CalmStep ==
    \/ \E c \in Callers :
          \/ OpenStream(c) \/ Admit(c) \/ Insert(c) \/ Receive(c) \/ Deadline(c) \/ WriteCancel(c)
          \/ Take(c) \/ Respond(c) \/ SendFrame(c) \/ ReadCredit(c)
          \/ Write(c) /\ Goto(c, "wait") /\ asked' = asked \cup {c} /\ UNCHANGED <<pending, ends>>
          \/ GraceAnswered(c) /\ c \notin Streamers
          \/ Abandon(c) /\ c \notin Streamers
          \/ WriteCredit(c)
    \/ ReadMessage \/ BeginDrain \/ StopReading \/ UNCHANGED vars

(* Whatever gives the generation up has an excuse. *)
LEMMA CalmSteps ==
    ASSUME IInv, [Next]_vars, ~excused'
    PROVE  ~excused /\ CalmStep
<1>a. excused \in BOOLEAN /\ excused' \in BOOLEAN
  <2>1. Shape /\ Shape'
    BY ShapeNext DEF IInv
  <2> QED
    BY <2>1 DEF Shape
<1>1. ~excused
  BY <1>a DEF Next, HostStep, CallerStep, ReaderStep, ExtensionStep, vars, OpenStream, Admit, Insert,
     Write, Receive, Deadline, WriteCancel, GraceAnswered, GraceOver, Abandon, Take, WriteCredit, StreamEnds,
     DropStream, Respond, SendFrame, ReadCredit, Misbehave, StopReading, Exit, ReadMessage, ReadEnd,
     ReaderTeardown, MonitorEnds, HeartbeatMissed, MonitorTeardown, BeginDrain, Shutdown, NotifyShutdown, Kill
<1>2. Calm /\ StreamsOpen
  BY <1>1 DEF IInv, BlameInv
<1>3. ASSUME NEW c \in Callers, Write(c) PROVE CalmStep
  BY <1>2, <1>3 DEF Write, Calm, CalmStep
<1>4. ASSUME NEW c \in Callers, GraceAnswered(c) \/ Abandon(c) PROVE CalmStep
  BY <1>a, <1>4 DEF GraceAnswered, Abandon, CalmStep
<1>5. ASSUME NEW c \in Callers, GraceOver(c) \/ DropStream(c) PROVE FALSE
  BY <1>a, <1>5 DEF GraceOver, DropStream
<1>6. ASSUME NEW c \in Callers, StreamEnds(c) PROVE FALSE
  <2>1. c \in Streamers
    BY <1>6 DEF StreamEnds, IInv, TalkInv, Talk, Streaming
  <2> QED
    BY <1>2, <1>6, <2>1 DEF StreamEnds, StreamsOpen, StreamOpen
<1>7. CASE Misbehave \/ Exit \/ HeartbeatMissed \/ Shutdown
  BY <1>a, <1>7 DEF Misbehave, Exit, HeartbeatMissed, Shutdown
<1>8. CASE ReadEnd \/ MonitorEnds
  BY <1>2, <1>8 DEF ReadEnd, MonitorEnds, Calm
<1>9. CASE ReaderTeardown \/ MonitorTeardown
  BY <1>2, <1>9 DEF ReaderTeardown, MonitorTeardown, Teardown, Calm
<1>10. CASE NotifyShutdown \/ \E k \in Killers : Kill(k)
  <2>1. Drainer \in Killers
    BY DEF Killers
  <2> QED
    BY <1>2, <1>10, <2>1 DEF NotifyShutdown, Kill, Calm
<1> QED
  BY <1>1, <1>3, <1>4, <1>5, <1>6, <1>7, <1>8, <1>9, <1>10
  DEF Next, HostStep, CallerStep, ReaderStep, ExtensionStep, CalmStep

(* Calm lasts. *)
LEMMA CalmStays ==
    ASSUME IInv, ~excused, CalmStep
    PROVE  Calm'
<1>1. Calm /\ Shape
  BY DEF IInv, BlameInv
<1>2. CASE ReadMessage
  <2>1. Acceptable(Head(out))
    BY <1>2, HeadAccepted DEF ReadMessage
  <2>2. UNCHANGED <<stopped, reader, monitor, child, killer>>
    BY <1>2, <2>1 DEF ReadMessage
  <2>3. \A c \in Callers : answer'[c] # "closed"
    BY <1>1, <1>2 DEF ReadMessage, Calm, Shape
  <2> QED
    BY <1>1, <2>2, <2>3 DEF Calm
<1>3. CASE BeginDrain \/ StopReading \/ UNCHANGED vars
  BY <1>1, <1>3 DEF BeginDrain, StopReading, vars, tasks, process, callers, extension, memory, Calm
<1>4. ASSUME NEW c \in Callers,
          \/ OpenStream(c) \/ Admit(c) \/ Insert(c) \/ Receive(c) \/ Deadline(c) \/ WriteCancel(c)
          \/ Take(c) \/ Respond(c) \/ SendFrame(c) \/ ReadCredit(c) \/ Write(c) \/ GraceAnswered(c)
          \/ WriteCredit(c) \/ Abandon(c)
      PROVE  Calm'
  <2>1. UNCHANGED <<stopped, reader, monitor, child>>
    BY <1>4 DEF OpenStream, Admit, Insert, Receive, Deadline, WriteCancel, Take, Respond, SendFrame, ReadCredit,
       Write, GraceAnswered, WriteCredit, Abandon, process, tasks, extension, memory
  <2>2. \A k \in Killers : killer'[k] = "idle"
    <3>1. killer' = killer \/ killer' = [killer EXCEPT ![c] = "idle"]
      BY <1>4 DEF OpenStream, Admit, Insert, Receive, Deadline, WriteCancel, Take, Respond, SendFrame, ReadCredit,
         Write, GraceAnswered, WriteCredit, Abandon, tasks
    <3> QED
      BY <1>1, <3>1 DEF Calm, Shape
  <2>3. \A d \in Callers : answer'[d] = answer[d] \/ answer'[d] = "none"
    <3>1. Return(c) \/ answer' = answer
      BY <1>4 DEF OpenStream, Admit, Insert, Receive, Deadline, WriteCancel, Take, Respond, SendFrame, ReadCredit,
         Write, GraceAnswered, WriteCredit, Abandon, callers, ends
    <3> QED
      BY <1>1, <3>1, ReturnPoint
  <2> QED
    BY <1>1, <2>1, <2>2, <2>3 DEF Calm
<1> QED
  BY <1>2, <1>3, <1>4 DEF CalmStep

(* Every response on its way finds its entry. *)
LEMMA ResponsesStay ==
    ASSUME IInv, ~excused, CalmStep
    PROVE  ResponsesExpected'
<1>1. ResponsesExpected /\ Shape
  BY DEF IInv, BlameInv
<1>2. CASE ReadMessage
  <2> DEFINE m == Head(out)
  <2>1. out # <<>> /\ m = out[1] /\ 1 \in 1..Len(out) /\ out' = Tail(out)
    BY <1>1, <1>2 DEF ReadMessage, Shape
  <2>2. \A i \in 1..Len(out') : i \in Nat /\ i + 1 \in 1..Len(out) /\ out'[i] = out[i + 1]
    BY <1>1, <2>1, TailAt DEF Shape
  <2>3. pending' = pending \/ (pending' = pending \ {m.id} /\ m.kind = "response")
    BY <1>2 DEF ReadMessage
  <2> HIDE DEF m
  <2>4. ASSUME NEW i \in 1..Len(out'), out'[i].kind = "response" PROVE out'[i].id \in pending'
    <3>1. i + 1 \in 1..Len(out) /\ out[i + 1].kind = "response" /\ out[i + 1].id \in pending /\ i + 1 # 1
      BY <1>1, <2>2, <2>4 DEF ResponsesExpected
    <3>2. CASE m.kind = "response"
      <4>1. out[i + 1].id # m.id
        BY <1>1, <2>1, <3>1, <3>2 DEF ResponsesExpected
      <4> QED
        BY <2>2, <2>3, <3>1, <4>1
    <3>3. CASE m.kind # "response"
      BY <2>2, <2>3, <3>1, <3>3
    <3> QED
      BY <3>2, <3>3
  <2>5. \A i \in 1..Len(out') : out'[i].kind # "junk"
    BY <1>1, <2>2 DEF ResponsesExpected
  <2>6. ASSUME NEW i \in 1..Len(out'), NEW j \in 1..Len(out'), out'[i].kind = "response", out'[j].kind = "response",
               out'[i].id = out'[j].id
        PROVE  i = j
    <3>1. i + 1 = j + 1 /\ i \in Nat /\ j \in Nat
      BY <1>1, <2>2, <2>6 DEF ResponsesExpected
    <3> QED
      BY <3>1
  <2> QED
    BY <2>4, <2>5, <2>6 DEF ResponsesExpected
<1>3. ASSUME NEW c \in Callers, Respond(c) PROVE ResponsesExpected'
  <2> DEFINE m == Msg("response", c, 0)
  <2>1. m \in Messages /\ m.kind = "response" /\ m.id = c
    BY ProcessAssumption DEF Msg, Messages, Killers
  <2>2. out' = Append(out, m) /\ pending' = pending /\ c \in asked
    BY <1>3 DEF Respond, Send, process
  <2>3. c \in pending
    BY <2>2 DEF IInv, BlameInv, Calm, ConcInv, GivenUp
  <2>4. \A i \in 1..Len(out) : out[i].id # c
    BY <2>2 DEF IInv, TalkInv, Talk, Fresh
  <2> HIDE DEF m
  <2>5. \A i \in 1..Len(out') : (i \in 1..Len(out) /\ out'[i] = out[i]) \/ (i = Len(out) + 1 /\ out'[i] = m)
    BY <1>1, <2>1, <2>2, AppendAt DEF Shape
  <2> QED
    BY <1>1, <2>1, <2>2, <2>3, <2>4, <2>5 DEF ResponsesExpected
<1>4. ASSUME NEW c \in Callers, SendFrame(c) PROVE ResponsesExpected'
  <2> DEFINE m == Msg("frame", c, sent[c])
  <2>1. m \in Messages /\ m.kind = "frame"
    BY <1>1, <1>4 DEF SendFrame, Msg, Messages, Killers, Shape
  <2>2. out' = Append(out, m) /\ pending' = pending
    BY <1>4 DEF SendFrame, Send, process
  <2> HIDE DEF m
  <2>3. \A i \in 1..Len(out') : (i \in 1..Len(out) /\ out'[i] = out[i]) \/ (i = Len(out) + 1 /\ out'[i] = m)
    BY <1>1, <2>1, <2>2, AppendAt DEF Shape
  <2> QED
    BY <1>1, <2>1, <2>2, <2>3 DEF ResponsesExpected
<1>5. CASE \/ \E c \in Callers :
                \/ OpenStream(c) \/ Admit(c) \/ Insert(c) \/ Receive(c) \/ Deadline(c) \/ WriteCancel(c)
                \/ Take(c) \/ ReadCredit(c) \/ (Write(c) /\ UNCHANGED <<pending, ends>>) \/ GraceAnswered(c)
                \/ WriteCredit(c) \/ Abandon(c)
           \/ BeginDrain \/ StopReading \/ UNCHANGED vars
  <2>1. out' = out /\ pending \subseteq pending'
    BY <1>5 DEF OpenStream, Admit, Insert, Receive, Deadline, WriteCancel, Take, ReadCredit, Write, GraceAnswered,
       WriteCredit, Abandon, BeginDrain, StopReading, vars, process, extension, memory
  <2> QED
    BY <1>1, <2>1 DEF ResponsesExpected
<1> QED
  BY <1>2, <1>3, <1>4, <1>5 DEF CalmStep

(* A call that returns calmly has nothing with the child. *)
LEMMA CalmReturn ==
    ASSUME IInv, ~excused, NEW c \in Callers, Return(c),
           Admit(c) \/ Insert(c) \/ Receive(c) \/ WriteCredit(c)
    PROVE  c \notin asked
<1>1. Talk(c) /\ answer[c] # "closed" /\ answer[c] \in {"none", "value", "closed"}
  BY DEF IInv, TalkInv, BlameInv, Calm, Shape
<1>2. pc[c] \in Early \/ answer[c] = "value" \/ pc[c] \in Streaming
  BY <1>1 DEF Admit, Insert, Receive, WriteCredit, Early, Streaming
<1> QED
  BY <1>1, <1>2 DEF Talk

(* Streams keep their sinks. *)
LEMMA StreamsStay ==
    ASSUME IInv, ~excused, CalmStep
    PROVE  StreamsOpen'
<1> SUFFICES ASSUME NEW d \in Streamers PROVE StreamOpen(d)'
  BY DEF StreamsOpen
<1>a. StreamOpen(d) /\ Shape /\ d \in Callers
  BY ProcessAssumption DEF IInv, BlameInv, StreamsOpen
<1>b. ASSUME pc'[d] = pc[d], sink[d].open => sink'[d].open, d \in asked' => d \in asked PROVE StreamOpen(d)'
  BY <1>a, <1>b DEF StreamOpen
<1>c. ASSUME NEW c \in Callers, Return(c), asked' = asked, d = c => c \notin asked PROVE StreamOpen(d)'
  <2>1. CASE d = c
    BY <1>a, <1>c, <2>1, ReturnPoint DEF StreamOpen
  <2>2. CASE d # c
    BY <1>a, <1>b, <1>c, <2>2, ReturnPoint
  <2> QED
    BY <2>1, <2>2
<1>d. ASSUME NEW c \in Callers, pc[c] \notin {"idle", "done", "gone"}, sink' = sink, asked' \subseteq asked \cup {c},
             \E p \in CallerPcs \ {"gone"} : Goto(c, p)
      PROVE  StreamOpen(d)'
  BY <1>a, <1>d DEF StreamOpen, Goto, Shape
<1>1. ASSUME NEW c \in Callers, OpenStream(c) PROVE StreamOpen(d)'
  <2>1. /\ pc'[d] = (IF d = c THEN "admit" ELSE pc[d]) /\ asked' = asked
        /\ sink'[d] = (IF d = c THEN Sink(TRUE, Window, 0) ELSE sink[d])
    BY <1>1, <1>a DEF OpenStream, Goto, Shape, extension, memory
  <2>2. CASE d = c
    BY <2>1, <2>2 DEF StreamOpen, Sink
  <2>3. CASE d # c
    BY <1>b, <2>1, <2>3
  <2> QED
    BY <2>2, <2>3
<1>2. ASSUME NEW c \in Callers, Admit(c) \/ Insert(c) \/ Receive(c) \/ WriteCredit(c) PROVE StreamOpen(d)'
  <2>1. asked' = asked
    BY <1>2 DEF Admit, Insert, Receive, WriteCredit, extension, memory
  <2>2. CASE Return(c)
    BY <1>2, <1>c, <2>1, <2>2, CalmReturn
  <2>3. CASE UNCHANGED ends /\ \E p \in {"insert", "write", "stream"} : Goto(c, p)
    <3>1. CASE d = c
      <4>1. pc[c] \notin {"idle", "done", "gone"}
        BY <1>2, <3>1 DEF Admit, Insert, Receive, WriteCredit
      <4> QED
        BY <1>d, <2>1, <2>3, <4>1 DEF ends, CallerPcs
    <3>2. CASE d # c
      BY <1>a, <1>b, <2>1, <2>3, <3>2 DEF ends, Goto, Shape
    <3> QED
      BY <3>1, <3>2
  <2> QED
    BY <1>2, <2>2, <2>3 DEF Admit, Insert, Receive, WriteCredit
<1>3. ASSUME NEW c \in Callers, Deadline(c) \/ WriteCancel(c)
                \/ (Write(c) /\ Goto(c, "wait") /\ asked' = asked \cup {c} /\ UNCHANGED <<pending, ends>>)
      PROVE  StreamOpen(d)'
  <2>1. /\ pc[c] \notin {"idle", "done", "gone"} /\ sink' = sink /\ asked' \subseteq asked \cup {c}
        /\ \E p \in CallerPcs \ {"gone"} : Goto(c, p)
    BY <1>3 DEF Deadline, WriteCancel, Write, ends, process, extension, memory, CallerPcs
  <2> QED
    BY <1>d, <2>1
<1>4. ASSUME NEW c \in Callers, Take(c) PROVE StreamOpen(d)'
  <2>1. /\ pc[c] = "stream" /\ asked' = asked /\ Goto(c, "credit")
        /\ sink'[d] = sink[d] \/ sink'[d] = Sink(TRUE, sink[d].credit + 1, sink[d].next)
    BY <1>4, <1>a DEF Take, Shape, extension, memory
  <2>2. sink[d].open => sink'[d].open
    BY <2>1 DEF Sink
  <2>3. pc'[d] = (IF d = c THEN "credit" ELSE pc[d])
    BY <2>1, <1>a DEF Goto, Shape
  <2> QED
    BY <1>a, <2>1, <2>2, <2>3 DEF StreamOpen
<1>5. ASSUME NEW c \in Callers, GraceAnswered(c) \/ Abandon(c), c \notin Streamers PROVE StreamOpen(d)'
  <2>1. d # c /\ asked' = asked
    BY <1>5 DEF GraceAnswered, Abandon, extension, memory
  <2>2. pc'[d] = pc[d] /\ sink'[d] = sink[d]
    BY <1>5, <1>a, <2>1 DEF GraceAnswered, Abandon, Return, Goto, Shape, process
  <2> QED
    BY <1>b, <2>1, <2>2
<1>6. CASE \/ \E c \in Callers : Respond(c) \/ SendFrame(c) \/ ReadCredit(c)
           \/ BeginDrain \/ StopReading \/ UNCHANGED vars
  <2>1. pc' = pc /\ sink' = sink /\ asked' \subseteq asked
    BY <1>6 DEF Respond, SendFrame, ReadCredit, BeginDrain, StopReading, vars, process, callers, extension, memory
  <2> QED
    BY <1>b, <2>1
<1>7. CASE ReadMessage
  <2>1. pc' = pc /\ asked' = asked
    BY <1>7 DEF ReadMessage
  <2> DEFINE c == Head(out).id
             n == sink[c].credit - 1
             x == sink[c].next + 1
  <2>2. sink' = sink \/ sink' = [sink EXCEPT ![c] = Sink(TRUE, n, x)]
    BY <1>7 DEF ReadMessage
  <2>3. sink[d].open => sink'[d].open
    <3> HIDE DEF c, n, x
    <3>1. sink'[d] = sink[d] \/ sink'[d] = Sink(TRUE, n, x)
      BY <1>a, <2>2 DEF Shape
    <3>2. Sink(TRUE, n, x).open
      BY DEF Sink
    <3> QED
      BY <3>1, <3>2
  <2> QED
    BY <1>b, <2>1, <2>3
<1> QED
  BY <1>1, <1>2, <1>3, <1>4, <1>5, <1>6, <1>7 DEF CalmStep

(* The frames of every open stream arrive in order and complete. *)
LEMMA FramesStay ==
    ASSUME IInv, ~excused, CalmStep
    PROVE  FramesExpected'
<1> SUFFICES ASSUME NEW d \in Callers PROVE (IF sink[d].open THEN Flow(d) ELSE Quiet(d))'
  BY DEF FramesExpected
<1>a. /\ Shape /\ Talk(d) /\ SinkFollows(d) /\ Account(d) /\ out \in Seq(Messages)
      /\ sink[d].open => Flow(d)
      /\ ~sink[d].open => Quiet(d)
  BY DEF IInv, TalkInv, SinkInv, AccountInv, BlameInv, FramesExpected, Shape
<1>b. received[d] \in Nat /\ sent[d] \in Nat /\ sent[d] <= MaxFrames /\ taken[d] \in Nat /\ MaxFrames \in Nat
  BY <1>a, ProcessAssumption DEF Shape
<1>c. ASSUME sink'[d].open <=> sink[d].open, out' = out, received'[d] = received[d] \/ ~sink[d].open,
             sent'[d] = sent[d], credit'[d] = credit[d] \/ sink[d].open, grant'[d] = grant[d] \/ sink[d].open
      PROVE  (IF sink[d].open THEN Flow(d) ELSE Quiet(d))'
  BY <1>a, <1>c DEF Flow, Quiet
<1>d. ASSUME NEW c \in Callers, Return(c), c \notin Streamers \/ pc[c] \in Early,
             out' = out, sent' = sent, credit' = credit, grant' = grant
      PROVE  (IF sink[d].open THEN Flow(d) ELSE Quiet(d))'
  <2>1. CASE d = c
    <3>1. sink'[d] = NoSink /\ ~NoSink.open
      BY <1>a, <1>d, <2>1, ReturnPoint DEF NoSink, Sink
    <3>2. Quiet(d)
      <4>1. CASE sink[d].open
        <5>1. Fresh(d)
          BY <1>a, <1>d, <2>1, <4>1 DEF SinkFollows, Talk
        <5> QED
          BY <1>a, <5>1, FreshAccount DEF Fresh, Quiet
      <4>2. CASE ~sink[d].open
        BY <1>a, <4>2
      <4> QED
        BY <4>1, <4>2
    <3>3. Quiet(d)'
      BY <1>d, <3>2 DEF Quiet
    <3> QED
      BY <3>1, <3>3
  <2>2. CASE d # c
    <3>1. sink'[d] = sink[d] /\ received'[d] = received[d]
      BY <1>a, <1>d, <2>2, ReturnPoint
    <3> QED
      BY <1>c, <1>d, <3>1
  <2> QED
    BY <2>1, <2>2
<1>1. ASSUME NEW c \in Callers, OpenStream(c) PROVE (IF sink[d].open THEN Flow(d) ELSE Quiet(d))'
  <2>1. /\ pc[c] = "idle" /\ out' = out /\ received' = received /\ sent' = sent /\ credit' = credit /\ grant' = grant
        /\ sink'[d] = (IF d = c THEN Sink(TRUE, Window, 0) ELSE sink[d])
    BY <1>1, <1>a DEF OpenStream, Goto, Shape, extension, memory
  <2>2. CASE d = c
    <3>1. Fresh(d) /\ sink'[d].open
      BY <1>a, <2>1, <2>2 DEF Talk, Early, Sink
    <3>2. FramesIn(out, d) = {} /\ received[d] = 0 /\ sent[d] = 0
      BY <1>a, <3>1, FreshAccount DEF Fresh
    <3>3. FlowOf(out, d, 0, 0)
      BY <3>2 DEF FlowOf
    <3>4. Flow(d)'
      BY <2>1, <3>2, <3>3 DEF Flow
    <3> QED
      BY <3>1, <3>4
  <2>3. CASE d # c
    BY <1>c, <2>1, <2>3
  <2> QED
    BY <2>2, <2>3
<1>2. ASSUME NEW c \in Callers, Admit(c) \/ Insert(c) \/ Receive(c) \/ (GraceAnswered(c) /\ c \notin Streamers)
      PROVE  (IF sink[d].open THEN Flow(d) ELSE Quiet(d))'
  <2>1. out' = out /\ sent' = sent /\ credit' = credit /\ grant' = grant
    BY <1>2 DEF Admit, Insert, Receive, GraceAnswered, extension, memory
  <2>2. CASE Return(c)
    <3>1. c \notin Streamers \/ pc[c] \in Early
      <4>1. answer[c] \in {"none", "value"}
        BY <1>a DEF IInv, BlameInv, Calm, Shape
      <4>2. CASE Receive(c)
        <5>1. pc'[c] = "done"
          BY <1>a, <2>2, ReturnPoint
        <5>2. ~(answer[c] = "value" /\ c \in Streamers)
          BY <1>a, <4>2, <5>1 DEF Receive, Goto, Shape
        <5> QED
          BY <4>1, <4>2, <5>2 DEF Receive
      <4> QED
        BY <1>2, <4>2 DEF Admit, Insert, Early
    <3> QED
      BY <1>d, <2>1, <2>2, <3>1
  <2>3. CASE UNCHANGED ends
    BY <1>c, <2>1, <2>3 DEF ends
  <2> QED
    BY <1>2, <2>2, <2>3 DEF Admit, Insert, Receive, GraceAnswered
<1>3. ASSUME NEW c \in Callers, Deadline(c) \/ WriteCancel(c) \/ Abandon(c)
                \/ (Write(c) /\ UNCHANGED <<pending, ends>>)
      PROVE  (IF sink[d].open THEN Flow(d) ELSE Quiet(d))'
  <2>1. out' = out /\ sent' = sent /\ credit' = credit /\ grant' = grant /\ sink' = sink /\ received' = received
    BY <1>3 DEF Deadline, WriteCancel, Abandon, Write, ends, process, extension, memory
  <2> QED
    BY <1>c, <2>1
<1>4. ASSUME NEW c \in Callers, Take(c) PROVE (IF sink[d].open THEN Flow(d) ELSE Quiet(d))'
  <2>1. /\ out' = out /\ sent' = sent /\ credit' = credit /\ grant' = grant /\ received' = received
        /\ sink'[d] = sink[d] \/ (sink[d].open /\ sink'[d] = Sink(TRUE, sink[d].credit + 1, sink[d].next))
    BY <1>4, <1>a DEF Take, Shape, extension, memory
  <2>2. sink'[d].open <=> sink[d].open
    BY <2>1 DEF Sink
  <2> QED
    BY <1>c, <2>1, <2>2
<1>5. ASSUME NEW c \in Callers, WriteCredit(c) PROVE (IF sink[d].open THEN Flow(d) ELSE Quiet(d))'
  <2>1. /\ pc[c] = "credit" /\ out' = out /\ sent' = sent /\ credit' = credit
        /\ d # c => grant'[d] = grant[d]
    BY <1>5, <1>a DEF WriteCredit, Shape
  <2>2. sink[c].open /\ child = "up"
    <3>1. c \in Streamers
      BY <2>1 DEF IInv, TalkInv, Talk, Streaming
    <3> QED
      BY <2>1, <3>1 DEF IInv, BlameInv, Calm, StreamsOpen, StreamOpen
  <2>3. CASE d # c
    <3>1. sink'[d] = sink[d] /\ received'[d] = received[d]
      BY <1>5, <1>a, <2>3, ReturnPoint DEF WriteCredit, ends
    <3> QED
      BY <1>c, <2>1, <2>3, <3>1
  <2>4. CASE d = c /\ taken[c] < MaxFrames
    <3>1. sink' = sink /\ received' = received
      BY <1>5, <2>2, <2>4 DEF WriteCredit, ends
    <3> QED
      BY <1>c, <2>1, <2>2, <2>4, <3>1
  <2>5. CASE d = c /\ ~(taken[c] < MaxFrames)
    <3>1. Return(c)
      BY <1>5, <2>2, <2>5 DEF WriteCredit
    <3>2. sink'[d] = NoSink /\ ~NoSink.open
      BY <1>a, <2>5, <3>1, ReturnPoint DEF NoSink, Sink
    <3>3. received[d] = MaxFrames
      BY <1>a, <1>b, <2>5 DEF SinkFollows, Account
    <3>4. Flow(d)
      BY <1>a, <2>2, <2>5
    <3>5. sent[d] = MaxFrames
      BY <1>b, <3>3, <3>4 DEF Flow, FlowOf
    <3>6. FramesIn(out, d) = {}
      <4> SUFFICES ASSUME NEW i \in FramesIn(out, d) PROVE FALSE
        OBVIOUS
      <4>1. out[i].seq >= MaxFrames /\ out[i].seq < MaxFrames
        BY <3>3, <3>4, <3>5 DEF Flow, FlowOf
      <4>2. out[i].seq \in Nat
        <5>1. i \in 1..Len(out)
          BY DEF FramesIn
        <5>2. out[i] \in Messages
          BY <1>a, <5>1
        <5> QED
          BY <5>2 DEF Messages
      <4> QED
        BY <1>b, <4>1, <4>2
    <3>7. Quiet(d)'
      BY <2>1, <3>5, <3>6 DEF Quiet
    <3> QED
      BY <3>2, <3>7
  <2> QED
    BY <2>3, <2>4, <2>5
<1>6. ASSUME NEW c \in Callers, Respond(c) PROVE (IF sink[d].open THEN Flow(d) ELSE Quiet(d))'
  <2> DEFINE m == Msg("response", c, 0)
  <2>1. m \in Messages /\ m.kind # "frame"
    BY ProcessAssumption DEF Msg, Messages, Killers
  <2>2. /\ out' = Append(out, m) /\ c \in asked /\ sink' = sink /\ received' = received /\ sent' = sent
        /\ grant' = grant
        /\ d # c \/ c \notin Streamers => credit'[d] = credit[d] \/ credit'[d] = 0
    BY <1>6, <1>a DEF Respond, Send, process, callers, Shape
  <2> HIDE DEF m
  <2>3. CASE sink[d].open
    <3>1. FlowOf(Append(out, m), d, received[d], sent[d])
      BY <1>a, <2>1, <2>3, FlowAppendOther DEF Flow
    <3>2. Flow(d)'
      BY <2>2, <3>1 DEF Flow
    <3> QED
      BY <2>2, <2>3, <3>2
  <2>4. CASE ~sink[d].open
    <3>1. d # c \/ c \notin Streamers
      BY <2>2, <2>4 DEF IInv, BlameInv, StreamsOpen, StreamOpen
    <3>2. FramesIn(out', d) = {}
      BY <1>a, <2>1, <2>2, <2>4, FramesAppend DEF Quiet
    <3>3. Quiet(d)'
      BY <1>a, <2>2, <2>4, <3>1, <3>2 DEF Quiet
    <3> QED
      BY <2>2, <2>4, <3>3
  <2> QED
    BY <2>3, <2>4
<1>7. ASSUME NEW c \in Callers, SendFrame(c) PROVE (IF sink[d].open THEN Flow(d) ELSE Quiet(d))'
  <2> DEFINE m == Msg("frame", c, sent[c])
  <2>1. m \in Messages /\ m.kind = "frame" /\ m.id = c /\ m.seq = sent[c]
    BY <1>7, <1>a DEF SendFrame, Msg, Messages, Killers, Shape
  <2>2. /\ out' = Append(out, m) /\ sink' = sink /\ received' = received /\ grant' = grant
        /\ credit[c] > 0 /\ sent[c] < MaxFrames
        /\ d # c => credit'[d] = credit[d] /\ sent'[d] = sent[d]
        /\ d = c => sent'[d] = sent[d] + 1
    BY <1>7, <1>a DEF SendFrame, Send, process, callers, Shape
  <2> HIDE DEF m
  <2>3. CASE d = c
    <3>1. sink[d].open
      BY <1>a, <1>b, <2>2, <2>3 DEF Quiet
    <3>2. FlowOf(Append(out, m), d, received[d], sent[d] + 1)
      BY <1>a, <1>b, <2>1, <2>3, <3>1, FlowAppend DEF Flow
    <3>3. Flow(d)'
      BY <2>2, <2>3, <3>2 DEF Flow
    <3> QED
      BY <2>2, <3>1, <3>3
  <2>4. CASE d # c /\ sink[d].open
    <3>1. FlowOf(Append(out, m), d, received[d], sent[d])
      BY <1>a, <2>1, <2>4, FlowAppendOther DEF Flow
    <3>2. Flow(d)'
      BY <2>2, <2>4, <3>1 DEF Flow
    <3> QED
      BY <2>2, <2>4, <3>2
  <2>5. CASE d # c /\ ~sink[d].open
    <3>1. FramesIn(out', d) = {}
      BY <1>a, <2>1, <2>2, <2>5, FramesAppend DEF Quiet
    <3>2. Quiet(d)'
      BY <1>a, <2>2, <2>5, <3>1 DEF Quiet
    <3> QED
      BY <2>2, <2>5, <3>2
  <2> QED
    BY <2>3, <2>4, <2>5
<1>8. ASSUME NEW c \in Callers, ReadCredit(c) PROVE (IF sink[d].open THEN Flow(d) ELSE Quiet(d))'
  <2>1. /\ out' = out /\ sink' = sink /\ received' = received /\ sent' = sent /\ grant[c] > 0
        /\ d # c => credit'[d] = credit[d] /\ grant'[d] = grant[d]
    BY <1>8, <1>a DEF ReadCredit, process, callers, Shape
  <2>2. CASE d = c /\ ~sink[d].open
    <3>1. FramesIn(out, d) = {} /\ sent[d] = MaxFrames
      BY <1>a, <2>1, <2>2 DEF Quiet
    <3>2. Quiet(d)'
      BY <2>1, <3>1 DEF Quiet
    <3> QED
      BY <2>1, <2>2, <3>2
  <2> QED
    BY <1>c, <2>1, <2>2
<1>9. CASE BeginDrain \/ StopReading \/ UNCHANGED vars
  <2>1. out' = out /\ sent' = sent /\ credit' = credit /\ grant' = grant /\ sink' = sink /\ received' = received
    BY <1>9 DEF BeginDrain, StopReading, vars, process, callers, extension, memory
  <2> QED
    BY <1>c, <2>1
<1>10. CASE ReadMessage
  <2> DEFINE m == Head(out)
  <2>1. out # <<>> /\ out' = Tail(out) /\ sent' = sent /\ credit' = credit /\ grant' = grant
    BY <1>10 DEF ReadMessage
  <2>2. Acceptable(m)
    BY <2>1, HeadAccepted
  <2>3. CASE m.kind = "frame" /\ m.id = d
    <3>1. sink[d].open
      BY <2>2, <2>3 DEF Acceptable
    <3>2. /\ sink' = [sink EXCEPT ![d] = Sink(TRUE, sink[d].credit - 1, sink[d].next + 1)]
          /\ received' = [received EXCEPT ![d] = received[d] + 1]
      BY <1>10, <2>2, <2>3 DEF ReadMessage
    <3>3. sink'[d].open /\ received'[d] = received[d] + 1
      BY <1>a, <3>2 DEF Shape, Sink
    <3>4. FlowOf(Tail(out), d, received[d] + 1, sent[d])
      BY <1>a, <1>b, <2>1, <2>3, <3>1, FlowTail DEF Flow
    <3>5. Flow(d)'
      BY <2>1, <3>3, <3>4 DEF Flow
    <3> QED
      BY <3>3, <3>5
  <2>4. CASE ~(m.kind = "frame" /\ m.id = d)
    <3>1. sink'[d] = sink[d] /\ received'[d] = received[d]
      <4>1. \/ sink' = sink /\ received' = received
            \/ /\ m.kind # "response"
               /\ sink' = [sink EXCEPT ![m.id] = Sink(TRUE, sink[m.id].credit - 1, sink[m.id].next + 1)]
               /\ received' = [received EXCEPT ![m.id] = received[m.id] + 1]
        BY <1>10 DEF ReadMessage
      <4>2. m.kind # "response" => m.kind = "frame"
        BY <2>2 DEF Acceptable
      <4> HIDE DEF m
      <4> QED
        BY <1>a, <2>4, <4>1, <4>2 DEF Shape
    <3>2. CASE sink[d].open
      <4>1. FlowOf(Tail(out), d, received[d], sent[d])
        BY <1>a, <2>1, <2>4, <3>2, FlowTailOther DEF Flow
      <4>2. Flow(d)'
        BY <2>1, <3>1, <4>1 DEF Flow
      <4> QED
        BY <3>1, <3>2, <4>2
    <3>3. CASE ~sink[d].open
      <4>1. FramesIn(Tail(out), d) = {}
        <5>1. \A i \in FramesIn(Tail(out), d) : i \in Nat /\ i + 1 \in FramesIn(out, d)
          BY <1>a, <2>1, TailAt DEF FramesIn
        <5> QED
          BY <1>a, <3>3, <5>1 DEF Quiet
      <4>2. Quiet(d)'
        BY <1>a, <2>1, <3>3, <4>1 DEF Quiet
      <4> QED
        BY <3>1, <3>3, <4>2
    <3> QED
      BY <3>2, <3>3
  <2> QED
    BY <2>3, <2>4
<1> QED
  BY <1>1, <1>2, <1>3, <1>4, <1>5, <1>6, <1>7, <1>8, <1>9, <1>10 DEF CalmStep

-----------------------------------------------------------------------------
(* The theorems. *)

(* As long as there is no excuse the generation stays. *)
LEMMA BlameNext == IInv /\ [Next]_vars => BlameInv'
<1> SUFFICES ASSUME IInv, [Next]_vars, ~excused'
             PROVE  Calm' /\ ResponsesExpected' /\ StreamsOpen' /\ FramesExpected'
  BY DEF BlameInv
<1>1. ~excused /\ CalmStep
  BY CalmSteps
<1> QED
  BY <1>1, CalmStays, ResponsesStay, StreamsStay, FramesStay

(* Every step preserves the invariant. *)
LEMMA NextInv == IInv /\ [Next]_vars => IInv'
<1> SUFFICES ASSUME IInv, [Next]_vars PROVE IInv'
  OBVIOUS
<1>1. Shape /\ PipeInv /\ TalkInv /\ AccountInv /\ SinkInv /\ GiveInv /\ ConcInv
  BY DEF IInv
<1>2. Shape' /\ PipeInv' /\ TalkInv' /\ SinkInv' /\ GiveInv' /\ ConcInv' /\ BlameInv'
  BY <1>1, ShapeNext, PipeNext, TalkNext, SinkNext, GiveNext, ConcNext, BlameNext
<1>3. AccountInv'
  BY <1>1, <1>2, AccountNext
<1> QED
  BY <1>2, <1>3 DEF IInv

(* A generation starts with nothing pending, sent or owed. *)
LEMMA InitInv == Init => IInv
<1> SUFFICES ASSUME Init PROVE IInv
  OBVIOUS
<1>1. /\ sink = [c \in Callers |-> NoSink] /\ out = <<>> /\ pending = {} /\ asked = {}
      /\ \A c \in Callers : /\ pc[c] = "idle" /\ answer[c] = "none" /\ sink[c] = NoSink
                            /\ received[c] = 0 /\ taken[c] = 0 /\ credit[c] = 0 /\ grant[c] = 0 /\ sent[c] = 0
      /\ \A k \in Killers : killer[k] = "idle"
      /\ ~stopped /\ reader = "run" /\ monitor = "run" /\ child = "up"
  BY DEF Init, Zero
<1>2. out \in Seq(Messages) /\ Len(out) = 0 /\ \A c : FramesIn(out, c) = {}
  BY <1>1 DEF FramesIn
<1>3. ~NoSink.open /\ NoSink \in [open : BOOLEAN, credit : Nat, next : Nat]
  BY DEF NoSink, Sink
<1>4. Shape
  <2>1. /\ sink \in [Callers -> [open : BOOLEAN, credit : Nat, next : Nat]] /\ pending \subseteq Callers
        /\ asked \subseteq Callers
    BY <1>1, <1>3
  <2>2. /\ received \in [Callers -> Nat] /\ taken \in [Callers -> Nat] /\ credit \in [Callers -> Nat]
        /\ grant \in [Callers -> Nat] /\ sent \in [Callers -> 0..MaxFrames]
    BY ProcessAssumption DEF Init, Zero
  <2>3. /\ killer \in [Killers -> KillPcs] /\ pc \in [Callers -> CallerPcs]
        /\ answer \in [Callers -> {"none", "value", "closed"}]
        /\ reader \in TaskPcs /\ monitor \in TaskPcs
    BY DEF Init, KillPcs, CallerPcs, TaskPcs
  <2>4. Len(out) <= MaxPipe
    BY <1>2, ProcessAssumption
  <2>5. /\ accepting \in BOOLEAN /\ stopped \in BOOLEAN /\ health \in {"ready", "degraded", "stopped"}
        /\ child \in {"up", "dead"} /\ wedged \in BOOLEAN /\ excused \in BOOLEAN
    BY DEF Init
  <2> QED
    BY <1>2, <2>1, <2>2, <2>3, <2>4, <2>5 DEF Shape
<1>5. TalkInv /\ PipeInv
  <2>1. PipeInv
    BY <1>2 DEF PipeInv
  <2>2. TalkInv
    BY <1>1, <1>2 DEF TalkInv, Talk, Fresh, Early, Streaming
  <2> QED
    BY <2>1, <2>2
<1>6. AccountInv
  <2> SUFFICES ASSUME NEW c \in Callers PROVE Account(c)
    BY DEF AccountInv
  <2>1. InFlight(c) = 0
    BY <1>2, FS_EmptySet DEF InFlight
  <2>2. Owed(c) = 0
    BY <1>1 DEF Owed
  <2> QED
    BY <1>1, <2>1, <2>2, ProcessAssumption DEF Account
<1>7. SinkInv
  BY <1>1, <1>3, ProcessAssumption DEF SinkInv, SinkFollows
<1>8. GiveInv
  BY <1>1 DEF GiveInv, TeardownSteps
<1>9. ConcInv
  <2>1. Cardinality(pending) = 0
    BY <1>1, FS_EmptySet
  <2> QED
    BY <1>1, <2>1, ProcessAssumption DEF ConcInv
<1>10. BlameInv
  <2>1. Calm /\ ResponsesExpected
    BY <1>1, <1>2 DEF Calm, ResponsesExpected
  <2>2. StreamsOpen
    BY <1>1, ProcessAssumption DEF StreamsOpen, StreamOpen
  <2>3. FramesExpected
    BY <1>1, <1>2, <1>3 DEF FramesExpected, Quiet
  <2> QED
    BY <2>1, <2>2, <2>3 DEF BlameInv
<1> QED
  BY <1>4, <1>5, <1>6, <1>7, <1>8, <1>9, <1>10 DEF IInv

(* For any callers, window and concurrency: requests, credits and entries of one generation
   stay consistent (supervisor.rs). *)
THEOREM GenerationConsistent == Spec => []IInv
  BY InitInv, NextInv, PTL DEF Spec

(* The accounts give the types their bounds. *)
LEMMA TypesBounded == IInv => TypeOK
<1> SUFFICES ASSUME IInv PROVE TypeOK
  OBVIOUS
<1>1. Shape
  BY DEF IInv
<1>2. ASSUME NEW c \in Callers
      PROVE  /\ credit[c] \in 0..Window /\ grant[c] \in 0..Window /\ received[c] \in 0..MaxFrames
             /\ taken[c] \in 0..MaxFrames /\ sink[c].credit \in 0..Window /\ sink[c].next \in 0..MaxFrames
  <2>1. /\ credit[c] \in Nat /\ grant[c] \in Nat /\ received[c] \in Nat /\ taken[c] \in Nat
        /\ InFlight(c) \in Nat /\ Owed(c) \in Nat /\ sink[c].credit \in Nat /\ sink[c].next \in Nat
        /\ Window \in Nat /\ MaxFrames \in Nat
    BY <1>1, Amounts, ProcessAssumption DEF Shape
  <2>2. /\ taken[c] <= received[c] /\ received[c] <= MaxFrames
        /\ credit[c] + grant[c] + InFlight(c) + received[c] + Owed(c) <= Window + taken[c]
    BY DEF IInv, AccountInv, Account, SinkInv, SinkFollows
  <2>3. /\ credit[c] \in 0..Window /\ grant[c] \in 0..Window /\ received[c] \in 0..MaxFrames
        /\ taken[c] \in 0..MaxFrames
    BY <2>1, <2>2
  <2>4. CASE sink[c].open
    <3>1. sink[c].credit + received[c] = Window + taken[c] /\ sink[c].next = received[c]
      BY <2>4 DEF IInv, SinkInv, SinkFollows
    <3> QED
      BY <2>1, <2>2, <2>3, <3>1
  <2>5. CASE ~sink[c].open
    <3>1. sink[c].credit = 0 /\ sink[c].next = 0
      BY <2>5 DEF IInv, SinkInv, SinkFollows, NoSink, Sink
    <3> QED
      BY <2>1, <2>3, <3>1
  <2> QED
    BY <2>4, <2>5
<1>3. /\ credit \in [Callers -> 0..Window] /\ grant \in [Callers -> 0..Window]
      /\ received \in [Callers -> 0..MaxFrames] /\ taken \in [Callers -> 0..MaxFrames]
  BY <1>1, <1>2 DEF Shape
<1>4. sink \in [Callers -> [open : BOOLEAN, credit : 0..Window, next : 0..MaxFrames]]
  <2>1. ASSUME NEW c \in Callers PROVE sink[c] \in [open : BOOLEAN, credit : 0..Window, next : 0..MaxFrames]
    BY <1>1, <1>2 DEF Shape
  <2> QED
    BY <1>1, <2>1 DEF Shape
<1> QED
  BY <1>1, <1>3, <1>4 DEF Shape, TypeOK

(* An extension that keeps to its credit is never stopped for exceeding it: RpcStream::accept
   and the Credit message may be any number of steps apart. *)
THEOREM CreditAlwaysCovers == Spec => []CreditCovers
<1>1. IInv => CreditCovers
  BY TypesBounded, Covered, ProcessAssumption DEF IInv, SinkInv, AccountInv, CreditCovers
<1> QED
  BY <1>1, GenerationConsistent, PTL

(* Late answers, timeouts and abandoned calls never cost a generation: it goes down only for a
   reason the host can name. *)
THEOREM BlamelessLive == Spec => []BlamelessSurvives
<1>1. IInv => BlamelessSurvives
  BY DEF IInv, BlameInv, Calm, BlamelessSurvives
<1> QED
  BY <1>1, GenerationConsistent, PTL

(* The extension never holds more requests than the handshake agreed on, although calls time
   out and are abandoned, until the generation is given up. *)
THEOREM ConcurrencyNegotiated == Spec => []NegotiatedConcurrency
<1>1. ASSUME IInv, ~GivenUp PROVE Cardinality(asked) <= MaxRequests
  <2>1. pending \in SUBSET Callers /\ asked \in SUBSET pending /\ asked \in SUBSET Callers
    BY <1>1 DEF IInv, Shape, ConcInv
  <2>2. /\ IsFiniteSet(pending) /\ Cardinality(pending) \in Nat /\ Cardinality(asked) \in Nat
        /\ Cardinality(asked) <= Cardinality(pending)
    BY <2>1, PendingFinite, FS_Subset
  <2>3. Cardinality(pending) <= MaxRequests
    BY <1>1 DEF IInv, ConcInv
  <2> QED
    BY <2>2, <2>3, ProcessAssumption
<1>2. IInv => NegotiatedConcurrency
  BY <1>1 DEF NegotiatedConcurrency
<1> QED
  BY <1>2, GenerationConsistent, PTL
=============================================================================
