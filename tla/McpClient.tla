----------------------------- MODULE McpClient -----------------------------
(***************************************************************************)
(* StdioMcpClient (src/src/mcp/stdio_client.py): JSON-RPC with a server    *)
(* that is a subprocess, one line per message. One task, the owner, opens  *)
(* and closes the client (McpToolExecutor's async with, or connect and     *)
(* close themselves); it and other tasks call tools. The server answers    *)
(* late, out of order, twice, with anything, or dies.                      *)
(*                                                                         *)
(* A task moves from one await to the next at once: in particular a        *)
(* request is written and its read begun in one step.                      *)
(***************************************************************************)
EXTENDS Integers, Sequences, SequencesExt

CONSTANTS
    Owner,        \* the task that connects and closes
    Caller,       \* other tasks that use the client
    NoTask,       \* nobody holds the lock
    MaxSpawns,    \* bound of the subprocesses
    MaxRequests,  \* bound of the ids used
    MaxMessages   \* bound of the lines one subprocess writes

Task == Caller \cup {Owner}

ASSUME McpAssumption ==
    /\ Owner \notin Caller
    /\ NoTask \notin Task
    /\ MaxSpawns \in Nat /\ MaxRequests \in Nat /\ MaxMessages \in Nat

VARIABLES
    client,   \* the attributes of the StdioMcpClient
    frame,    \* frame[t]: where task t is, and the request it waits for
    process,  \* the subprocesses spawned, with their pipes
    request   \* the requests written, and what became of them

vars == <<client, frame, process, request>>

-----------------------------------------------------------------------------

\* _proc (0 is None), _handshake_done, the holder of _call_lock, _next_request_id.
ClientType ==
    [proc : Nat, ready : BOOLEAN, lock : Task \cup {NoTask}, nextId : Nat \ {0}]

Calling == {"lock", "reading"}
Closing == {"closing", "waiting", "reaping"}
Busy == Calling \cup Closing \cup {"spawning", "handshake"}

FrameType == [pc : Busy \cup {"out", "in"}, req : Nat]

\* A line that is a result, an error or nothing the client understands, or that makes
\* the reader raise something else (too long, not UTF-8). of is the request it is
\* meant for, 0 for a notification or noise: an honest server copies its id.
MessageType == [of : Nat, id : Nat, kind : {"result", "error", "bad"}]

ProcessType ==
    [state : {"alive", "killed", "dead"},
     shaken : BOOLEAN,                \* its handshake is complete
     asked : Seq(Nat \ {0}),          \* the requests written to its stdin
     sent : Seq(MessageType),         \* the lines it wrote
     read : Nat]                      \* how many of them were read

\* "refused" is McpProtocolError, "raised" any other exception. read is whether a line
\* was read for it, of what the accepted line was meant for.
RequestType ==
    [by : Task, proc : Nat \ {0}, id : Nat \ {0}, call : BOOLEAN, early : BOOLEAN,
     state : {"open", "answered", "refused", "raised"}, read : BOOLEAN, of : Nat]

At(pc) == [pc |-> pc, req |-> 0]

\* Where a task is when it is done with a call.
Rest(t) == IF t = Owner THEN "in" ELSE "out"

Init ==
    /\ client = [proc |-> 0, ready |-> FALSE, lock |-> NoTask, nextId |-> 1]
    /\ frame = [t \in Task |-> At("out")]
    /\ process = <<>>
    /\ request = <<>>

Goes(t, pc) == frame' = [frame EXCEPT ![t] = At(pc)]

Unread(g) == process[g].read < Len(process[g].sent)

NextLine(g) == process[g].sent[process[g].read + 1]

\* _next_id and _write_message: a request of t to g. early is for the properties.
Asked(t, g, call) ==
    [by |-> t, proc |-> g, id |-> client.nextId, call |-> call,
     early |-> call /\ ~process[g].shaken,
     state |-> "open", read |-> FALSE, of |-> 0]

\* Mutant of Matches: the id of the response is not compared.
MatchesAnything(i, m) == m.kind = "result"

Matches(i, m) == m.kind = "result" /\ m.id = request[i].id

\* What a line makes of the request it is read for.
Verdict(i, m) ==
    IF m.kind = "bad" THEN "raised" ELSE IF Matches(i, m) THEN "answered" ELSE "refused"

\* _read_message returns a line, and its checks.
Settled(i, m) ==
    [request EXCEPT ![i] = [@ EXCEPT !.state = Verdict(i, m), !.read = TRUE,
                                     !.of = IF Matches(i, m) THEN m.of ELSE 0]]

\* The task stops waiting before a line came.
GivenUp(i, state) == [request EXCEPT ![i].state = state]

\* Every call that waits for the lock will use an id.
Room ==
    client.nextId + Cardinality({t \in Task : frame[t].pc = "lock"}) <= MaxRequests

-----------------------------------------------------------------------------
(* connect *)

\* A client that is connected raises, and changes nothing.
Connect ==
    /\ frame[Owner].pc = "out"
    /\ client.proc = 0
    /\ Goes(Owner, "spawning")
    /\ UNCHANGED <<client, process, request>>

SpawnFails ==
    /\ frame[Owner].pc = "spawning"
    /\ Goes(Owner, "out")
    /\ UNCHANGED <<client, process, request>>

\* The subprocess is there, and the handshake's request is written.
Spawn ==
    LET g == Len(process) + 1 IN
    /\ frame[Owner].pc = "spawning"
    /\ g <= MaxSpawns
    /\ Room
    /\ process' = Append(process,
          [state |-> "alive", shaken |-> FALSE, asked |-> <<Len(request) + 1>>,
           sent |-> <<>>, read |-> 0])
    /\ request' = Append(request, Asked(Owner, g, FALSE))
    /\ client' = [client EXCEPT !.proc = g, !.nextId = @ + 1]
    /\ frame' = [frame EXCEPT ![Owner] = [pc |-> "handshake", req |-> Len(request) + 1]]

\* Mutant of AfterHandshake: a refused handshake leaves without close().
AfterHandshakeNoClose(state) == IF state = "answered" THEN "in" ELSE "out"

\* McpProtocolError closes; what connect does not foresee leaves the process behind.
AfterHandshake(state) ==
    CASE state = "answered" -> "in"
      [] state = "refused" -> "closing"
      [] state = "raised" -> "out"

\* The line read is the answer, and notifications/initialized is written; or it is not.
HandshakeReads ==
    LET g == client.proc
        i == frame[Owner].req
        state == Verdict(i, NextLine(g))
    IN
    /\ frame[Owner].pc = "handshake"
    /\ Unread(g)
    /\ request' = Settled(i, NextLine(g))
    /\ process' = [process EXCEPT ![g].read = @ + 1, ![g].shaken = (state = "answered")]
    /\ client' = [client EXCEPT !.ready = @ \/ state = "answered"]
    /\ Goes(Owner, AfterHandshake(state))

\* _HANDSHAKE_TIMEOUT, or the end of stdout; or the task is cancelled.
HandshakeGivesUp(state) ==
    /\ frame[Owner].pc = "handshake"
    /\ request' = GivenUp(frame[Owner].req, state)
    /\ Goes(Owner, AfterHandshake(state))
    /\ UNCHANGED <<client, process>>

-----------------------------------------------------------------------------
(* call_tool *)

\* Mutant of MayCall: the handshake is not asked for.
MayCallOnProc == client.proc # 0

\* close does not reset _handshake_done.
MayCall == client.proc # 0 /\ client.ready

BeginCall(t) ==
    /\ frame[t].pc = Rest(t)
    /\ MayCall
    /\ Room
    /\ Goes(t, "lock")
    /\ UNCHANGED <<client, process, request>>

\* The lock is free. By now the client may be closed (the assert raises), or the write
\* may find the process dead: either way nothing is written but an id is used.
WriteFails(t) ==
    /\ frame[t].pc = "lock"
    /\ client.lock = NoTask
    /\ client.proc # 0 => process[client.proc].state # "alive"
    /\ client' = [client EXCEPT !.nextId = @ + 1]
    /\ Goes(t, Rest(t))
    /\ UNCHANGED <<process, request>>

HandshakeWaits == frame[Owner].pc = "handshake"

\* A request is written and its answer waited for.
WriteRequest(t) ==
    LET g == client.proc IN
    /\ frame[t].pc = "lock"
    /\ client.lock = NoTask
    /\ g # 0
    /\ ~HandshakeWaits
    /\ request' = Append(request, Asked(t, g, TRUE))
    /\ process' = [process EXCEPT ![g].asked = Append(@, Len(request) + 1)]
    /\ client' = [client EXCEPT !.nextId = @ + 1, !.lock = t]
    /\ frame' = [frame EXCEPT ![t] = [pc |-> "reading", req |-> Len(request) + 1]]

\* The same beside a handshake, which the lock does not cover: a line that is there
\* is taken from the handshake, and if there is none the second reader raises.
WriteBesideHandshake(t) ==
    LET g == client.proc
        i == Len(request) + 1
        m == NextLine(g)
        id == client.nextId
        ok == m.kind = "result" /\ m.id = id
    IN
    /\ frame[t].pc = "lock"
    /\ client.lock = NoTask
    /\ g # 0
    /\ HandshakeWaits
    /\ IF Unread(g)
       THEN /\ request' = Append(request,
                  [Asked(t, g, TRUE) EXCEPT
                      !.read = TRUE, !.of = IF ok THEN m.of ELSE 0,
                      !.state = CASE m.kind = "bad" -> "raised"
                                  [] ok -> "answered"
                                  [] OTHER -> "refused"])
            /\ process' = [process EXCEPT ![g].asked = Append(@, i), ![g].read = @ + 1]
       ELSE /\ request' = Append(request, [Asked(t, g, TRUE) EXCEPT !.state = "raised"])
            /\ process' = [process EXCEPT ![g].asked = Append(@, i)]
    /\ client' = [client EXCEPT !.nextId = @ + 1]
    /\ Goes(t, Rest(t))

\* A line is there.
ReadAnswer(t) ==
    LET i == frame[t].req
        g == request[i].proc
    IN
    /\ frame[t].pc = "reading"
    /\ Unread(g)
    /\ request' = Settled(i, NextLine(g))
    /\ process' = [process EXCEPT ![g].read = @ + 1]
    /\ client' = [client EXCEPT !.lock = NoTask]
    /\ Goes(t, Rest(t))

\* Mutant of MayGiveUp: wait_for has no timeout, only the end of stdout ends the read.
MayGiveUpAtEnd(i) == process[request[i].proc].state = "dead" /\ ~Unread(request[i].proc)

\* The timeout may strike at any time, the end of stdout too.
MayGiveUp(i) == TRUE

\* Mutant of Released: the lock is not released on the way out.
ReleasedNot == client

Released == [client EXCEPT !.lock = NoTask]

CallGivesUp(t) ==
    /\ frame[t].pc = "reading"
    /\ MayGiveUp(frame[t].req)
    /\ request' = GivenUp(frame[t].req, "refused")
    /\ client' = Released
    /\ Goes(t, Rest(t))
    /\ UNCHANGED process

-----------------------------------------------------------------------------
(* close *)

\* The block is left, or close is called.
BeginClose ==
    /\ \/ frame[Owner].pc = "in"
       \/ frame[Owner].pc = "out" /\ client.proc # 0
    /\ Goes(Owner, "closing")
    /\ UNCHANGED <<client, process, request>>

KillServer ==
    LET g == client.proc IN
    /\ frame[Owner].pc = "closing"
    /\ IF process[g].state = "dead"
       THEN Goes(Owner, "reaping") /\ UNCHANGED process
       ELSE /\ process' = [process EXCEPT ![g].state = "killed"]
            /\ Goes(Owner, "waiting")
    /\ UNCHANGED <<client, request>>

Waited ==
    /\ frame[Owner].pc = "waiting"
    /\ process[client.proc].state = "dead"
    /\ Goes(Owner, "reaping")
    /\ UNCHANGED <<client, process, request>>

\* The stderr reader ends, or is given up after a second. A cancellation that comes
\* here is swallowed.
Reap ==
    /\ frame[Owner].pc = "reaping"
    /\ client' = [client EXCEPT !.proc = 0]
    /\ Goes(Owner, "out")
    /\ UNCHANGED <<process, request>>

-----------------------------------------------------------------------------
(* Cancellation, and the server *)

\* A task is cancelled where it waits. The owner's cancellation leaves the block by
\* way of close, but not from connect, and not from close itself.
CancelCall(t) ==
    /\ frame[t].pc \in Calling
    /\ IF frame[t].pc = "reading"
       THEN /\ request' = GivenUp(frame[t].req, "raised")
            /\ client' = [client EXCEPT !.lock = NoTask]
       ELSE UNCHANGED <<client, request>>
    /\ Goes(t, IF t = Owner THEN "closing" ELSE "out")
    /\ UNCHANGED process

CancelWait ==
    /\ frame[Owner].pc = "waiting"
    /\ Goes(Owner, "out")
    /\ UNCHANGED <<client, process, request>>

Cancel ==
    HandshakeGivesUp("raised") \/ CancelWait \/ \E t \in Task : CancelCall(t)

\* The server writes a line: for a request it was sent, or for none.
Answer(g, of, kind) ==
    /\ process[g].state = "alive"
    /\ Len(process[g].sent) < MaxMessages
    /\ of \in ToSet(process[g].asked) \cup {0}
    /\ process' = [process EXCEPT ![g].sent = Append(@,
          [of |-> of, id |-> IF of = 0 THEN 0 ELSE request[of].id, kind |-> kind])]
    /\ UNCHANGED <<client, frame, request>>

Die(g) ==
    /\ process[g].state # "dead"
    /\ process' = [process EXCEPT ![g].state = "dead"]
    /\ UNCHANGED <<client, frame, request>>

Server ==
    \E g \in DOMAIN process :
        \/ Die(g)
        \/ \E of \in 0..Len(request), kind \in {"result", "error", "bad"} :
               Answer(g, of, kind)

OwnerStep ==
    \/ Spawn \/ SpawnFails \/ HandshakeReads \/ HandshakeGivesUp("refused")
    \/ KillServer \/ Waited \/ Reap

CallStep(t) ==
    \/ WriteRequest(t) \/ WriteBesideHandshake(t) \/ WriteFails(t)
    \/ ReadAnswer(t) \/ CallGivesUp(t)

Next ==
    \/ Connect \/ OwnerStep \/ BeginClose \/ Cancel \/ Server
    \/ \E t \in Task : BeginCall(t) \/ CallStep(t)

Spec == Init /\ [][Next]_vars

\* The event loop resumes what can go on, wait_for's timers among it, and a killed
\* process ends. The server owes nothing.
Fairness ==
    /\ WF_vars(OwnerStep)
    /\ \A t \in Task : WF_vars(CallStep(t))
    /\ \A g \in 1..MaxSpawns :
           WF_vars(g \in DOMAIN process /\ process[g].state = "killed" /\ Die(g))

FairSpec == Spec /\ Fairness

-----------------------------------------------------------------------------
(* Properties *)

\* The variables hold what attributes, frames and pipes can hold, and the lock is
\* held exactly by the task that reads.
TypeOK ==
    /\ client \in ClientType
    /\ frame \in [Task -> FrameType]
    /\ process \in Seq(ProcessType)
    /\ request \in Seq(RequestType)
    /\ \A t \in Task : client.lock = t <=> frame[t].pc = "reading"

\* A call or a handshake that returns a result returns the one meant for its own
\* request, whatever the server sends and whatever an abandoned call left in the pipe.
AnswersAreOwn ==
    \A i \in DOMAIN request : request[i].state = "answered" => request[i].of = i

\* Once the owner is out, by whatever exception, no server of its client lives on,
\* unless the handshake ended in an exception that connect does not foresee or in a
\* cancellation: __aexit__ does not run then.
HandshakeOf(g) == process[g].asked[1]

NoProcessLeft ==
    \A g \in DOMAIN process :
        process[g].state = "alive" /\ frame[Owner].pc \in {"out", "spawning"} =>
            client.proc = g /\ request[HandshakeOf(g)].state = "raised"

\* A request that was given up after its write leaves its answer in the pipe: from
\* then on a server that answers everything in order is one answer behind, and no
\* later call of the connection succeeds.
Orderly(g) ==
    \A k \in DOMAIN process[g].sent :
        k \in DOMAIN process[g].asked /\ process[g].sent[k].of = process[g].asked[k]

Abandoned(i) == request[i].state # "open" /\ ~request[i].read

TimeoutSpoilsTheRest ==
    \A i, j \in DOMAIN request :
        i < j /\ request[i].proc = request[j].proc /\ Abandoned(i)
            /\ Orderly(request[j].proc)
        => request[j].state # "answered"

\* No tools/call is written before the handshake of its server is complete, unless
\* the client was connected before: _handshake_done then still stands.
CallsFollowHandshake ==
    \A i \in DOMAIN request :
        request[i].early => \E g \in 1..(request[i].proc - 1) : process[g].shaken

\* Whatever the tasks, the server and the cancellations do, the client is the one of
\* RemoteCalls: one server at a time, one request of it at a time, and no request is
\* answered but with a result the server gave for it.
Standing(state) ==
    CASE state = "open" -> "waits"
      [] state = "answered" -> "answered"
      [] state \in {"refused", "raised"} -> "fails"

Calls ==
    [i \in DOMAIN request |->
        [on |-> request[i].proc, state |-> Standing(request[i].state)]]

Alive == {g \in DOMAIN process : process[g].state = "alive"}

Given ==
    {i \in DOMAIN request :
        \E g \in DOMAIN process : \E k \in DOMAIN process[g].sent :
            process[g].sent[k].of = i /\ process[g].sent[k].kind = "result"}

Remote == INSTANCE RemoteCalls
            WITH opened <- Len(process), up <- Alive, calls <- Calls, given <- Given

CallsRemotely == Remote!Spec

\* connect, close and every call come to an end, whatever the server does.
CallsEnd == \A t \in Task : frame[t].pc \in Busy ~> frame[t].pc \notin Busy
=============================================================================
