--------------------------- MODULE McpClientProofs ---------------------------
(***************************************************************************)
(* Theorems about McpClient, for any tasks, any server and any bounds.     *)
(***************************************************************************)
EXTENDS McpClient, FiniteSetTheorems, TLAPS

-----------------------------------------------------------------------------
(* Types. The client's process is the last one spawned; the owner has one from the    *)
(* handshake until it is reaped; and who waits waits for a request.                   *)

Waiting(t) == frame[t].pc \in {"reading", "handshake"}

References ==
    /\ client.proc \in {0, Len(process)}
    /\ frame[Owner].pc = "spawning" => client.proc = 0
    /\ frame[Owner].pc \notin {"out", "spawning"} => client.proc # 0
    /\ \A i \in DOMAIN request : request[i].proc \in DOMAIN process
    /\ \A t \in Task : Waiting(t) =>
          /\ frame[t].req \in DOMAIN request
          /\ request[frame[t].req].by = t
          /\ request[frame[t].req].state = "open" /\ ~request[frame[t].req].read
    /\ frame[Owner].pc = "handshake" => request[frame[Owner].req].proc = client.proc
    /\ \A t \in Caller : frame[t].pc \in {"out", "lock", "reading"}

TypeInv == TypeOK /\ References

LEMMA TaskTypes ==
    Owner \in Task /\ NoTask \notin Task /\ \A t \in Task : t = Owner \/ t \in Caller
BY McpAssumption DEF Task

LEMMA AtType ==
    ASSUME NEW pc \in Busy \cup {"out", "in"}
    PROVE  At(pc) \in FrameType /\ At(pc).pc = pc
BY DEF At, FrameType

\* A task that goes somewhere.
LEMMA GoesStep ==
    ASSUME TypeOK, NEW t \in Task, NEW pc \in Busy \cup {"out", "in"}, Goes(t, pc)
    PROVE  /\ frame' \in [Task -> FrameType]
           /\ frame'[t].pc = pc
           /\ \A s \in Task : s # t => frame'[s] = frame[s]
BY AtType DEF Goes, TypeOK

LEMMA WaitsStep ==
    ASSUME TypeOK, NEW t \in Task, NEW pc \in {"reading", "handshake"}, NEW i \in Nat,
           frame' = [frame EXCEPT ![t] = [pc |-> pc, req |-> i]]
    PROVE  /\ frame' \in [Task -> FrameType]
           /\ frame'[t].pc = pc /\ frame'[t].req = i
           /\ \A s \in Task : s # t => frame'[s] = frame[s]
<1>1. [pc |-> pc, req |-> i] \in FrameType
  BY DEF FrameType, Busy, Calling
<1> QED
  BY <1>1 DEF TypeOK

\* The processes and the requests there are.
LEMMA Indices ==
    ASSUME TypeInv
    PROVE  /\ Len(process) \in Nat /\ DOMAIN process = 1..Len(process)
           /\ Len(request) \in Nat /\ DOMAIN request = 1..Len(request)
           /\ \A g \in DOMAIN process : process[g] \in ProcessType
           /\ \A i \in DOMAIN request : request[i] \in RequestType
           /\ client.proc # 0 => client.proc \in DOMAIN process
BY DEF TypeInv, TypeOK, References

LEMMA LineType ==
    ASSUME TypeInv, NEW g \in DOMAIN process, Unread(g)
    PROVE  /\ NextLine(g) \in MessageType
           /\ process[g].read + 1 \in DOMAIN process[g].sent
<1>1. process[g] \in ProcessType
  BY Indices
<1>2. process[g].sent \in Seq(MessageType) /\ process[g].read \in Nat
  BY <1>1 DEF ProcessType
<1>3. process[g].read + 1 \in 1..Len(process[g].sent)
  BY <1>2 DEF Unread
<1> QED
  BY <1>2, <1>3 DEF NextLine

-----------------------------------------------------------------------------
(* The steps, by what they do to requests and pipes. *)

SamePipes(g) ==
    process'[g].asked = process[g].asked /\ process'[g].sent = process[g].sent

\* Neither a request nor a line.
QuietStep ==
    /\ request' = request
    /\ DOMAIN process' = DOMAIN process
    /\ \A g \in DOMAIN process : SamePipes(g) /\ process'[g].read = process[g].read
    /\ client'.nextId \in Nat \ {0} /\ client.nextId <= client'.nextId

\* Process g writes line m.
LineStep(g, m) ==
    /\ request' = request
    /\ DOMAIN process' = DOMAIN process
    /\ \A h \in DOMAIN process : /\ process'[h].asked = process[h].asked
                                 /\ process'[h].read = process[h].read
                                 /\ h # g => process'[h].sent = process[h].sent
    /\ process'[g].sent = Append(process[g].sent, m)
    /\ client'.nextId = client.nextId
    /\ \/ m.of = 0 /\ m.id = 0
       \/ /\ \E k \in DOMAIN process[g].asked : process[g].asked[k] = m.of
          /\ m.id = request[m.of].id

\* Process Len(process) + 1 begins, with its handshake r.
SpawnStep(r) ==
    LET g == Len(process) + 1 IN
    /\ request' = Append(request, r)
    /\ r.proc = g /\ r.id = client.nextId /\ r.by = Owner
    /\ r.state = "open" /\ ~r.read /\ ~r.call /\ ~r.early
    /\ client'.nextId = client.nextId + 1
    /\ DOMAIN process' = 1..g
    /\ \A h \in DOMAIN process : SamePipes(h) /\ process'[h].read = process[h].read
    /\ process'[g].asked = <<Len(request) + 1>>
    /\ process'[g].sent = <<>> /\ process'[g].read = 0

\* Request r is written to g, and perhaps a line read for it at once.
WriteStep(g, r) ==
    /\ request' = Append(request, r)
    /\ r.proc = g /\ r.id = client.nextId
    /\ r.early => ~process[g].shaken
    /\ r.read => Unread(g)
    /\ r.state = "answered" => r.read /\ NextLine(g).id = r.id
    /\ client'.nextId = client.nextId + 1
    /\ DOMAIN process' = DOMAIN process
    /\ \A h \in DOMAIN process : /\ process'[h].sent = process[h].sent
                                 /\ h # g => /\ process'[h].asked = process[h].asked
                                             /\ process'[h].read = process[h].read
    /\ process'[g].asked = Append(process[g].asked, Len(request) + 1)
    /\ process'[g].read = process[g].read + (IF r.read THEN 1 ELSE 0)

\* Request i, for which a task waits, becomes r: a line was read for it, or it is given up.
SettleStep(i, r) ==
    LET g == request[i].proc IN
    /\ request' = [request EXCEPT ![i] = r]
    /\ r.by = request[i].by /\ r.proc = g /\ r.id = request[i].id
    /\ r.early = request[i].early
    /\ r.state # "open"
    /\ r.read => Unread(g)
    /\ r.state = "answered" =>
          /\ r.read /\ NextLine(g).id = r.id /\ r.of = NextLine(g).of
          /\ NextLine(g).kind = "result"
    /\ client'.nextId = client.nextId
    /\ DOMAIN process' = DOMAIN process
    /\ \A h \in DOMAIN process : SamePipes(h) /\ (h # g => process'[h].read = process[h].read)
    /\ process'[g].read = process[g].read + (IF r.read THEN 1 ELSE 0)
    /\ \E t \in Task : Waiting(t) /\ frame[t].req = i

PipeStep ==
    \/ QuietStep
    \/ \E g \in DOMAIN process, m \in MessageType : LineStep(g, m)
    \/ \E r \in RequestType : SpawnStep(r)
    \/ \E g \in DOMAIN process, r \in RequestType : WriteStep(g, r)
    \/ \E i \in DOMAIN request, r \in RequestType : SettleStep(i, r)

LEMMA QuietSteps ==
    ASSUME TypeInv, request' = request, process' = process,
           client'.nextId \in {client.nextId, client.nextId + 1}
    PROVE  QuietStep
<1>1. client.nextId \in Nat \ {0}
  BY DEF TypeInv, TypeOK, ClientType
<1> QED
  BY <1>1 DEF QuietStep, SamePipes

LEMMA ServerSteps ==
    ASSUME TypeInv, Server
    PROVE  PipeStep
<1>1. ASSUME NEW g \in DOMAIN process, Die(g) PROVE QuietStep
  <2>1. /\ process' = [process EXCEPT ![g].state = "dead"]
        /\ request' = request /\ client' = client
    BY <1>1 DEF Die
  <2>2. process[g] \in ProcessType /\ client.nextId \in Nat \ {0}
    BY Indices DEF TypeInv, TypeOK, ClientType
  <2> QED
    BY <2>1, <2>2 DEF QuietStep, SamePipes, ProcessType
<1>2. ASSUME NEW g \in DOMAIN process, NEW of \in 0..Len(request),
             NEW kind \in {"result", "error", "bad"}, Answer(g, of, kind)
      PROVE  \E m \in MessageType : LineStep(g, m)
  <2>1. PICK m : m = [of |-> of, id |-> IF of = 0 THEN 0 ELSE request[of].id, kind |-> kind]
    OBVIOUS
  <2>2. of # 0 => of \in DOMAIN request /\ request[of].id \in Nat
    BY Indices DEF RequestType
  <2>3. m \in MessageType
    BY <2>1, <2>2, Indices DEF MessageType
  <2>4. /\ process' = [process EXCEPT ![g].sent = Append(@, m)]
        /\ request' = request /\ client' = client
        /\ of \in ToSet(process[g].asked) \cup {0}
    BY <1>2, <2>1 DEF Answer
  <2>5. process[g] \in ProcessType
    BY Indices
  <2>6. of = 0 \/ \E k \in DOMAIN process[g].asked : process[g].asked[k] = of
    BY <2>4 DEF ToSet
  <2>7. \/ m.of = 0 /\ m.id = 0
        \/ /\ \E k \in DOMAIN process[g].asked : process[g].asked[k] = m.of
           /\ m.id = request[m.of].id
    BY <2>1, <2>6
  <2> QED
    BY <2>3, <2>4, <2>5, <2>7 DEF LineStep, ProcessType
<1> QED
  BY <1>1, <1>2 DEF Server, PipeStep

\* A request as it is written.
LEMMA AskedType ==
    ASSUME TypeInv, NEW t \in Task, NEW g \in Nat \ {0}, NEW call \in BOOLEAN,
           call => g \in DOMAIN process
    PROVE  LET r == Asked(t, g, call) IN
           /\ r \in RequestType
           /\ r.by = t /\ r.proc = g /\ r.id = client.nextId /\ r.call = call
           /\ r.early = (call /\ ~process[g].shaken)
           /\ r.state = "open" /\ ~r.read
<1>1. client.nextId \in Nat \ {0} /\ (call /\ ~process[g].shaken) \in BOOLEAN
  BY DEF TypeInv, TypeOK, ClientType
<1> QED
  BY <1>1 DEF Asked, RequestType

LEMMA SpawnSteps ==
    ASSUME TypeInv, Spawn
    PROVE  \E r \in RequestType : SpawnStep(r)
<1>1. PICK g : g = Len(process) + 1
  OBVIOUS
<1>2. PICK r \in RequestType :
          /\ r = Asked(Owner, g, FALSE)
          /\ r.by = Owner /\ r.proc = g /\ r.id = client.nextId /\ r.call = FALSE
          /\ r.early = FALSE /\ r.state = "open" /\ ~r.read
  <2>1. g \in Nat \ {0} /\ Owner \in Task /\ FALSE \in BOOLEAN
    BY <1>1, Indices, TaskTypes
  <2>2. PICK r : r = Asked(Owner, g, FALSE)
    OBVIOUS
  <2>3. /\ r \in RequestType /\ r.by = Owner /\ r.proc = g /\ r.id = client.nextId
        /\ r.call = FALSE /\ r.early = FALSE /\ r.state = "open" /\ ~r.read
    BY <2>1, <2>2, AskedType
  <2> QED
    BY <2>2, <2>3
<1>3. PICK p : p = [state |-> "alive", shaken |-> FALSE, asked |-> <<Len(request) + 1>>,
                    sent |-> <<>>, read |-> 0]
  OBVIOUS
<1>4. process' = Append(process, p) /\ request' = Append(request, r)
  BY <1>1, <1>2, <1>3 DEF Spawn
<1>5. client'.nextId = client.nextId + 1
  BY DEF Spawn, TypeInv, TypeOK, ClientType
<1>6. /\ DOMAIN process' = 1..g /\ process'[g] = p
      /\ \A h \in DOMAIN process : process'[h] = process[h]
  BY <1>1, <1>4, Indices DEF TypeInv, TypeOK
<1>7. p.asked = <<Len(request) + 1>> /\ p.sent = <<>> /\ p.read = 0
  BY <1>3
<1> QED
  BY <1>1, <1>2, <1>4, <1>5, <1>6, <1>7 DEF SpawnStep, SamePipes

\* A client that may write has a process.
LEMMA ClientStep ==
    ASSUME TypeInv
    PROVE  /\ \A l \in Task \cup {NoTask} :
                 [client EXCEPT !.nextId = @ + 1, !.lock = l].nextId = client.nextId + 1
           /\ [client EXCEPT !.nextId = @ + 1].nextId = client.nextId + 1
           /\ \A l \in Task \cup {NoTask} : [client EXCEPT !.lock = l].nextId = client.nextId
           /\ \A b \in BOOLEAN : [client EXCEPT !.ready = b].nextId = client.nextId
BY DEF TypeInv, TypeOK, ClientType

\* The pipes of g after a write, with a line read or not.
LEMMA WritePipes ==
    ASSUME TypeInv, NEW g \in DOMAIN process, NEW i, NEW n \in {0, 1},
           \/ n = 0 /\ process' = [process EXCEPT ![g].asked = Append(@, i)]
           \/ n = 1 /\ process' = [process EXCEPT ![g].asked = Append(@, i), ![g].read = @ + 1]
    PROVE  /\ DOMAIN process' = DOMAIN process
           /\ \A h \in DOMAIN process : h # g => process'[h] = process[h]
           /\ process'[g].asked = Append(process[g].asked, i)
           /\ process'[g].sent = process[g].sent
           /\ process'[g].read = process[g].read + n
<1>1. process[g] \in ProcessType
  BY Indices
<1>2. CASE n = 0 /\ process' = [process EXCEPT ![g].asked = Append(@, i)]
  <2>1. PICK p : p = [process[g] EXCEPT !.asked = Append(@, i)]
    OBVIOUS
  <2>2. /\ p.asked = Append(process[g].asked, i) /\ p.sent = process[g].sent
        /\ p.read = process[g].read /\ process[g].read \in Nat
    BY <1>1, <2>1 DEF ProcessType
  <2>3. process' = [process EXCEPT ![g] = p]
    BY <1>2, <2>1
  <2>4. process[g].read = process[g].read + n
    BY <1>2, <2>2
  <2> QED
    BY <2>2, <2>3, <2>4
<1>3. CASE n = 1 /\ process' = [process EXCEPT ![g].asked = Append(@, i), ![g].read = @ + 1]
  <2>1. PICK p : p = [process[g] EXCEPT !.asked = Append(@, i), !.read = @ + 1]
    OBVIOUS
  <2>2. /\ p.asked = Append(process[g].asked, i) /\ p.sent = process[g].sent
        /\ p.read = process[g].read + 1
    BY <1>1, <2>1 DEF ProcessType
  <2>3. process' = [process EXCEPT ![g] = p]
    BY <1>3, <2>1
  <2> QED
    BY <1>3, <2>2, <2>3
<1> QED
  BY <1>2, <1>3

LEMMA WriteSteps ==
    ASSUME TypeInv, NEW t \in Task, WriteRequest(t)
    PROVE  \E r \in RequestType :
               WriteStep(client.proc, r) /\ r.by = t /\ r.state = "open" /\ ~r.read /\ r.call
<1>0. PICK g : g = client.proc
  OBVIOUS
<1>1. g \in Nat \ {0} /\ g \in DOMAIN process
  BY <1>0, Indices DEF WriteRequest
<1>2. PICK r \in RequestType :
          /\ r = Asked(t, g, TRUE)
          /\ r.by = t /\ r.proc = g /\ r.id = client.nextId /\ r.call
          /\ r.early = ~process[g].shaken /\ r.state = "open" /\ ~r.read
  BY <1>1, AskedType
<1>3. /\ request' = Append(request, r)
      /\ process' = [process EXCEPT ![g].asked = Append(@, Len(request) + 1)]
      /\ client' = [client EXCEPT !.nextId = @ + 1, !.lock = t]
  BY <1>0, <1>2 DEF WriteRequest
<1>4. /\ DOMAIN process' = DOMAIN process
      /\ \A h \in DOMAIN process : h # g => process'[h] = process[h]
      /\ process'[g].asked = Append(process[g].asked, Len(request) + 1)
      /\ process'[g].sent = process[g].sent
      /\ process'[g].read = process[g].read + 0
  BY <1>1, <1>3, WritePipes
<1>5. client'.nextId = client.nextId + 1
  BY <1>3, ClientStep
<1> QED
  BY <1>0, <1>2, <1>3, <1>4, <1>5 DEF WriteStep

LEMMA BesideSteps ==
    ASSUME TypeInv, NEW t \in Task, WriteBesideHandshake(t)
    PROVE  \E r \in RequestType : WriteStep(client.proc, r) /\ r.state # "open" /\ r.call
<1>0. PICK g, i : g = client.proc /\ i = Len(request) + 1
  OBVIOUS
<1>1. g \in Nat \ {0} /\ g \in DOMAIN process
  BY <1>0, Indices DEF WriteBesideHandshake
<1>2. PICK q \in RequestType :
          /\ q = Asked(t, g, TRUE)
          /\ q.by = t /\ q.proc = g /\ q.id = client.nextId /\ q.call
          /\ q.early = ~process[g].shaken /\ q.state = "open" /\ ~q.read
  BY <1>1, AskedType
<1>3. client'.nextId = client.nextId + 1
  BY ClientStep DEF WriteBesideHandshake
<1>4. CASE Unread(g)
  <2>1. PICK m \in MessageType : m = NextLine(g)
    BY <1>1, <1>4, LineType
  <2>2. PICK r : r = [q EXCEPT
            !.read = TRUE,
            !.of = IF m.kind = "result" /\ m.id = client.nextId THEN m.of ELSE 0,
            !.state = CASE m.kind = "bad" -> "raised"
                        [] m.kind = "result" /\ m.id = client.nextId -> "answered"
                        [] OTHER -> "refused"]
    OBVIOUS
  <2>3. request' = Append(request, r)
    BY <1>0, <1>2, <1>4, <2>1, <2>2 DEF WriteBesideHandshake
  <2>4. process' = [process EXCEPT ![g].asked = Append(@, i), ![g].read = @ + 1]
    BY <1>0, <1>4 DEF WriteBesideHandshake
  <2>5. /\ DOMAIN process' = DOMAIN process
        /\ \A h \in DOMAIN process : h # g => process'[h] = process[h]
        /\ process'[g].asked = Append(process[g].asked, i)
        /\ process'[g].sent = process[g].sent
        /\ process'[g].read = process[g].read + 1
    BY <1>1, <2>4, WritePipes
  <2>6. /\ r \in RequestType /\ r.proc = g /\ r.id = client.nextId /\ r.call /\ r.read
        /\ r.early = ~process[g].shaken
        /\ r.state # "open" /\ (r.state = "answered" => m.id = client.nextId)
    BY <1>2, <2>1, <2>2 DEF RequestType, MessageType
  <2>7. WriteStep(g, r)
    BY <1>0, <1>3, <1>4, <2>1, <2>3, <2>5, <2>6 DEF WriteStep
  <2> QED
    BY <1>0, <2>6, <2>7
<1>5. CASE ~Unread(g)
  <2>1. PICK r : r = [q EXCEPT !.state = "raised"]
    OBVIOUS
  <2>2. /\ request' = Append(request, r)
        /\ process' = [process EXCEPT ![g].asked = Append(@, i)]
    BY <1>0, <1>2, <1>5, <2>1 DEF WriteBesideHandshake
  <2>3. /\ DOMAIN process' = DOMAIN process
        /\ \A h \in DOMAIN process : h # g => process'[h] = process[h]
        /\ process'[g].asked = Append(process[g].asked, i)
        /\ process'[g].sent = process[g].sent
        /\ process'[g].read = process[g].read + 0
    BY <1>1, <2>2, WritePipes
  <2>4. /\ r \in RequestType /\ r.proc = g /\ r.id = client.nextId /\ r.call /\ ~r.read
        /\ r.early = ~process[g].shaken /\ r.state = "raised"
    BY <1>2, <2>1 DEF RequestType
  <2>5. WriteStep(g, r)
    BY <1>0, <1>3, <2>2, <2>3, <2>4 DEF WriteStep
  <2> QED
    BY <1>0, <2>4, <2>5
<1> QED
  BY <1>4, <1>5

\* What becomes of the request a task waits for.
LEMMA GivenUpStep ==
    ASSUME TypeInv, NEW t \in Task, Waiting(t), NEW state \in {"refused", "raised"},
           request' = GivenUp(frame[t].req, state), process' = process,
           client'.nextId = client.nextId
    PROVE  \E r \in RequestType : SettleStep(frame[t].req, r) /\ r.state = state
<1>1. PICK i \in DOMAIN request : i = frame[t].req
  BY DEF TypeInv, References
<1>2. PICK r : r = [request[i] EXCEPT !.state = state]
  OBVIOUS
<1>3. request[i] \in RequestType
  BY Indices
<1>4. /\ r \in RequestType /\ r.by = request[i].by /\ r.proc = request[i].proc
      /\ r.id = request[i].id /\ r.early = request[i].early /\ r.state = state
      /\ r.read = request[i].read
  BY <1>2, <1>3 DEF RequestType
<1>5. request' = [request EXCEPT ![i] = r] /\ ~r.read
  BY <1>1, <1>2, <1>4 DEF GivenUp, TypeInv, References
<1>6. request[i].proc \in DOMAIN process /\ process[request[i].proc] \in ProcessType
  BY Indices DEF TypeInv, References
<1>7. process[request[i].proc].read = process[request[i].proc].read + 0
  BY <1>6 DEF ProcessType
<1> QED
  BY <1>1, <1>4, <1>5, <1>7 DEF SettleStep, SamePipes

LEMMA SettledStep ==
    ASSUME TypeInv, NEW t \in Task, Waiting(t), NEW g, g = request[frame[t].req].proc,
           Unread(g), request' = Settled(frame[t].req, NextLine(g)),
           DOMAIN process' = DOMAIN process,
           \A h \in DOMAIN process : SamePipes(h) /\ (h # g => process'[h].read = process[h].read),
           process'[g].read = process[g].read + 1,
           client'.nextId = client.nextId
    PROVE  \E r \in RequestType : /\ SettleStep(frame[t].req, r)
                                  /\ r.state = Verdict(frame[t].req, NextLine(g))
<1>1. PICK i \in DOMAIN request : i = frame[t].req
  BY DEF TypeInv, References
<1>2. g \in DOMAIN process
  BY <1>1 DEF TypeInv, References
<1>3. PICK m \in MessageType : m = NextLine(g)
  BY <1>2, LineType
<1>4. PICK r : r = [request[i] EXCEPT !.state = Verdict(i, m), !.read = TRUE,
                                      !.of = IF Matches(i, m) THEN m.of ELSE 0]
  OBVIOUS
<1>5. request[i] \in RequestType /\ m.of \in Nat
  BY <1>3, Indices DEF MessageType
<1>6. /\ Verdict(i, m) \in {"answered", "refused", "raised"}
      /\ Verdict(i, m) = "answered" => Matches(i, m)
  BY DEF Verdict
<1>7. /\ r \in RequestType /\ r.by = request[i].by /\ r.proc = request[i].proc
      /\ r.id = request[i].id /\ r.early = request[i].early /\ r.state = Verdict(i, m)
      /\ r.read /\ (Matches(i, m) => r.of = m.of)
  BY <1>4, <1>5, <1>6 DEF RequestType
<1>8. request' = [request EXCEPT ![i] = r]
  BY <1>1, <1>3, <1>4 DEF Settled
<1>9. r.state = "answered" => m.id = r.id /\ r.of = m.of /\ m.kind = "result"
  BY <1>6, <1>7 DEF Matches
<1> QED
  BY <1>1, <1>3, <1>6, <1>7, <1>8, <1>9 DEF SettleStep

-----------------------------------------------------------------------------
(* That every step keeps the types: what task t, the only one that moves, has to show. *)

LEMMA Concludes ==
    ASSUME TypeInv, NEW t \in Task,
           client' \in ClientType, frame' \in [Task -> FrameType],
           process' \in Seq(ProcessType), request' \in Seq(RequestType),
           \A s \in Task : s # t => /\ frame'[s] = frame[s]
                                    /\ client'.lock = s <=> client.lock = s,
           client'.lock = t <=> frame'[t].pc = "reading",
           Len(process) <= Len(process'),
           \A j \in DOMAIN request : /\ j \in DOMAIN request'
                                     /\ request'[j].proc = request[j].proc
                                     /\ request[j].by # t => request'[j] = request[j],
           \A j \in DOMAIN request' \ DOMAIN request : request'[j].proc \in DOMAIN process',
           client'.proc \in {0, Len(process')},
           t # Owner => client'.proc = client.proc /\ frame'[t].pc \in {"out", "lock", "reading"},
           t = Owner => /\ frame'[t].pc = "spawning" => client'.proc = 0
                        /\ frame'[t].pc \notin {"out", "spawning"} => client'.proc # 0
                        /\ frame'[t].pc = "handshake" =>
                              request'[frame'[t].req].proc = client'.proc,
           frame'[t].pc \in {"reading", "handshake"} =>
               /\ frame'[t].req \in DOMAIN request'
               /\ request'[frame'[t].req].by = t
               /\ request'[frame'[t].req].state = "open" /\ ~request'[frame'[t].req].read
    PROVE  TypeInv'
<1>1. DOMAIN process \subseteq DOMAIN process'
  BY Indices DEF TypeInv, TypeOK
<1>2. \A s \in Task : client'.lock = s <=> frame'[s].pc = "reading"
  BY DEF TypeInv, TypeOK
<1>3. TypeOK'
  BY <1>2 DEF TypeOK
<1>4. \A j \in DOMAIN request' : request'[j].proc \in DOMAIN process'
  BY <1>1 DEF TypeInv, References
<1>5. ASSUME NEW s \in Task, frame'[s].pc \in {"reading", "handshake"}
      PROVE  /\ frame'[s].req \in DOMAIN request'
             /\ request'[frame'[s].req].by = s
             /\ request'[frame'[s].req].state = "open" /\ ~request'[frame'[s].req].read
  <2>1. CASE s = t
    BY <1>5, <2>1
  <2>2. CASE s # t
    <3>1. frame'[s] = frame[s] /\ Waiting(s)
      BY <1>5, <2>2 DEF Waiting
    <3>2. frame[s].req \in DOMAIN request /\ request[frame[s].req].by = s
      BY <3>1 DEF TypeInv, References
    <3>3. request'[frame[s].req] = request[frame[s].req]
      BY <2>2, <3>2
    <3> QED
      BY <3>1, <3>2, <3>3 DEF TypeInv, References
  <2> QED
    BY <2>1, <2>2
<1>6. /\ frame'[Owner].pc = "spawning" => client'.proc = 0
      /\ frame'[Owner].pc \notin {"out", "spawning"} => client'.proc # 0
      /\ frame'[Owner].pc = "handshake" => request'[frame'[Owner].req].proc = client'.proc
  <2>1. CASE t = Owner
    BY <2>1
  <2>2. CASE t # Owner
    <3>1. frame'[Owner] = frame[Owner] /\ client'.proc = client.proc
      BY <2>2, TaskTypes
    <3>2. frame[Owner].pc = "handshake" =>
              /\ frame[Owner].req \in DOMAIN request
              /\ request[frame[Owner].req].proc = client.proc
      BY TaskTypes DEF TypeInv, References, Waiting
    <3> QED
      BY <3>1, <3>2 DEF TypeInv, References
  <2> QED
    BY <2>1, <2>2
<1>7. \A c \in Caller : frame'[c].pc \in {"out", "lock", "reading"}
  <2> SUFFICES ASSUME NEW c \in Caller PROVE frame'[c].pc \in {"out", "lock", "reading"}
    OBVIOUS
  <2>1. c # Owner /\ c \in Task
    BY McpAssumption DEF Task
  <2>2. CASE c = t
    BY <2>1, <2>2
  <2>3. CASE c # t
    BY <2>1, <2>3 DEF TypeInv, References
  <2> QED
    BY <2>2, <2>3
<1>8. References'
  BY <1>4, <1>5, <1>6, <1>7 DEF References, Waiting
<1> QED
  BY <1>3, <1>8 DEF TypeInv

\* A step that leaves the requests alone.
LEMMA QuietTypes ==
    ASSUME TypeInv, NEW t \in Task,
           NEW pc \in (Busy \cup {"out", "in"}) \ {"reading", "handshake"}, Goes(t, pc),
           frame[t].pc # "reading", request' = request,
           process' \in Seq(ProcessType), Len(process') = Len(process),
           client' \in ClientType, client'.lock = client.lock,
           client'.proc \in {0, Len(process)},
           t # Owner => client'.proc = client.proc /\ pc \in {"out", "lock"},
           t = Owner => /\ pc = "spawning" => client'.proc = 0
                        /\ pc \notin {"out", "spawning"} => client'.proc # 0
    PROVE  TypeInv'
<1>1. /\ frame' \in [Task -> FrameType] /\ frame'[t].pc = pc
      /\ \A s \in Task : s # t => frame'[s] = frame[s]
  BY GoesStep DEF TypeInv
<1>2. client'.lock = t <=> frame'[t].pc = "reading"
  BY <1>1 DEF TypeInv, TypeOK
<1>3. request' \in Seq(RequestType)
  BY DEF TypeInv, TypeOK
<1>4. Len(process) <= Len(process')
  BY Indices
<1> QED
  BY <1>1, <1>2, <1>3, <1>4, Concludes

\* A step that ends a request, and the wait for it.
LEMMA SettleTypes ==
    ASSUME TypeInv, NEW t \in Task, Waiting(t),
           NEW r \in RequestType, SettleStep(frame[t].req, r),
           NEW pc \in {"out", "in", "closing"}, Goes(t, pc), t # Owner => pc = "out",
           process' \in Seq(ProcessType), Len(process') = Len(process),
           client' \in ClientType, client'.proc = client.proc,
           client'.lock = IF frame[t].pc = "reading" THEN NoTask ELSE client.lock
    PROVE  TypeInv'
<1>1. /\ frame' \in [Task -> FrameType] /\ frame'[t].pc = pc
      /\ \A s \in Task : s # t => frame'[s] = frame[s]
  BY GoesStep DEF TypeInv, Busy, Closing
<1>2. /\ request' \in Seq(RequestType) /\ DOMAIN request' = DOMAIN request
      /\ \A j \in DOMAIN request : /\ request'[j].proc = request[j].proc
                                   /\ request[j].by # t => request'[j] = request[j]
  <2>1. PICK i \in DOMAIN request : i = frame[t].req /\ request[i].by = t
    BY DEF TypeInv, References
  <2>2. request' = [request EXCEPT ![i] = r] /\ r.proc = request[i].proc
    BY <2>1 DEF SettleStep
  <2>3. request \in Seq(RequestType)
    BY DEF TypeInv, TypeOK
  <2> QED
    BY <2>1, <2>2, <2>3
<1>3. \A s \in Task : client.lock = s <=> frame[s].pc = "reading"
  BY DEF TypeInv, TypeOK
<1>4. \A s \in Task : s # t => (client'.lock = s <=> client.lock = s)
  BY <1>3, TaskTypes
<1>5. client'.lock # t
  BY <1>3, TaskTypes
<1>6. t = Owner => client.proc # 0
  BY DEF TypeInv, References, Waiting
<1>7. client'.proc \in {0, Len(process')} /\ Len(process) <= Len(process')
  BY Indices DEF TypeInv, References
<1>8. /\ frame'[t].pc \notin {"reading", "handshake", "spawning"}
      /\ t # Owner => client'.proc = client.proc /\ frame'[t].pc \in {"out", "lock", "reading"}
      /\ t = Owner => client'.proc # 0
      /\ client'.lock = t <=> frame'[t].pc = "reading"
  BY <1>1, <1>5, <1>6
<1>9. \A j \in DOMAIN request' \ DOMAIN request : request'[j].proc \in DOMAIN process'
  BY <1>2
<1>10. \A s \in Task : s # t => /\ frame'[s] = frame[s]
                                /\ client'.lock = s <=> client.lock = s
  BY <1>1, <1>4
<1>11. /\ t = Owner => /\ frame'[t].pc = "spawning" => client'.proc = 0
                       /\ frame'[t].pc \notin {"out", "spawning"} => client'.proc # 0
                       /\ frame'[t].pc = "handshake" =>
                              request'[frame'[t].req].proc = client'.proc
       /\ frame'[t].pc \in {"reading", "handshake"} =>
              /\ frame'[t].req \in DOMAIN request'
              /\ request'[frame'[t].req].by = t
              /\ request'[frame'[t].req].state = "open" /\ ~request'[frame'[t].req].read
  BY <1>8
<1>12. \A j \in DOMAIN request : /\ j \in DOMAIN request'
                                 /\ request'[j].proc = request[j].proc
                                 /\ request[j].by # t => request'[j] = request[j]
  BY <1>2
<1>13. t # Owner => client'.proc = client.proc /\ frame'[t].pc \in {"out", "lock", "reading"}
  BY <1>8
<1> QED
  BY <1>1, <1>2, <1>7, <1>8, <1>9, <1>10, <1>11, <1>12, <1>13, Concludes

\* One process changes.
LEMMA ProcessUpdate ==
    ASSUME TypeInv, NEW g \in DOMAIN process, NEW p \in ProcessType,
           process' = [process EXCEPT ![g] = p]
    PROVE  /\ process' \in Seq(ProcessType) /\ Len(process') = Len(process)
           /\ DOMAIN process' = DOMAIN process /\ process'[g] = p
           /\ \A h \in DOMAIN process : h # g => process'[h] = process[h]
BY DEF TypeInv, TypeOK

LEMMA ClientTypes ==
    ASSUME TypeInv
    PROVE  /\ client \in ClientType
           /\ \A l \in Task \cup {NoTask} : [client EXCEPT !.lock = l] \in ClientType
           /\ \A b \in BOOLEAN : [client EXCEPT !.ready = b] \in ClientType
           /\ [client EXCEPT !.proc = 0] \in ClientType
           /\ [client EXCEPT !.nextId = @ + 1] \in ClientType
           /\ \A l \in Task : [client EXCEPT !.nextId = @ + 1, !.lock = l] \in ClientType
           /\ \A g \in Nat : [client EXCEPT !.proc = g, !.nextId = @ + 1] \in ClientType
<1>1. /\ client \in ClientType /\ client.nextId + 1 \in Nat \ {0} /\ NoTask \in Task \cup {NoTask}
      /\ \A l \in Task : l \in Task \cup {NoTask}
  BY DEF TypeInv, TypeOK, ClientType
<1>2. /\ \A l \in Task \cup {NoTask} : [client EXCEPT !.lock = l] \in ClientType
      /\ \A b \in BOOLEAN : [client EXCEPT !.ready = b] \in ClientType
      /\ [client EXCEPT !.proc = 0] \in ClientType
  BY <1>1 DEF ClientType
<1>3. [client EXCEPT !.nextId = @ + 1] \in ClientType
  BY <1>1 DEF ClientType
<1>4. \A l \in Task : [client EXCEPT !.nextId = @ + 1, !.lock = l] \in ClientType
  BY <1>1 DEF ClientType
<1>5. \A g \in Nat : [client EXCEPT !.proc = g, !.nextId = @ + 1] \in ClientType
  BY <1>1 DEF ClientType
<1> QED
  BY <1>1, <1>2, <1>3, <1>4, <1>5

LEMMA Rests ==
    ASSUME NEW t \in Task
    PROVE  Rest(t) \in {"in", "out"} /\ (t # Owner => Rest(t) = "out")
BY DEF Rest

\* The owner's steps that leave requests and pipes alone.
LEMMA OwnerTypes ==
    ASSUME TypeInv,
           Connect \/ SpawnFails \/ BeginClose \/ Waited \/ CancelWait \/ Reap
    PROVE  TypeInv'
<1>1. /\ Owner \in Task /\ client \in ClientType /\ client.proc \in {0, Len(process)}
      /\ process \in Seq(ProcessType) /\ request \in Seq(RequestType)
      /\ frame[Owner].pc \notin {"out", "spawning"} => client.proc # 0
      /\ frame[Owner].pc = "spawning" => client.proc = 0
  BY TaskTypes DEF TypeInv, TypeOK, References
<1>2. CASE Connect
  <2>1. Goes(Owner, "spawning") /\ "spawning" \in Busy /\ client.proc = 0
    BY <1>2 DEF Connect, Busy
  <2>2. frame[Owner].pc # "reading" /\ UNCHANGED <<client, process, request>>
    BY <1>2 DEF Connect
  <2> QED
    BY <1>1, <2>1, <2>2, QuietTypes
<1>3. CASE SpawnFails \/ CancelWait
  <2>1. /\ Goes(Owner, "out") /\ frame[Owner].pc # "reading"
        /\ UNCHANGED <<client, process, request>>
    BY <1>3 DEF SpawnFails, CancelWait
  <2> QED
    BY <1>1, <2>1, QuietTypes
<1>4. CASE BeginClose
  <2>1. /\ Goes(Owner, "closing") /\ "closing" \in Busy /\ frame[Owner].pc # "reading"
        /\ client.proc # 0 /\ UNCHANGED <<client, process, request>>
    BY <1>1, <1>4 DEF BeginClose, Busy, Closing
  <2> QED
    BY <1>1, <2>1, QuietTypes
<1>5. CASE Waited
  <2>1. /\ Goes(Owner, "reaping") /\ "reaping" \in Busy /\ frame[Owner].pc # "reading"
        /\ client.proc # 0 /\ UNCHANGED <<client, process, request>>
    BY <1>1, <1>5 DEF Waited, Busy, Closing
  <2> QED
    BY <1>1, <2>1, QuietTypes
<1>6. CASE Reap
  <2>1. /\ Goes(Owner, "out") /\ frame[Owner].pc # "reading"
        /\ client' = [client EXCEPT !.proc = 0] /\ UNCHANGED <<process, request>>
    BY <1>6 DEF Reap
  <2>2. client' \in ClientType /\ client'.lock = client.lock /\ client'.proc = 0
    BY <1>1, <2>1, ClientTypes DEF ClientType
  <2> QED
    BY <1>1, <2>1, <2>2, QuietTypes
<1> QED
  BY <1>2, <1>3, <1>4, <1>5, <1>6

LEMMA KillTypes ==
    ASSUME TypeInv, KillServer
    PROVE  TypeInv'
<1>1. /\ Owner \in Task /\ client \in ClientType /\ client.proc \in {0, Len(process)}
      /\ process \in Seq(ProcessType) /\ client.proc # 0 /\ frame[Owner].pc # "reading"
      /\ client.proc \in DOMAIN process /\ UNCHANGED <<client, request>>
  BY TaskTypes, Indices DEF TypeInv, TypeOK, References, KillServer
<1>2. CASE process[client.proc].state = "dead"
  <2>1. Goes(Owner, "reaping") /\ "reaping" \in Busy /\ process' = process
    BY <1>2 DEF KillServer, Busy, Closing
  <2> QED
    BY <1>1, <2>1, QuietTypes
<1>3. CASE process[client.proc].state # "dead"
  <2>1. /\ Goes(Owner, "waiting") /\ "waiting" \in Busy
        /\ process' = [process EXCEPT ![client.proc].state = "killed"]
    BY <1>3 DEF KillServer, Busy, Closing
  <2>2. PICK p : p = [process[client.proc] EXCEPT !.state = "killed"]
    OBVIOUS
  <2>3. p \in ProcessType /\ process' = [process EXCEPT ![client.proc] = p]
    BY <1>1, <2>1, <2>2, Indices DEF ProcessType
  <2>4. process' \in Seq(ProcessType) /\ Len(process') = Len(process)
    BY <1>1, <2>3, ProcessUpdate
  <2> QED
    BY <1>1, <2>1, <2>4, QuietTypes
<1> QED
  BY <1>2, <1>3

\* A call's steps that leave requests and pipes alone.
LEMMA CallTypes ==
    ASSUME TypeInv, NEW t \in Task,
           BeginCall(t) \/ WriteFails(t) \/ (CancelCall(t) /\ frame[t].pc = "lock")
    PROVE  TypeInv'
<1>1. /\ client \in ClientType /\ client.proc \in {0, Len(process)}
      /\ process \in Seq(ProcessType) /\ frame[t].pc # "reading"
      /\ t = Owner => (frame[t].pc \notin {"out", "spawning"} => client.proc # 0)
      /\ UNCHANGED <<process, request>>
  BY Rests DEF TypeInv, TypeOK, References, BeginCall, WriteFails, CancelCall
<1>2. CASE BeginCall(t)
  <2>1. Goes(t, "lock") /\ "lock" \in Busy /\ client.proc # 0 /\ client' = client
    BY <1>2 DEF BeginCall, MayCall, Busy, Calling
  <2> QED
    BY <1>1, <2>1, QuietTypes
<1>3. CASE WriteFails(t)
  <2>1. /\ Goes(t, Rest(t)) /\ frame[t].pc = "lock"
        /\ client' = [client EXCEPT !.nextId = @ + 1]
    BY <1>3 DEF WriteFails
  <2>2. client' \in ClientType /\ client'.lock = client.lock /\ client'.proc = client.proc
    BY <1>1, <2>1, ClientTypes DEF ClientType
  <2>3. Rest(t) \in {"in", "out"} /\ (t # Owner => Rest(t) = "out")
    BY Rests
  <2>4. t = Owner => client.proc # 0
    BY <1>1, <2>1
  <2> QED
    BY <1>1, <2>1, <2>2, <2>3, <2>4, QuietTypes
<1>4. CASE CancelCall(t) /\ frame[t].pc = "lock"
  <2>1. PICK pc : pc = IF t = Owner THEN "closing" ELSE "out"
    OBVIOUS
  <2>2. Goes(t, pc) /\ client' = client /\ pc \in Busy \cup {"out"}
    BY <1>4, <2>1 DEF CancelCall, Busy, Closing
  <2>3. pc \notin {"reading", "handshake", "spawning"} /\ (t # Owner => pc = "out")
    BY <2>1
  <2>4. t = Owner => client.proc # 0
    BY <1>1, <1>4
  <2> QED
    BY <1>1, <2>2, <2>3, <2>4, QuietTypes
<1> QED
  BY <1>2, <1>3, <1>4

\* What the tasks that wait do: they end their request.

LEMMA HandshakeReadsStep ==
    ASSUME TypeInv, HandshakeReads
    PROVE  \E r \in RequestType :
               /\ SettleStep(frame[Owner].req, r)
               /\ Goes(Owner, AfterHandshake(r.state))
               /\ r.state \in {"answered", "refused", "raised"}
               /\ process' \in Seq(ProcessType) /\ Len(process') = Len(process)
               /\ client' \in ClientType /\ client'.proc = client.proc
               /\ client'.lock = client.lock
               /\ client'.ready = (client.ready \/ r.state = "answered")
               /\ \A h \in DOMAIN process :
                      /\ process'[h].state = process[h].state
                      /\ h # client.proc => process'[h].shaken = process[h].shaken
               /\ process'[client.proc].shaken = (r.state = "answered")
<1>1. PICK g, i : g = client.proc /\ i = frame[Owner].req
  OBVIOUS
<1>2. /\ Owner \in Task /\ frame[Owner].pc = "handshake" /\ Waiting(Owner)
      /\ request[i].proc = g /\ i \in DOMAIN request /\ g \in DOMAIN process /\ Unread(g)
  BY <1>1, TaskTypes, Indices DEF HandshakeReads, Waiting, TypeInv, References
<1>3. PICK v : v = Verdict(i, NextLine(g))
  OBVIOUS
<1>4. /\ process' = [process EXCEPT ![g].read = @ + 1, ![g].shaken = (v = "answered")]
      /\ client' = [client EXCEPT !.ready = @ \/ v = "answered"]
      /\ request' = Settled(i, NextLine(g))
      /\ Goes(Owner, AfterHandshake(v))
  BY <1>1, <1>3 DEF HandshakeReads
<1>0. PICK b \in BOOLEAN : b = (v = "answered")
  OBVIOUS
<1>5. PICK p : p = [process[g] EXCEPT !.read = @ + 1, !.shaken = b]
  OBVIOUS
<1>6. /\ process[g] \in ProcessType /\ p \in ProcessType
      /\ p.read = process[g].read + 1 /\ p.shaken = b
      /\ p.asked = process[g].asked /\ p.sent = process[g].sent
      /\ p.state = process[g].state
  <2>1. process[g] \in ProcessType /\ process[g].read + 1 \in Nat
    BY <1>2, Indices DEF ProcessType
  <2>2. PICK q : q = [process[g] EXCEPT !.read = @ + 1]
    OBVIOUS
  <2>3. /\ q \in ProcessType /\ q.read = process[g].read + 1
        /\ q.asked = process[g].asked /\ q.sent = process[g].sent
        /\ q.state = process[g].state
    BY <2>1, <2>2 DEF ProcessType
  <2>4. p = [q EXCEPT !.shaken = b]
    BY <1>5, <2>2
  <2>5. /\ p \in ProcessType /\ p.shaken = b /\ p.read = q.read
        /\ p.asked = q.asked /\ p.sent = q.sent /\ p.state = q.state
    BY <2>3, <2>4 DEF ProcessType
  <2> QED
    BY <2>1, <2>3, <2>5
<1>7. process' = [process EXCEPT ![g] = p]
  BY <1>0, <1>4, <1>5
<1>8. /\ process' \in Seq(ProcessType) /\ Len(process') = Len(process)
      /\ DOMAIN process' = DOMAIN process /\ process'[g] = p
      /\ \A h \in DOMAIN process : h # g => process'[h] = process[h]
  BY <1>2, <1>6, <1>7, ProcessUpdate
<1>9. /\ client' \in ClientType /\ client'.proc = client.proc /\ client'.lock = client.lock
      /\ client'.nextId = client.nextId /\ client'.ready = (client.ready \/ v = "answered")
  <2>1. client \in ClientType /\ (client.ready \/ v = "answered") \in BOOLEAN
    BY ClientTypes DEF ClientType
  <2> QED
    BY <1>4, <2>1, ClientTypes DEF ClientType
<1>10. \E r \in RequestType : SettleStep(i, r) /\ r.state = v
  <2>1. \A h \in DOMAIN process : SamePipes(h) /\ (h # g => process'[h].read = process[h].read)
    BY <1>6, <1>8 DEF SamePipes
  <2>2. process'[g].read = process[g].read + 1
    BY <1>6, <1>8
  <2> QED
    BY <1>1, <1>2, <1>3, <1>4, <1>8, <1>9, <2>1, <2>2, SettledStep
<1>11. v \in {"answered", "refused", "raised"}
  BY <1>3 DEF Verdict
<1> QED
  BY <1>1, <1>0, <1>2, <1>4, <1>6, <1>8, <1>9, <1>10, <1>11

LEMMA HandshakeGivesUpStep ==
    ASSUME TypeInv, NEW state \in {"refused", "raised"}, HandshakeGivesUp(state)
    PROVE  \E r \in RequestType :
               /\ SettleStep(frame[Owner].req, r) /\ r.state = state
               /\ Goes(Owner, AfterHandshake(state)) /\ UNCHANGED <<client, process>>
<1>1. Owner \in Task /\ Waiting(Owner)
  BY TaskTypes DEF HandshakeGivesUp, Waiting
<1> QED
  BY <1>1, GivenUpStep DEF HandshakeGivesUp

LEMMA ReadAnswerStep ==
    ASSUME TypeInv, NEW t \in Task, ReadAnswer(t)
    PROVE  \E r \in RequestType :
               /\ SettleStep(frame[t].req, r)
               /\ Goes(t, Rest(t))
               /\ process' \in Seq(ProcessType) /\ Len(process') = Len(process)
               /\ client' \in ClientType /\ client'.proc = client.proc
               /\ client'.lock = NoTask /\ client'.ready = client.ready
               /\ \A h \in DOMAIN process : /\ process'[h].state = process[h].state
                                            /\ process'[h].shaken = process[h].shaken
<1>1. PICK g, i : i = frame[t].req /\ g = request[i].proc
  OBVIOUS
<1>2. /\ frame[t].pc = "reading" /\ Waiting(t)
      /\ i \in DOMAIN request /\ g \in DOMAIN process /\ Unread(g)
  BY <1>1 DEF ReadAnswer, Waiting, TypeInv, References
<1>4. /\ process' = [process EXCEPT ![g].read = @ + 1]
      /\ client' = [client EXCEPT !.lock = NoTask]
      /\ request' = Settled(i, NextLine(g))
      /\ Goes(t, Rest(t))
  BY <1>1 DEF ReadAnswer
<1>5. PICK p : p = [process[g] EXCEPT !.read = @ + 1]
  OBVIOUS
<1>6. /\ process[g] \in ProcessType /\ p \in ProcessType
      /\ p.read = process[g].read + 1 /\ p.shaken = process[g].shaken
      /\ p.asked = process[g].asked /\ p.sent = process[g].sent
      /\ p.state = process[g].state
  <2>1. process[g] \in ProcessType /\ process[g].read \in Nat
    BY <1>2, Indices DEF ProcessType
  <2> QED
    BY <1>5, <2>1 DEF ProcessType
<1>7. process' = [process EXCEPT ![g] = p]
  BY <1>4, <1>5
<1>8. /\ process' \in Seq(ProcessType) /\ Len(process') = Len(process)
      /\ DOMAIN process' = DOMAIN process /\ process'[g] = p
      /\ \A h \in DOMAIN process : h # g => process'[h] = process[h]
  BY <1>2, <1>6, <1>7, ProcessUpdate
<1>9. /\ client' \in ClientType /\ client'.proc = client.proc /\ client'.lock = NoTask
      /\ client'.nextId = client.nextId /\ client'.ready = client.ready
  BY <1>4, ClientTypes DEF ClientType
<1>10. \E r \in RequestType : SettleStep(i, r)
  <2>1. \A h \in DOMAIN process : SamePipes(h) /\ (h # g => process'[h].read = process[h].read)
    BY <1>6, <1>8 DEF SamePipes
  <2>2. process'[g].read = process[g].read + 1
    BY <1>6, <1>8
  <2> QED
    BY <1>1, <1>2, <1>4, <1>8, <1>9, <2>1, <2>2, SettledStep
<1> QED
  BY <1>1, <1>4, <1>6, <1>8, <1>9, <1>10

LEMMA CallEndsStep ==
    ASSUME TypeInv, NEW t \in Task,
           CallGivesUp(t) \/ (CancelCall(t) /\ frame[t].pc = "reading")
    PROVE  /\ \E r \in RequestType : SettleStep(frame[t].req, r)
           /\ \E pc \in {"out", "in", "closing"} : Goes(t, pc) /\ (t # Owner => pc = "out")
           /\ frame[t].pc = "reading"
           /\ client' \in ClientType /\ client'.proc = client.proc
           /\ client'.lock = NoTask /\ client'.ready = client.ready
           /\ process' = process
<1>1. /\ frame[t].pc = "reading" /\ Waiting(t) /\ client' = [client EXCEPT !.lock = NoTask]
      /\ process' = process
      /\ \E state \in {"refused", "raised"} : request' = GivenUp(frame[t].req, state)
  BY DEF CallGivesUp, CancelCall, Waiting, Released
<1>2. /\ client' \in ClientType /\ client'.proc = client.proc /\ client'.lock = NoTask
      /\ client'.nextId = client.nextId /\ client'.ready = client.ready
  BY <1>1, ClientTypes DEF ClientType
<1>3. \E r \in RequestType : SettleStep(frame[t].req, r)
  BY <1>1, <1>2, GivenUpStep
<1>4. \E pc \in {"out", "in", "closing"} : Goes(t, pc) /\ (t # Owner => pc = "out")
  <2>1. CASE CallGivesUp(t)
    BY <2>1, Rests DEF CallGivesUp
  <2>2. CASE CancelCall(t)
    BY <2>2 DEF CancelCall
  <2> QED
    BY <2>1, <2>2
<1> QED
  BY <1>1, <1>2, <1>3, <1>4

LEMMA EndsTypes ==
    ASSUME TypeInv, NEW t \in Task,
           ReadAnswer(t) \/ CallGivesUp(t) \/ (CancelCall(t) /\ frame[t].pc = "reading")
    PROVE  TypeInv'
<1>1. PICK r \in RequestType : SettleStep(frame[t].req, r)
  BY ReadAnswerStep, CallEndsStep
<1>2. PICK pc \in {"out", "in", "closing"} : Goes(t, pc) /\ (t # Owner => pc = "out")
  BY ReadAnswerStep, CallEndsStep, Rests
<1>3. /\ process' \in Seq(ProcessType) /\ Len(process') = Len(process)
      /\ client' \in ClientType /\ client'.proc = client.proc /\ client'.lock = NoTask
  BY ReadAnswerStep, CallEndsStep DEF TypeInv, TypeOK
<1>4. frame[t].pc = "reading" /\ Waiting(t)
  BY DEF ReadAnswer, CallGivesUp, CancelCall, Waiting
<1> QED
  BY <1>1, <1>2, <1>3, <1>4, SettleTypes

LEMMA HandshakeTypes ==
    ASSUME TypeInv,
           HandshakeReads \/ \E state \in {"refused", "raised"} : HandshakeGivesUp(state)
    PROVE  TypeInv'
<1>1. /\ Owner \in Task /\ Waiting(Owner) /\ frame[Owner].pc = "handshake"
      /\ client \in ClientType /\ process \in Seq(ProcessType)
  BY TaskTypes DEF HandshakeReads, HandshakeGivesUp, Waiting, TypeInv, TypeOK
<1>2. PICK r \in RequestType :
          /\ SettleStep(frame[Owner].req, r)
          /\ r.state \in {"answered", "refused", "raised"}
          /\ Goes(Owner, AfterHandshake(r.state))
          /\ process' \in Seq(ProcessType) /\ Len(process') = Len(process)
          /\ client' \in ClientType /\ client'.proc = client.proc
          /\ client'.lock = client.lock
  <2>1. CASE HandshakeReads
    BY <2>1, HandshakeReadsStep
  <2>2. ASSUME NEW state \in {"refused", "raised"}, HandshakeGivesUp(state)
        PROVE  \E r \in RequestType :
                  /\ SettleStep(frame[Owner].req, r)
                  /\ r.state \in {"answered", "refused", "raised"}
                  /\ Goes(Owner, AfterHandshake(r.state))
                  /\ UNCHANGED <<client, process>>
    BY <2>2, HandshakeGivesUpStep
  <2> QED
    BY <1>1, <2>1, <2>2
<1>3. AfterHandshake(r.state) \in {"out", "in", "closing"}
  BY <1>2 DEF AfterHandshake
<1> QED
  BY <1>1, <1>2, <1>3, SettleTypes

LEMMA RequestAppended ==
    ASSUME TypeInv, NEW r \in RequestType, request' = Append(request, r)
    PROVE  /\ request' \in Seq(RequestType) /\ DOMAIN request' = 1..(Len(request) + 1)
           /\ Len(request') = Len(request) + 1
           /\ request'[Len(request) + 1] = r
           /\ \A j \in DOMAIN request : j \in DOMAIN request' /\ request'[j] = request[j]
           /\ \A j \in DOMAIN request' \ DOMAIN request : j = Len(request) + 1
BY Indices DEF TypeInv, TypeOK

LEMMA SpawnTypes ==
    ASSUME TypeInv, Spawn
    PROVE  TypeInv' /\ Len(process') = Len(process) + 1 /\ client'.proc = Len(process')
<1>1. PICK g, i : g = Len(process) + 1 /\ i = Len(request) + 1
  OBVIOUS
<1>2. g \in Nat \ {0} /\ i \in Nat \ {0} /\ Owner \in Task
  BY <1>1, Indices, TaskTypes
<1>3. PICK r \in RequestType : /\ r = Asked(Owner, g, FALSE)
                               /\ r.by = Owner /\ r.proc = g /\ r.state = "open" /\ ~r.read
  BY <1>2, AskedType
<1>4. PICK p : p = [state |-> "alive", shaken |-> FALSE, asked |-> <<i>>,
                    sent |-> <<>>, read |-> 0]
  OBVIOUS
<1>5. p \in ProcessType
  BY <1>2, <1>4 DEF ProcessType
<1>6. /\ process' = Append(process, p) /\ request' = Append(request, r)
      /\ client' = [client EXCEPT !.proc = g, !.nextId = @ + 1]
      /\ frame' = [frame EXCEPT ![Owner] = [pc |-> "handshake", req |-> i]]
      /\ frame[Owner].pc = "spawning"
  BY <1>1, <1>3, <1>4 DEF Spawn
<1>7. /\ process' \in Seq(ProcessType) /\ Len(process') = g /\ DOMAIN process' = 1..g
  BY <1>1, <1>5, <1>6, Indices DEF TypeInv, TypeOK
<1>8. /\ request' \in Seq(RequestType) /\ DOMAIN request' = 1..i
      /\ request'[i] = r
      /\ \A j \in DOMAIN request : j \in DOMAIN request' /\ request'[j] = request[j]
      /\ \A j \in DOMAIN request' \ DOMAIN request : j = i
  BY <1>1, <1>6, RequestAppended
<1>9. /\ client' \in ClientType /\ client'.proc = g /\ client'.lock = client.lock
  BY <1>2, <1>6, ClientTypes DEF ClientType
<1>10. /\ frame' \in [Task -> FrameType]
       /\ frame'[Owner].pc = "handshake" /\ frame'[Owner].req = i
       /\ \A s \in Task : s # Owner => frame'[s] = frame[s]
  BY <1>2, <1>6, WaitsStep DEF TypeInv
<1>11. client'.lock = Owner <=> frame'[Owner].pc = "reading"
  BY <1>2, <1>6, <1>9, <1>10 DEF TypeInv, TypeOK
<1>12. i \in DOMAIN request' /\ g \in DOMAIN process'
  BY <1>2, <1>7, <1>8
<1>13. Len(process) <= Len(process') /\ client'.proc \in {0, Len(process')} /\ client'.proc # 0
  BY <1>1, <1>2, <1>7, <1>9, Indices
<1>14. /\ \A s \in Task : s # Owner => /\ frame'[s] = frame[s]
                                       /\ client'.lock = s <=> client.lock = s
       /\ \A j \in DOMAIN request : /\ j \in DOMAIN request'
                                    /\ request'[j].proc = request[j].proc
                                    /\ request[j].by # Owner => request'[j] = request[j]
       /\ \A j \in DOMAIN request' \ DOMAIN request : request'[j].proc \in DOMAIN process'
  BY <1>3, <1>8, <1>9, <1>10, <1>12
<1>15. /\ frame'[Owner].pc = "handshake" => request'[frame'[Owner].req].proc = client'.proc
       /\ frame'[Owner].req \in DOMAIN request'
       /\ request'[frame'[Owner].req].by = Owner
       /\ request'[frame'[Owner].req].state = "open" /\ ~request'[frame'[Owner].req].read
  BY <1>3, <1>8, <1>9, <1>10, <1>12
<1>16. TypeInv'
  BY <1>2, <1>7, <1>8, <1>9, <1>10, <1>11, <1>13, <1>14, <1>15, Concludes
<1> QED
  BY <1>1, <1>7, <1>9, <1>16

LEMMA AskedOnce ==
    ASSUME NEW S, NEW M, NEW a \in S,
           NEW p \in [state : {"alive", "killed", "dead"}, shaken : BOOLEAN,
                      asked : S, sent : M, read : Nat],
           NEW q, q = [p EXCEPT !.asked = a]
    PROVE  /\ q \in [state : {"alive", "killed", "dead"}, shaken : BOOLEAN,
                     asked : S, sent : M, read : Nat]
           /\ q.state = p.state /\ q.shaken = p.shaken /\ q.read = p.read /\ p.read + 1 \in Nat
OBVIOUS

\* A process that is written to, and perhaps read from, is one.
LEMMA WrittenType ==
    ASSUME TypeInv, NEW g \in DOMAIN process, NEW i \in Nat \ {0}, NEW n \in {0, 1},
           \/ n = 0 /\ process' = [process EXCEPT ![g].asked = Append(@, i)]
           \/ n = 1 /\ process' = [process EXCEPT ![g].asked = Append(@, i), ![g].read = @ + 1]
    PROVE  /\ process' \in Seq(ProcessType) /\ Len(process') = Len(process)
           /\ \A h \in DOMAIN process : /\ process'[h].state = process[h].state
                                        /\ process'[h].shaken = process[h].shaken
<1>1. process[g] \in ProcessType
  BY Indices
<1>2. PICK q, a : a = Append(process[g].asked, i) /\ q = [process[g] EXCEPT !.asked = a]
  OBVIOUS
<1>3. a \in Seq(Nat \ {0})
  <2>1. process[g].asked \in Seq(Nat \ {0})
    BY <1>1 DEF ProcessType
  <2> QED
    BY <1>2, <2>1
<1>4. /\ q \in ProcessType /\ q.state = process[g].state /\ q.shaken = process[g].shaken
      /\ q.read = process[g].read /\ q.read + 1 \in Nat
  <2>1. q = [process[g] EXCEPT !.asked = a]
    BY <1>2
  <2> QED
    BY <1>1, <1>3, <2>1, AskedOnce DEF ProcessType
<1>5. CASE n = 0
  <2>1. process' = [process EXCEPT ![g] = q]
    BY <1>2, <1>5
  <2> QED
    BY <1>4, <2>1, ProcessUpdate
<1>6. CASE n = 1
  <2>1. PICK p : p = [q EXCEPT !.read = @ + 1]
    OBVIOUS
  <2>2. p \in ProcessType /\ p.state = q.state /\ p.shaken = q.shaken
    BY <1>4, <2>1 DEF ProcessType
  <2>3. process' = [process EXCEPT ![g] = p]
    BY <1>2, <1>4, <1>6, <2>1
  <2> QED
    BY <1>4, <2>2, <2>3, ProcessUpdate
<1> QED
  BY <1>5, <1>6

LEMMA WriteTypes ==
    ASSUME TypeInv, NEW t \in Task, WriteRequest(t)
    PROVE  TypeInv'
<1>1. PICK g, i : g = client.proc /\ i = Len(request) + 1
  OBVIOUS
<1>2. /\ g \in DOMAIN process /\ i \in Nat \ {0} /\ frame[t].pc = "lock"
      /\ Len(process) \in Nat /\ client.proc \in {0, Len(process)} /\ client.proc # 0
  BY <1>1, Indices DEF WriteRequest, TypeInv, References
<1>3. PICK r \in RequestType :
          /\ WriteStep(g, r) /\ r.proc = g /\ r.by = t /\ r.state = "open" /\ ~r.read
          /\ request' = Append(request, r)
  BY <1>1, WriteSteps DEF WriteStep
<1>4. /\ process' = [process EXCEPT ![g].asked = Append(@, i)]
      /\ client' = [client EXCEPT !.nextId = @ + 1, !.lock = t]
      /\ frame' = [frame EXCEPT ![t] = [pc |-> "reading", req |-> i]]
      /\ client.lock = NoTask
  BY <1>1 DEF WriteRequest
<1>5. process' \in Seq(ProcessType) /\ Len(process') = Len(process)
  BY <1>2, <1>4, WrittenType
<1>6. DOMAIN process' = DOMAIN process
  BY <1>3 DEF WriteStep
<1>7. /\ request' \in Seq(RequestType) /\ DOMAIN request' = 1..i
      /\ request'[i] = r
      /\ \A j \in DOMAIN request : j \in DOMAIN request' /\ request'[j] = request[j]
      /\ \A j \in DOMAIN request' \ DOMAIN request : j = i
  BY <1>1, <1>3, RequestAppended
<1>8. /\ client' \in ClientType /\ client'.proc = g /\ client'.lock = t
  BY <1>1, <1>4, ClientTypes DEF ClientType
<1>9. /\ frame' \in [Task -> FrameType]
      /\ frame'[t].pc = "reading" /\ frame'[t].req = i
      /\ \A s \in Task : s # t => frame'[s] = frame[s]
  BY <1>2, <1>4, WaitsStep DEF TypeInv
<1>10. /\ \A s \in Task : s # t => /\ frame'[s] = frame[s]
                                   /\ client'.lock = s <=> client.lock = s
       /\ client'.lock = t <=> frame'[t].pc = "reading"
  BY <1>4, <1>8, <1>9, TaskTypes
<1>11. /\ \A j \in DOMAIN request : /\ j \in DOMAIN request'
                                    /\ request'[j].proc = request[j].proc
                                    /\ request[j].by # t => request'[j] = request[j]
       /\ \A j \in DOMAIN request' \ DOMAIN request : request'[j].proc \in DOMAIN process'
  BY <1>2, <1>3, <1>6, <1>7
<1>12. /\ frame'[t].req \in DOMAIN request'
       /\ request'[frame'[t].req].by = t
       /\ request'[frame'[t].req].state = "open" /\ ~request'[frame'[t].req].read
  BY <1>2, <1>3, <1>7, <1>9
<1>13. Len(process) <= Len(process') /\ client'.proc \in {0, Len(process')}
  BY <1>1, <1>2, <1>5, <1>8
<1>14. /\ t # Owner => client'.proc = client.proc /\ frame'[t].pc \in {"out", "lock", "reading"}
       /\ t = Owner => /\ frame'[t].pc = "spawning" => client'.proc = 0
                       /\ frame'[t].pc \notin {"out", "spawning"} => client'.proc # 0
                       /\ frame'[t].pc = "handshake" =>
                              request'[frame'[t].req].proc = client'.proc
  BY <1>1, <1>2, <1>8, <1>9
<1> QED
  BY <1>5, <1>7, <1>8, <1>9, <1>10, <1>11, <1>12, <1>13, <1>14, Concludes

LEMMA BesideTypes ==
    ASSUME TypeInv, NEW t \in Task, WriteBesideHandshake(t)
    PROVE  TypeInv'
<1>1. PICK g, i : g = client.proc /\ i = Len(request) + 1
  OBVIOUS
<1>2. /\ g \in DOMAIN process /\ i \in Nat \ {0} /\ frame[t].pc = "lock"
      /\ Len(process) \in Nat /\ client.proc \in {0, Len(process)} /\ client.proc # 0
  BY <1>1, Indices DEF WriteBesideHandshake, TypeInv, References
<1>3. PICK r \in RequestType :
          WriteStep(g, r) /\ r.proc = g /\ request' = Append(request, r)
  BY <1>1, BesideSteps DEF WriteStep
<1>4. PICK pc \in {"in", "out"} :
          /\ \E n \in {0, 1} :
                \/ n = 0 /\ process' = [process EXCEPT ![g].asked = Append(@, i)]
                \/ n = 1 /\ process' = [process EXCEPT ![g].asked = Append(@, i),
                                                        ![g].read = @ + 1]
          /\ client' = [client EXCEPT !.nextId = @ + 1]
          /\ Goes(t, pc) /\ (t # Owner => pc = "out")
  BY <1>1, Rests DEF WriteBesideHandshake
<1>5. process' \in Seq(ProcessType) /\ Len(process') = Len(process)
  BY <1>2, <1>4, WrittenType
<1>6. DOMAIN process' = DOMAIN process
  BY <1>3 DEF WriteStep
<1>7. /\ request' \in Seq(RequestType) /\ DOMAIN request' = 1..i
      /\ request'[i] = r
      /\ \A j \in DOMAIN request : j \in DOMAIN request' /\ request'[j] = request[j]
      /\ \A j \in DOMAIN request' \ DOMAIN request : j = i
  BY <1>1, <1>3, RequestAppended
<1>8. /\ client' \in ClientType /\ client'.proc = g /\ client'.lock = client.lock
  BY <1>1, <1>4, ClientTypes DEF ClientType
<1>9. /\ frame' \in [Task -> FrameType] /\ frame'[t].pc = pc
      /\ \A s \in Task : s # t => frame'[s] = frame[s]
  BY <1>4, GoesStep DEF TypeInv
<1>10. /\ \A s \in Task : s # t => /\ frame'[s] = frame[s]
                                   /\ client'.lock = s <=> client.lock = s
       /\ client'.lock = t <=> frame'[t].pc = "reading"
  BY <1>2, <1>8, <1>9 DEF TypeInv, TypeOK
<1>11. /\ \A j \in DOMAIN request : /\ j \in DOMAIN request'
                                    /\ request'[j].proc = request[j].proc
                                    /\ request[j].by # t => request'[j] = request[j]
       /\ \A j \in DOMAIN request' \ DOMAIN request : request'[j].proc \in DOMAIN process'
  BY <1>2, <1>3, <1>6, <1>7
<1>13. Len(process) <= Len(process') /\ client'.proc \in {0, Len(process')}
  BY <1>1, <1>2, <1>5, <1>8
<1>14. /\ t # Owner => client'.proc = client.proc /\ frame'[t].pc \in {"out", "lock", "reading"}
       /\ frame'[t].pc \notin {"reading", "handshake", "spawning"}
       /\ client'.proc # 0
  BY <1>1, <1>2, <1>4, <1>8, <1>9
<1>15. t = Owner => /\ frame'[t].pc = "spawning" => client'.proc = 0
                    /\ frame'[t].pc \notin {"out", "spawning"} => client'.proc # 0
                    /\ frame'[t].pc = "handshake" =>
                           request'[frame'[t].req].proc = client'.proc
  BY <1>14
<1> QED
  BY <1>5, <1>7, <1>8, <1>9, <1>10, <1>11, <1>13, <1>14, <1>15, Concludes

LEMMA DieStep ==
    ASSUME TypeInv, NEW g \in DOMAIN process, Die(g)
    PROVE  /\ process' \in Seq(ProcessType) /\ Len(process') = Len(process)
           /\ DOMAIN process' = DOMAIN process
           /\ \A h \in DOMAIN process :
                  /\ process'[h].state \in {process[h].state, "dead"}
                  /\ process'[h].shaken = process[h].shaken
<1>1. PICK p : p = [process[g] EXCEPT !.state = "dead"]
  OBVIOUS
<1>2. process[g] \in ProcessType /\ process' = [process EXCEPT ![g] = p]
  BY <1>1, Indices DEF Die
<1>3. p \in ProcessType /\ p.state = "dead" /\ p.shaken = process[g].shaken
  BY <1>1, <1>2 DEF ProcessType
<1> QED
  BY <1>2, <1>3, ProcessUpdate

LEMMA AnswerStep ==
    ASSUME TypeInv, NEW g \in DOMAIN process, NEW of \in 0..Len(request),
           NEW kind \in {"result", "error", "bad"}, Answer(g, of, kind)
    PROVE  /\ process' \in Seq(ProcessType) /\ Len(process') = Len(process)
           /\ DOMAIN process' = DOMAIN process
           /\ \A h \in DOMAIN process : /\ process'[h].state = process[h].state
                                        /\ process'[h].shaken = process[h].shaken
<1>1. PICK m : m = [of |-> of, id |-> IF of = 0 THEN 0 ELSE request[of].id, kind |-> kind]
  OBVIOUS
<1>2. m \in MessageType
  <2>1. of # 0 => of \in DOMAIN request /\ request[of].id \in Nat
    BY Indices DEF RequestType
  <2> QED
    BY <1>1, <2>1, Indices DEF MessageType
<1>3. PICK p, b : b = Append(process[g].sent, m) /\ p = [process[g] EXCEPT !.sent = b]
  OBVIOUS
<1>4. process[g] \in ProcessType
  BY Indices
<1>5. process' = [process EXCEPT ![g] = p]
  BY <1>1, <1>3 DEF Answer
<1>6. b \in Seq(MessageType)
  <2>1. process[g].sent \in Seq(MessageType)
    BY <1>4 DEF ProcessType
  <2> QED
    BY <1>2, <1>3, <2>1
<1>7. p \in ProcessType /\ p.state = process[g].state /\ p.shaken = process[g].shaken
  <2>1. p = [process[g] EXCEPT !.sent = b]
    BY <1>3
  <2> QED
    BY <1>4, <1>6, <2>1 DEF ProcessType
<1> QED
  BY <1>5, <1>7, ProcessUpdate

\* A step of a server.
LEMMA ServerTypes ==
    ASSUME TypeInv, Server
    PROVE  TypeInv'
<1>1. /\ process' \in Seq(ProcessType) /\ Len(process') = Len(process)
      /\ DOMAIN process' = DOMAIN process
  BY DieStep, AnswerStep DEF Server
<1>2. UNCHANGED <<client, frame, request>>
  BY DEF Server, Die, Answer
<1>3. TypeOK'
  BY <1>1, <1>2 DEF TypeInv, TypeOK
<1>4. References'
  BY <1>1, <1>2 DEF TypeInv, References, Waiting
<1> QED
  BY <1>3, <1>4 DEF TypeInv

\* The steps, by whose they are.
LEMMA NextCases ==
    ASSUME Next
    PROVE  \/ Connect \/ SpawnFails \/ BeginClose \/ Waited \/ CancelWait \/ Reap
           \/ KillServer \/ Spawn \/ HandshakeReads \/ Server
           \/ \E state \in {"refused", "raised"} : HandshakeGivesUp(state)
           \/ \E t \in Task :
                 \/ BeginCall(t) \/ WriteFails(t) \/ (CancelCall(t) /\ frame[t].pc = "lock")
                 \/ WriteRequest(t) \/ WriteBesideHandshake(t)
                 \/ ReadAnswer(t) \/ CallGivesUp(t) \/ (CancelCall(t) /\ frame[t].pc = "reading")
<1>1. ASSUME NEW t \in Task, CancelCall(t)
      PROVE  frame[t].pc = "lock" \/ frame[t].pc = "reading"
  BY <1>1 DEF CancelCall, Calling
<1> QED
  BY <1>1 DEF Next, OwnerStep, Cancel, CallStep

LEMMA TypeInitial ==
    ASSUME Init
    PROVE  TypeInv
<1>1. TypeOK
  BY McpAssumption DEF Init, TypeOK, ClientType, FrameType, At, Busy, Task
<1>2. References
  BY TaskTypes DEF Init, References, Waiting, At, Task
<1> QED
  BY <1>1, <1>2 DEF TypeInv

LEMMA TypeStep ==
    ASSUME TypeInv, [Next]_vars
    PROVE  TypeInv'
<1>1. CASE UNCHANGED vars
  BY <1>1 DEF TypeInv, TypeOK, References, Waiting, vars
<1>2. CASE Next
  BY <1>2, NextCases, OwnerTypes, KillTypes, SpawnTypes, HandshakeTypes, ServerTypes,
     CallTypes, WriteTypes, BesideTypes, EndsTypes
<1> QED
  BY <1>1, <1>2

LEMMA TypesHold == Spec => []TypeInv
<1>1. Init => TypeInv
  BY TypeInitial
<1>2. TypeInv /\ [Next]_vars => TypeInv'
  BY TypeStep
<1> QED
  BY <1>1, <1>2, PTL DEF Spec

\* The attributes, frames, pipes and requests hold what they can hold, and the lock is
\* held exactly by the task that reads.
THEOREM TypeCorrect == Spec => []TypeOK
<1>1. TypeInv => TypeOK
  BY DEF TypeInv
<1> QED
  BY <1>1, TypesHold, PTL

\* Every step does one of five things to requests and pipes.
LEMMA PipesStep ==
    ASSUME TypeInv, Next
    PROVE  PipeStep
<1>1. CASE Connect \/ SpawnFails \/ BeginClose \/ Waited \/ CancelWait \/ Reap
  <2>1. client'.nextId = client.nextId /\ process' = process /\ request' = request
    BY <1>1, ClientTypes DEF Connect, SpawnFails, BeginClose, Waited, CancelWait, Reap, ClientType
  <2> QED
    BY <2>1, QuietSteps DEF PipeStep
<1>2. CASE KillServer
  <2>1. /\ client' = client /\ request' = request /\ client.proc \in DOMAIN process
        /\ client.nextId \in Nat \ {0}
    BY <1>2, Indices DEF KillServer, TypeInv, TypeOK, References, ClientType
  <2>2. process[client.proc] \in ProcessType
    BY <2>1, Indices
  <2>3. process' = process \/ process' = [process EXCEPT ![client.proc].state = "killed"]
    BY <1>2 DEF KillServer
  <2>4. QuietStep
    BY <2>1, <2>2, <2>3 DEF QuietStep, SamePipes, ProcessType
  <2> QED
    BY <2>4 DEF PipeStep
<1>3. CASE \E t \in Task :
              BeginCall(t) \/ WriteFails(t) \/ (CancelCall(t) /\ frame[t].pc = "lock")
  <2>1. /\ process' = process /\ request' = request
        /\ client' = client \/ client' = [client EXCEPT !.nextId = @ + 1]
    BY <1>3 DEF BeginCall, WriteFails, CancelCall
  <2>2. client'.nextId \in {client.nextId, client.nextId + 1}
    BY <2>1, ClientStep
  <2> QED
    BY <2>1, <2>2, QuietSteps DEF PipeStep
<1>4. CASE Spawn
  BY <1>4, SpawnSteps DEF PipeStep
<1>5. CASE Server
  BY <1>5, ServerSteps
<1>6. CASE \E t \in Task : WriteRequest(t) \/ WriteBesideHandshake(t)
  <2>1. client.proc \in DOMAIN process
    BY <1>6, Indices DEF WriteRequest, WriteBesideHandshake
  <2> QED
    BY <1>6, <2>1, WriteSteps, BesideSteps DEF PipeStep
<1>7. CASE HandshakeReads \/ \E state \in {"refused", "raised"} : HandshakeGivesUp(state)
  <2>1. frame[Owner].req \in DOMAIN request
    BY <1>7, TaskTypes DEF HandshakeReads, HandshakeGivesUp, TypeInv, References, Waiting
  <2> QED
    BY <1>7, <2>1, HandshakeReadsStep, HandshakeGivesUpStep DEF PipeStep
<1>8. CASE \E t \in Task : \/ ReadAnswer(t) \/ CallGivesUp(t)
                           \/ (CancelCall(t) /\ frame[t].pc = "reading")
  <2>1. PICK t \in Task : \/ ReadAnswer(t) \/ CallGivesUp(t)
                          \/ (CancelCall(t) /\ frame[t].pc = "reading")
    BY <1>8
  <2>2. frame[t].req \in DOMAIN request
    BY <2>1 DEF ReadAnswer, CallGivesUp, CancelCall, TypeInv, References, Waiting
  <2> QED
    BY <2>1, <2>2, ReadAnswerStep, CallEndsStep DEF PipeStep
<1> QED
  BY <1>1, <1>2, <1>3, <1>4, <1>5, <1>6, <1>7, <1>8, NextCases

-----------------------------------------------------------------------------
(* Answers are own: ids are never used again, and an honest line carries the id of    *)
(* the request it is meant for.                                                       *)

IdsGrow ==
    /\ \A i, j \in DOMAIN request : i < j => request[i].id < request[j].id
    /\ \A i \in DOMAIN request : request[i].id < client.nextId

AskedExist ==
    \A g \in DOMAIN process : \A k \in DOMAIN process[g].asked :
        process[g].asked[k] \in DOMAIN request

LinesAreHonest ==
    \A g \in DOMAIN process : \A k \in DOMAIN process[g].sent :
        LET m == process[g].sent[k] IN
        \/ m.of = 0 /\ m.id = 0
        \/ m.of \in DOMAIN request /\ m.id = request[m.of].id

AnswerInv == TypeInv /\ IdsGrow /\ AskedExist /\ LinesAreHonest /\ AnswersAreOwn

LEMMA AnswerQuiet ==
    ASSUME AnswerInv, QuietStep
    PROVE  IdsGrow' /\ AskedExist' /\ LinesAreHonest' /\ AnswersAreOwn'
<1>1. IdsGrow'
  <2>1. \A i \in DOMAIN request : request[i].id \in Nat \ {0}
    BY Indices DEF AnswerInv, RequestType
  <2>2. client.nextId \in Nat \ {0} /\ client'.nextId \in Nat \ {0}
        /\ client.nextId <= client'.nextId /\ request' = request
    BY DEF AnswerInv, TypeInv, TypeOK, ClientType, QuietStep
  <2> QED
    BY <2>1, <2>2 DEF AnswerInv, IdsGrow
<1>2. AskedExist' /\ LinesAreHonest'
  BY DEF AnswerInv, AskedExist, LinesAreHonest, QuietStep, SamePipes
<1>3. AnswersAreOwn'
  BY DEF AnswerInv, AnswersAreOwn, QuietStep
<1> QED
  BY <1>1, <1>2, <1>3

LEMMA AnswerLine ==
    ASSUME AnswerInv, NEW g \in DOMAIN process, NEW m \in MessageType, LineStep(g, m)
    PROVE  IdsGrow' /\ AskedExist' /\ LinesAreHonest' /\ AnswersAreOwn'
<1>1. IdsGrow' /\ AskedExist' /\ AnswersAreOwn'
  BY DEF AnswerInv, IdsGrow, AskedExist, AnswersAreOwn, LineStep
<1>2. (m.of = 0 /\ m.id = 0) \/ (m.of \in DOMAIN request /\ m.id = request[m.of].id)
  BY DEF LineStep, AnswerInv, AskedExist
<1>3. process[g].sent \in Seq(MessageType)
  BY Indices DEF AnswerInv, ProcessType
<1>4. ASSUME NEW h \in DOMAIN process, NEW k \in DOMAIN process'[h].sent
      PROVE  \/ process'[h].sent[k].of = 0 /\ process'[h].sent[k].id = 0
             \/ /\ process'[h].sent[k].of \in DOMAIN request
                /\ process'[h].sent[k].id = request[process'[h].sent[k].of].id
  <2>1. CASE h # g
    <3>1. process'[h].sent = process[h].sent
      BY <2>1 DEF LineStep
    <3> QED
      BY <1>4, <3>1 DEF AnswerInv, LinesAreHonest
  <2>2. CASE h = g
    <3>1. process'[g].sent = Append(process[g].sent, m)
      BY DEF LineStep
    <3>2. CASE k \in DOMAIN process[g].sent
      <4>1. process'[g].sent[k] = process[g].sent[k]
        BY <1>3, <3>1, <3>2
      <4> QED
        BY <2>2, <3>2, <4>1 DEF AnswerInv, LinesAreHonest
    <3>3. CASE k \notin DOMAIN process[g].sent
      <4>1. process'[g].sent[k] = m
        BY <1>3, <1>4, <2>2, <3>1, <3>3
      <4> QED
        BY <1>2, <2>2, <4>1
    <3> QED
      BY <3>2, <3>3
  <2> QED
    BY <2>1, <2>2
<1>5. LinesAreHonest'
  BY <1>4 DEF LinesAreHonest, LineStep
<1> QED
  BY <1>1, <1>5

\* A request that is new has a new id, and is not answered by a line that was there.
LEMMA AnswerNew ==
    ASSUME AnswerInv, NEW r \in RequestType, request' = Append(request, r),
           r.id = client.nextId, client'.nextId = client.nextId + 1, r.state # "answered"
    PROVE  IdsGrow' /\ AnswersAreOwn'
<1>1. /\ DOMAIN request' = 1..(Len(request) + 1) /\ Len(request) \in Nat
      /\ request'[Len(request) + 1] = r
      /\ \A j \in DOMAIN request : j \in DOMAIN request' /\ request'[j] = request[j]
      /\ \A j \in DOMAIN request' \ DOMAIN request : j = Len(request) + 1
      /\ DOMAIN request = 1..Len(request)
  BY RequestAppended, Indices DEF AnswerInv
<1>2. /\ client.nextId \in Nat \ {0}
      /\ \A i \in DOMAIN request : request[i].id \in Nat \ {0}
  BY Indices DEF AnswerInv, TypeInv, TypeOK, ClientType, RequestType
<1>3. \A i \in DOMAIN request : request[i].id < client.nextId
  BY DEF AnswerInv, IdsGrow
<1>4. IdsGrow'
  <2>1. \A i \in DOMAIN request' : request'[i].id < client'.nextId
    BY <1>1, <1>2, <1>3
  <2>2. ASSUME NEW i \in DOMAIN request', NEW j \in DOMAIN request', i < j
        PROVE  request'[i].id < request'[j].id
    <3>1. i \in DOMAIN request
      BY <1>1, <2>2
    <3>2. CASE j \in DOMAIN request
      BY <1>1, <2>2, <3>1, <3>2 DEF AnswerInv, IdsGrow
    <3>3. CASE j = Len(request) + 1
      BY <1>1, <1>2, <1>3, <3>1, <3>3
    <3> QED
      BY <1>1, <3>2, <3>3
  <2> QED
    BY <2>1, <2>2 DEF IdsGrow
<1>5. AnswersAreOwn'
  <2> SUFFICES ASSUME NEW i \in DOMAIN request', request'[i].state = "answered"
               PROVE  request'[i].of = i
    BY DEF AnswersAreOwn
  <2>1. i \in DOMAIN request
    BY <1>1
  <2> QED
    BY <1>1, <2>1 DEF AnswerInv, AnswersAreOwn
<1> QED
  BY <1>4, <1>5

LEMMA AnswerSpawn ==
    ASSUME AnswerInv, NEW r \in RequestType, SpawnStep(r)
    PROVE  IdsGrow' /\ AskedExist' /\ LinesAreHonest' /\ AnswersAreOwn'
<1>1. IdsGrow' /\ AnswersAreOwn'
  BY AnswerNew DEF SpawnStep
<1>2. PICK g, i : g = Len(process) + 1 /\ i = Len(request) + 1
  OBVIOUS
<1>3. /\ i \in DOMAIN request'
      /\ \A j \in DOMAIN request : j \in DOMAIN request' /\ request'[j] = request[j]
  BY <1>2, RequestAppended, Indices DEF AnswerInv, SpawnStep
<1>4. /\ \A h \in DOMAIN process' : h = g \/ h \in DOMAIN process
      /\ \A h \in DOMAIN process : SamePipes(h)
      /\ process'[g].asked = <<i>> /\ process'[g].sent = <<>>
  BY <1>2, Indices DEF SpawnStep, AnswerInv
<1>5. AskedExist'
  BY <1>3, <1>4 DEF AskedExist, AnswerInv, SamePipes
<1>6. LinesAreHonest'
  BY <1>3, <1>4 DEF LinesAreHonest, AnswerInv, SamePipes
<1> QED
  BY <1>1, <1>5, <1>6

\* A request that is new is not answered by a line that was there before it.
LEMMA NotAnsweredYet ==
    ASSUME AnswerInv, NEW g \in DOMAIN process, NEW r \in RequestType, WriteStep(g, r)
    PROVE  r.state # "answered"
<1> SUFFICES ASSUME r.state = "answered" PROVE FALSE
  OBVIOUS
<1>1. Unread(g) /\ NextLine(g).id = client.nextId
  BY DEF WriteStep
<1>2. process[g].read + 1 \in DOMAIN process[g].sent
  BY <1>1, LineType DEF AnswerInv
<1>3. \/ NextLine(g).id = 0
      \/ NextLine(g).of \in DOMAIN request /\ NextLine(g).id = request[NextLine(g).of].id
  BY <1>2 DEF AnswerInv, LinesAreHonest, NextLine
<1>4. client.nextId \in Nat \ {0}
  BY DEF AnswerInv, TypeInv, TypeOK, ClientType
<1>5. \A i \in DOMAIN request : request[i].id \in Nat /\ request[i].id < client.nextId
  BY Indices DEF AnswerInv, IdsGrow, RequestType
<1> QED
  BY <1>1, <1>3, <1>4, <1>5

LEMMA AnswerWrite ==
    ASSUME AnswerInv, NEW g \in DOMAIN process, NEW r \in RequestType, WriteStep(g, r)
    PROVE  IdsGrow' /\ AskedExist' /\ LinesAreHonest' /\ AnswersAreOwn'
<1>1. r.state # "answered"
  BY NotAnsweredYet
<1>2. IdsGrow' /\ AnswersAreOwn'
  BY <1>1, AnswerNew DEF WriteStep
<1>3. /\ Len(request) + 1 \in DOMAIN request'
      /\ \A j \in DOMAIN request : j \in DOMAIN request' /\ request'[j] = request[j]
  BY RequestAppended, Indices DEF AnswerInv, WriteStep
<1>4. LinesAreHonest'
  BY <1>3 DEF LinesAreHonest, AnswerInv, WriteStep
<1>5. AskedExist'
  <2> SUFFICES ASSUME NEW h \in DOMAIN process, NEW k \in DOMAIN process'[h].asked
               PROVE  process'[h].asked[k] \in DOMAIN request'
    BY DEF AskedExist, WriteStep
  <2>1. CASE h # g
    BY <1>3, <2>1 DEF AskedExist, AnswerInv, WriteStep
  <2>2. CASE h = g
    <3>1. process[g].asked \in Seq(Nat \ {0})
      BY Indices DEF AnswerInv, ProcessType
    <3>2. process'[g].asked = Append(process[g].asked, Len(request) + 1)
      BY DEF WriteStep
    <3>3. \/ k \in DOMAIN process[g].asked /\ process'[g].asked[k] = process[g].asked[k]
          \/ process'[g].asked[k] = Len(request) + 1
      BY <2>2, <3>1, <3>2
    <3> QED
      BY <1>3, <2>2, <3>3 DEF AskedExist, AnswerInv
  <2> QED
    BY <2>1, <2>2
<1> QED
  BY <1>2, <1>4, <1>5

LEMMA AnswerSettle ==
    ASSUME AnswerInv, NEW i \in DOMAIN request, NEW r \in RequestType, SettleStep(i, r)
    PROVE  IdsGrow' /\ AskedExist' /\ LinesAreHonest' /\ AnswersAreOwn'
<1>1. /\ request' = [request EXCEPT ![i] = r] /\ r.id = request[i].id
      /\ client'.nextId = client.nextId /\ DOMAIN process' = DOMAIN process
      /\ \A h \in DOMAIN process : SamePipes(h)
  BY DEF SettleStep
<1>2. /\ DOMAIN request' = DOMAIN request /\ request'[i] = r
      /\ \A j \in DOMAIN request : /\ j # i => request'[j] = request[j]
                                   /\ request'[j].id = request[j].id
  BY <1>1 DEF AnswerInv, TypeInv, TypeOK
<1>3. IdsGrow'
  BY <1>1, <1>2 DEF AnswerInv, IdsGrow
<1>4. AskedExist' /\ LinesAreHonest'
  BY <1>1, <1>2 DEF AnswerInv, AskedExist, LinesAreHonest, SamePipes
<1>5. r.state = "answered" => r.of = i
  <2> SUFFICES ASSUME r.state = "answered" PROVE r.of = i
    OBVIOUS
  <2>1. PICK g \in DOMAIN process : g = request[i].proc
    BY DEF AnswerInv, TypeInv, References
  <2>2. Unread(g) /\ NextLine(g).id = request[i].id /\ r.of = NextLine(g).of
    BY <2>1 DEF SettleStep
  <2>3. process[g].read + 1 \in DOMAIN process[g].sent
    BY <2>2, LineType DEF AnswerInv
  <2>4. \/ NextLine(g).id = 0
        \/ NextLine(g).of \in DOMAIN request /\ NextLine(g).id = request[NextLine(g).of].id
    BY <2>3 DEF AnswerInv, LinesAreHonest, NextLine
  <2>5. \A j \in DOMAIN request : request[j].id \in Nat \ {0}
    BY Indices DEF AnswerInv, RequestType
  <2>6. r.of \in DOMAIN request /\ request[r.of].id = request[i].id
    BY <2>2, <2>4, <2>5
  <2>7. ~(r.of < i) /\ ~(i < r.of)
    BY <2>5, <2>6 DEF AnswerInv, IdsGrow
  <2>8. r.of \in Nat /\ i \in Nat
    BY <2>6, Indices DEF AnswerInv
  <2> QED
    BY <2>7, <2>8
<1>6. AnswersAreOwn'
  BY <1>2, <1>5 DEF AnswerInv, AnswersAreOwn
<1> QED
  BY <1>3, <1>4, <1>6

LEMMA AnswersHold == Spec => []AnswerInv
<1>1. Init => AnswerInv
  <2> SUFFICES ASSUME Init PROVE AnswerInv
    OBVIOUS
  <2>1. TypeInv /\ process = <<>> /\ request = <<>>
    BY TypeInitial DEF Init
  <2> QED
    BY <2>1 DEF AnswerInv, IdsGrow, AskedExist, LinesAreHonest, AnswersAreOwn
<1>2. AnswerInv /\ [Next]_vars => AnswerInv'
  <2> SUFFICES ASSUME AnswerInv, [Next]_vars PROVE AnswerInv'
    OBVIOUS
  <2>1. TypeInv'
    BY TypeStep DEF AnswerInv
  <2>2. CASE UNCHANGED vars
    BY <2>1, <2>2 DEF AnswerInv, IdsGrow, AskedExist, LinesAreHonest, AnswersAreOwn, vars
  <2>3. CASE Next
    <3>1. PipeStep
      BY <2>3, PipesStep DEF AnswerInv
    <3>2. IdsGrow' /\ AskedExist' /\ LinesAreHonest' /\ AnswersAreOwn'
      BY <3>1, AnswerQuiet, AnswerLine, AnswerSpawn, AnswerWrite, AnswerSettle DEF PipeStep
    <3> QED
      BY <2>1, <3>2 DEF AnswerInv
  <2> QED
    BY <2>2, <2>3
<1> QED
  BY <1>1, <1>2, PTL DEF Spec

\* A call or a handshake that returns a result returns the one meant for its own request,
\* whatever the server sends and whatever an abandoned call left in the pipe.
THEOREM AnswersOwned == Spec => []AnswersAreOwn
<1>1. AnswerInv => AnswersAreOwn
  BY DEF AnswerInv
<1> QED
  BY <1>1, AnswersHold, PTL

-----------------------------------------------------------------------------
(* No process is left: only the client's process lives, close gets past its wait only *)
(* when it is dead, and the first request of a process is its handshake.              *)

OnlyOneLives ==
    \A g \in DOMAIN process : process[g].state = "alive" => client.proc = g

ClosesTheDead ==
    /\ frame[Owner].pc = "waiting" => process[client.proc].state # "alive"
    /\ frame[Owner].pc = "reaping" => process[client.proc].state = "dead"

HandshakeIsFirst ==
    /\ \A g \in DOMAIN process : 1 \in DOMAIN process[g].asked
    /\ frame[Owner].pc = "handshake" => frame[Owner].req = HandshakeOf(client.proc)

LeftInv == OnlyOneLives /\ ClosesTheDead /\ HandshakeIsFirst /\ NoProcessLeft

\* Processes do not come to life again.
StatesStep ==
    /\ DOMAIN process' = DOMAIN process
    /\ \A h \in DOMAIN process :
          /\ process'[h].state = "alive" => process[h].state = "alive"
          /\ process[h].state = "dead" => process'[h].state = "dead"

\* What was written first, and what became of a request that is over, stays.
LEMMA PipesKept ==
    ASSUME AnswerInv, PipeStep
    PROVE  /\ \A h \in DOMAIN process : 1 \in DOMAIN process[h].asked =>
                  /\ 1 \in DOMAIN process'[h].asked
                  /\ process'[h].asked[1] = process[h].asked[1]
           /\ \A j \in DOMAIN request :
                  /\ j \in DOMAIN request'
                  /\ request[j].state # "open" => request'[j] = request[j]
                  /\ request'[j].early = request[j].early
                  /\ request'[j].proc = request[j].proc /\ request'[j].by = request[j].by
<1>0. \A h \in DOMAIN process : process[h].asked \in Seq(Nat \ {0})
  BY Indices DEF AnswerInv, ProcessType
<1>1. CASE QuietStep \/ \E g \in DOMAIN process, m \in MessageType : LineStep(g, m)
  BY <1>1 DEF QuietStep, LineStep, SamePipes
<1>2. ASSUME NEW r \in RequestType, SpawnStep(r)
      PROVE  /\ \A h \in DOMAIN process : process'[h].asked = process[h].asked
             /\ \A j \in DOMAIN request : j \in DOMAIN request' /\ request'[j] = request[j]
  BY <1>2, RequestAppended DEF SpawnStep, SamePipes, AnswerInv
<1>3. ASSUME NEW g \in DOMAIN process, NEW r \in RequestType, WriteStep(g, r)
      PROVE  /\ \A h \in DOMAIN process : 1 \in DOMAIN process[h].asked =>
                    /\ 1 \in DOMAIN process'[h].asked
                    /\ process'[h].asked[1] = process[h].asked[1]
             /\ \A j \in DOMAIN request : j \in DOMAIN request' /\ request'[j] = request[j]
  <2>1. \A j \in DOMAIN request : j \in DOMAIN request' /\ request'[j] = request[j]
    BY <1>3, RequestAppended DEF WriteStep, AnswerInv
  <2>2. /\ process'[g].asked = Append(process[g].asked, Len(request) + 1)
        /\ \A h \in DOMAIN process : h # g => process'[h].asked = process[h].asked
    BY <1>3 DEF WriteStep
  <2>3. 1 \in DOMAIN process[g].asked =>
            /\ 1 \in DOMAIN process'[g].asked
            /\ process'[g].asked[1] = process[g].asked[1]
    BY <1>0, <2>2
  <2> QED
    BY <2>1, <2>2, <2>3
<1>4. ASSUME NEW i \in DOMAIN request, NEW r \in RequestType, SettleStep(i, r)
      PROVE  /\ \A h \in DOMAIN process : process'[h].asked = process[h].asked
             /\ \A j \in DOMAIN request :
                  /\ j \in DOMAIN request'
                  /\ request[j].state # "open" => request'[j] = request[j]
                  /\ request'[j].early = request[j].early
                  /\ request'[j].proc = request[j].proc /\ request'[j].by = request[j].by
  <2>1. /\ request' = [request EXCEPT ![i] = r]
        /\ r.proc = request[i].proc /\ r.early = request[i].early /\ r.by = request[i].by
        /\ \A h \in DOMAIN process : process'[h].asked = process[h].asked
    BY <1>4 DEF SettleStep, SamePipes
  <2>2. request[i].state = "open"
    BY <1>4 DEF SettleStep, AnswerInv, TypeInv, References
  <2>3. request \in Seq(RequestType)
    BY DEF AnswerInv, TypeInv, TypeOK
  <2> QED
    BY <2>1, <2>2, <2>3
<1> QED
  BY <1>1, <1>2, <1>3, <1>4 DEF PipeStep

LEMMA LeftMoves ==
    ASSUME AnswerInv, LeftInv, PipeStep, StatesStep, client'.proc = client.proc,
           \/ frame'[Owner] = frame[Owner]
           \/ /\ frame'[Owner].pc # "handshake"
              /\ frame'[Owner].pc = "waiting" => process'[client.proc].state # "alive"
              /\ frame'[Owner].pc = "reaping" => process'[client.proc].state = "dead"
              /\ \/ frame'[Owner].pc \notin {"out", "spawning"}
                 \/ client.proc = 0
                 \/ process[client.proc].state # "alive"
                 \/ request'[HandshakeOf(client.proc)].state = "raised"
    PROVE  LeftInv'
<1>1. OnlyOneLives'
  BY DEF OnlyOneLives, LeftInv, StatesStep
<1>2. client.proc # 0 => client.proc \in DOMAIN process
  BY Indices DEF AnswerInv
<1>3. frame[Owner].pc \in {"waiting", "reaping", "handshake"} => client.proc # 0
  BY DEF AnswerInv, TypeInv, References
<1>4. ClosesTheDead'
  BY <1>2, <1>3 DEF ClosesTheDead, LeftInv, StatesStep
<1>5. \A g \in DOMAIN process : /\ 1 \in DOMAIN process'[g].asked
                                /\ process'[g].asked[1] = process[g].asked[1]
  BY PipesKept DEF LeftInv, HandshakeIsFirst
<1>6. HandshakeIsFirst'
  BY <1>2, <1>3, <1>5 DEF HandshakeIsFirst, HandshakeOf, LeftInv, StatesStep
<1>7. NoProcessLeft'
  <2> SUFFICES ASSUME NEW g \in DOMAIN process, process'[g].state = "alive",
                      frame'[Owner].pc \in {"out", "spawning"}
               PROVE  /\ client'.proc = g
                      /\ request'[process'[g].asked[1]].state = "raised"
    BY DEF NoProcessLeft, HandshakeOf, StatesStep
  <2>1. process[g].state = "alive" /\ client.proc = g /\ g # 0
    BY Indices DEF StatesStep, LeftInv, OnlyOneLives, AnswerInv
  <2>2. CASE frame'[Owner] = frame[Owner]
    <3>1. request[HandshakeOf(g)].state = "raised"
      BY <2>1, <2>2 DEF LeftInv, NoProcessLeft
    <3>2. HandshakeOf(g) \in DOMAIN request
      BY DEF HandshakeOf, LeftInv, HandshakeIsFirst, AnswerInv, AskedExist
    <3>3. request'[HandshakeOf(g)] = request[HandshakeOf(g)]
      BY <3>1, <3>2, PipesKept
    <3> QED
      BY <1>5, <2>1, <3>1, <3>3 DEF HandshakeOf
  <2>3. CASE frame'[Owner] # frame[Owner]
    BY <1>5, <2>1, <2>3 DEF HandshakeOf
  <2> QED
    BY <2>2, <2>3
<1> QED
  BY <1>1, <1>4, <1>6, <1>7 DEF LeftInv

LEMMA OwnerGoes ==
    ASSUME AnswerInv, NEW pc \in Busy \cup {"out", "in"}, Goes(Owner, pc)
    PROVE  frame'[Owner].pc = pc
BY GoesStep, TaskTypes DEF AnswerInv, TypeInv

LEMMA LeftOwner ==
    ASSUME AnswerInv, LeftInv, PipeStep,
           Connect \/ SpawnFails \/ BeginClose \/ Waited \/ CancelWait \/ KillServer
    PROVE  LeftInv'
<1>1. client'.proc = client.proc
  BY DEF Connect, SpawnFails, BeginClose, Waited, CancelWait, KillServer
<1>2. frame[Owner].pc \notin {"out", "spawning"} => client.proc \in DOMAIN process
  BY Indices DEF AnswerInv, TypeInv, References
<1>3. CASE Connect \/ SpawnFails \/ BeginClose \/ Waited \/ CancelWait
  <2>1. StatesStep
    BY <1>3 DEF Connect, SpawnFails, BeginClose, Waited, CancelWait, StatesStep
  <2>2. PICK pc \in {"spawning", "out", "closing", "reaping"} :
            /\ Goes(Owner, pc)
            /\ pc = "reaping" => process'[client.proc].state = "dead"
            /\ pc \in {"spawning", "out"} =>
                   client.proc = 0 \/ process[client.proc].state # "alive"
    BY <1>3 DEF Connect, SpawnFails, BeginClose, Waited, CancelWait, LeftInv, ClosesTheDead,
                AnswerInv, TypeInv, References
  <2>3. frame'[Owner].pc = pc
    BY <2>2, OwnerGoes DEF Busy, Closing
  <2> QED
    BY <1>1, <2>1, <2>2, <2>3, LeftMoves
<1>4. CASE KillServer
  <2>1. client.proc \in DOMAIN process /\ process[client.proc] \in ProcessType
    BY <1>2, <1>4, Indices DEF KillServer, AnswerInv
  <2>2. CASE process[client.proc].state = "dead"
    <3>1. process' = process /\ frame'[Owner].pc = "reaping"
      BY <1>4, <2>2, OwnerGoes DEF KillServer, Busy, Closing
    <3> QED
      BY <1>1, <2>2, <3>1, LeftMoves DEF StatesStep
  <2>3. CASE process[client.proc].state # "dead"
    <3>1. /\ process' = [process EXCEPT ![client.proc].state = "killed"]
          /\ frame'[Owner].pc = "waiting"
      BY <1>4, <2>3, OwnerGoes DEF KillServer, Busy, Closing
    <3>2. process'[client.proc].state = "killed"
      BY <2>1, <3>1 DEF ProcessType
    <3>3. StatesStep
      BY <2>1, <2>3, <3>1, <3>2 DEF StatesStep
    <3> QED
      BY <1>1, <3>1, <3>2, <3>3, LeftMoves
  <2> QED
    BY <2>2, <2>3
<1> QED
  BY <1>3, <1>4

LEMMA LeftReap ==
    ASSUME AnswerInv, LeftInv, Reap
    PROVE  LeftInv'
<1>1. /\ process' = process /\ request' = request /\ client'.proc = 0
      /\ frame[Owner].pc = "reaping"
  BY ClientTypes DEF Reap, ClientType, AnswerInv
<1>2. frame'[Owner].pc = "out"
  BY OwnerGoes DEF Reap
<1>3. \A g \in DOMAIN process : process[g].state # "alive"
  BY <1>1 DEF LeftInv, OnlyOneLives, ClosesTheDead
<1> QED
  BY <1>1, <1>2, <1>3 DEF LeftInv, OnlyOneLives, ClosesTheDead, HandshakeIsFirst, NoProcessLeft

LEMMA LeftSpawn ==
    ASSUME AnswerInv, LeftInv, PipeStep, Spawn
    PROVE  LeftInv'
<1>1. PICK g, i : g = Len(process) + 1 /\ i = Len(request) + 1
  OBVIOUS
<1>2. PICK p : p = [state |-> "alive", shaken |-> FALSE, asked |-> <<i>>,
                    sent |-> <<>>, read |-> 0]
  OBVIOUS
<1>3. /\ process' = Append(process, p) /\ client'.proc = g
      /\ frame'[Owner].pc = "handshake" /\ frame'[Owner].req = i
      /\ frame[Owner].pc = "spawning" /\ client.proc = 0
  <2>1. process' = Append(process, p) /\ client' = [client EXCEPT !.proc = g, !.nextId = @ + 1]
        /\ frame' = [frame EXCEPT ![Owner] = [pc |-> "handshake", req |-> i]]
        /\ frame[Owner].pc = "spawning"
    BY <1>1, <1>2 DEF Spawn
  <2>2. i \in Nat
    BY <1>1, Indices DEF AnswerInv
  <2>3. frame'[Owner].pc = "handshake" /\ frame'[Owner].req = i
    BY <2>1, <2>2, WaitsStep, TaskTypes DEF AnswerInv, TypeInv
  <2>4. client'.proc = g
    BY <2>1, ClientTypes DEF ClientType, AnswerInv
  <2> QED
    BY <2>1, <2>3, <2>4 DEF AnswerInv, TypeInv, References
<1>4. /\ DOMAIN process' = DOMAIN process \cup {g} /\ process'[g] = p
      /\ \A h \in DOMAIN process : process'[h] = process[h] /\ h # 0
  BY <1>1, <1>3, Indices DEF AnswerInv, TypeInv, TypeOK
<1>5. \A h \in DOMAIN process : process[h].state # "alive"
  BY <1>3, <1>4 DEF LeftInv, OnlyOneLives
<1>6. OnlyOneLives' /\ ClosesTheDead' /\ NoProcessLeft'
  BY <1>3, <1>4, <1>5 DEF OnlyOneLives, ClosesTheDead, NoProcessLeft
<1>7. HandshakeIsFirst'
  BY <1>2, <1>3, <1>4 DEF HandshakeIsFirst, HandshakeOf, LeftInv
<1> QED
  BY <1>6, <1>7 DEF LeftInv

LEMMA LeftHandshake ==
    ASSUME AnswerInv, LeftInv, PipeStep,
           HandshakeReads \/ \E state \in {"refused", "raised"} : HandshakeGivesUp(state)
    PROVE  LeftInv'
<1>1. PICK r \in RequestType :
          /\ SettleStep(frame[Owner].req, r)
          /\ r.state \in {"answered", "refused", "raised"}
          /\ Goes(Owner, AfterHandshake(r.state))
          /\ client'.proc = client.proc
          /\ \A h \in DOMAIN process : process'[h].state = process[h].state
  BY HandshakeReadsStep, HandshakeGivesUpStep DEF AnswerInv
<1>2. /\ frame[Owner].pc = "handshake" /\ frame[Owner].req = HandshakeOf(client.proc)
      /\ frame[Owner].req \in DOMAIN request
  BY TaskTypes DEF HandshakeReads, HandshakeGivesUp, LeftInv, HandshakeIsFirst, AnswerInv,
                   TypeInv, References, Waiting
<1>3. request'[HandshakeOf(client.proc)] = r
  BY <1>1, <1>2 DEF SettleStep, AnswerInv, TypeInv, TypeOK
<1>4. StatesStep
  BY <1>1 DEF StatesStep, SettleStep
<1>5. CASE r.state = "raised"
  <2>1. frame'[Owner].pc = "out"
    BY <1>1, <1>5, OwnerGoes DEF AfterHandshake
  <2> QED
    BY <1>1, <1>3, <1>4, <1>5, <2>1, LeftMoves
<1>6. CASE r.state \in {"answered", "refused"}
  <2>1. frame'[Owner].pc \in {"in", "closing"}
    BY <1>1, <1>6, OwnerGoes DEF AfterHandshake, Busy, Closing
  <2> QED
    BY <1>1, <1>4, <2>1, LeftMoves
<1> QED
  BY <1>1, <1>5, <1>6

\* What a call does to the client and the processes.
LEMMA CallEffects ==
    ASSUME AnswerInv, NEW t \in Task,
           \/ BeginCall(t) \/ WriteFails(t) \/ (CancelCall(t) /\ frame[t].pc = "lock")
           \/ WriteRequest(t) \/ WriteBesideHandshake(t)
           \/ ReadAnswer(t) \/ CallGivesUp(t) \/ (CancelCall(t) /\ frame[t].pc = "reading")
    PROVE  /\ client'.proc = client.proc /\ client'.ready = client.ready
           /\ DOMAIN process' = DOMAIN process
           /\ \A h \in DOMAIN process : /\ process'[h].state = process[h].state
                                        /\ process'[h].shaken = process[h].shaken
           /\ \E pc \in {"in", "out", "lock", "reading", "closing"} :
                  /\ frame'[t].pc = pc
                  /\ pc = "lock" => MayCall
                  /\ t = Owner => pc # "out"
           /\ \A s \in Task : s # t => frame'[s] = frame[s]
<1>1. TypeInv /\ client \in ClientType
  BY ClientTypes DEF AnswerInv
<1>2. CASE BeginCall(t) \/ WriteFails(t) \/ (CancelCall(t) /\ frame[t].pc = "lock")
  <2>1. /\ process' = process
        /\ client' = client \/ client' = [client EXCEPT !.nextId = @ + 1]
    BY <1>2 DEF BeginCall, WriteFails, CancelCall
  <2>2. client'.proc = client.proc /\ client'.ready = client.ready
    BY <1>1, <2>1 DEF ClientType
  <2>3. PICK pc \in {"in", "out", "lock", "closing"} :
            Goes(t, pc) /\ (pc = "lock" => MayCall) /\ (t = Owner => pc # "out")
    BY <1>2, Rests DEF BeginCall, WriteFails, CancelCall, Rest
  <2> QED
    BY <1>1, <2>1, <2>2, <2>3, GoesStep DEF Busy, Calling, Closing, TypeInv
<1>3. CASE WriteRequest(t)
  <2>1. PICK g, i : g = client.proc /\ i = Len(request) + 1
    OBVIOUS
  <2>2. /\ g \in DOMAIN process /\ i \in Nat \ {0}
        /\ process' = [process EXCEPT ![g].asked = Append(@, i)]
        /\ client' = [client EXCEPT !.nextId = @ + 1, !.lock = t]
        /\ frame' = [frame EXCEPT ![t] = [pc |-> "reading", req |-> i]]
    BY <1>1, <1>3, <2>1, Indices DEF WriteRequest
  <2>3. \A h \in DOMAIN process : /\ process'[h].state = process[h].state
                                  /\ process'[h].shaken = process[h].shaken
    BY <1>1, <2>2, WrittenType
  <2>4. client'.proc = client.proc /\ client'.ready = client.ready
    BY <1>1, <2>2 DEF ClientType
  <2>5. frame'[t].pc = "reading" /\ \A s \in Task : s # t => frame'[s] = frame[s]
    BY <1>1, <2>2, WaitsStep DEF TypeInv
  <2> QED
    BY <2>2, <2>3, <2>4, <2>5
<1>4. CASE WriteBesideHandshake(t)
  <2>1. PICK g, i : g = client.proc /\ i = Len(request) + 1
    OBVIOUS
  <2>2. PICK n \in {0, 1}, pc \in {"in", "out"} :
            /\ g \in DOMAIN process /\ i \in Nat \ {0}
            /\ \/ n = 0 /\ process' = [process EXCEPT ![g].asked = Append(@, i)]
               \/ n = 1 /\ process' = [process EXCEPT ![g].asked = Append(@, i), ![g].read = @ + 1]
            /\ client' = [client EXCEPT !.nextId = @ + 1]
            /\ Goes(t, pc) /\ (t = Owner => pc # "out")
    BY <1>1, <1>4, <2>1, Indices, Rests DEF WriteBesideHandshake, Rest
  <2>3. /\ DOMAIN process' = DOMAIN process
        /\ \A h \in DOMAIN process : /\ process'[h].state = process[h].state
                                     /\ process'[h].shaken = process[h].shaken
    BY <1>1, <2>2, WrittenType
  <2>4. client'.proc = client.proc /\ client'.ready = client.ready
    BY <1>1, <2>2 DEF ClientType
  <2> QED
    BY <1>1, <2>2, <2>3, <2>4, GoesStep DEF TypeInv
<1>5. CASE \/ ReadAnswer(t) \/ CallGivesUp(t) \/ (CancelCall(t) /\ frame[t].pc = "reading")
  <2>1. \E r \in RequestType : SettleStep(frame[t].req, r)
    BY <1>1, <1>5, ReadAnswerStep, CallEndsStep
  <2>2. DOMAIN process' = DOMAIN process
    BY <2>1 DEF SettleStep
  <2>3. /\ client'.proc = client.proc /\ client'.ready = client.ready
        /\ \A h \in DOMAIN process : /\ process'[h].state = process[h].state
                                     /\ process'[h].shaken = process[h].shaken
    BY <1>1, <1>5, ReadAnswerStep, CallEndsStep
  <2>4. PICK pc \in {"in", "out", "closing"} : Goes(t, pc) /\ (t = Owner => pc # "out")
    BY <1>5, Rests DEF ReadAnswer, CallGivesUp, CancelCall, Rest
  <2> QED
    BY <1>1, <2>2, <2>3, <2>4, GoesStep DEF Busy, Closing, TypeInv
<1> QED
  BY <1>2, <1>3, <1>4, <1>5

LEMMA LeftCalls ==
    ASSUME AnswerInv, LeftInv, PipeStep, NEW t \in Task,
           \/ BeginCall(t) \/ WriteFails(t) \/ (CancelCall(t) /\ frame[t].pc = "lock")
           \/ WriteRequest(t) \/ WriteBesideHandshake(t)
           \/ ReadAnswer(t) \/ CallGivesUp(t) \/ (CancelCall(t) /\ frame[t].pc = "reading")
    PROVE  LeftInv'
<1>1. client'.proc = client.proc /\ StatesStep
  BY CallEffects DEF StatesStep
<1>2. \/ frame'[Owner] = frame[Owner]
      \/ frame'[Owner].pc \in {"in", "lock", "reading", "closing"}
  BY CallEffects, TaskTypes
<1> QED
  BY <1>1, <1>2, LeftMoves

LEMMA LeftServer ==
    ASSUME AnswerInv, LeftInv, PipeStep, Server
    PROVE  LeftInv'
<1>1. client' = client /\ frame' = frame
  BY DEF Server, Die, Answer
<1>2. StatesStep
  BY DieStep, AnswerStep DEF StatesStep, Server, AnswerInv
<1> QED
  BY <1>1, <1>2, LeftMoves

LEMMA LeftHolds == Spec => [](AnswerInv /\ LeftInv)
<1>1. Init => LeftInv
  <2> SUFFICES ASSUME Init PROVE LeftInv
    OBVIOUS
  <2>1. process = <<>> /\ frame[Owner].pc = "out"
    BY TaskTypes DEF Init, At
  <2> QED
    BY <2>1 DEF LeftInv, OnlyOneLives, ClosesTheDead, HandshakeIsFirst, NoProcessLeft
<1>2. AnswerInv /\ LeftInv /\ [Next]_vars => LeftInv'
  <2> SUFFICES ASSUME AnswerInv, LeftInv, [Next]_vars PROVE LeftInv'
    OBVIOUS
  <2>1. CASE UNCHANGED vars
    BY <2>1 DEF LeftInv, OnlyOneLives, ClosesTheDead, HandshakeIsFirst, HandshakeOf,
                NoProcessLeft, vars
  <2>2. CASE Next
    <3>1. PipeStep
      BY <2>2, PipesStep DEF AnswerInv
    <3> QED
      BY <2>2, <3>1, NextCases, LeftOwner, LeftReap, LeftSpawn, LeftHandshake, LeftCalls,
         LeftServer
  <2> QED
    BY <2>1, <2>2
<1> QED
  BY <1>1, <1>2, AnswersHold, PTL DEF Spec

\* Once the owner is out, by whatever exception, no server of its client lives on, unless
\* the handshake ended in an exception that connect does not foresee or a cancellation.
THEOREM NoneLeft == Spec => []NoProcessLeft
<1>1. LeftInv => NoProcessLeft
  BY DEF LeftInv
<1> QED
  BY <1>1, LeftHolds, PTL

-----------------------------------------------------------------------------
(* Calls follow the handshake: a client is ready when a handshake of it was completed, *)
(* and only a client that is ready lets a call begin.                                  *)

ReadyIsShaken ==
    /\ client.ready => \E g \in DOMAIN process : process[g].shaken
    /\ \A t \in Task : frame[t].pc = "lock" => client.ready
    /\ frame[Owner].pc = "handshake" => ~process[client.proc].shaken

FollowInv == ReadyIsShaken /\ CallsFollowHandshake

\* A step that completes no handshake and begins none.
LEMMA FollowKept ==
    ASSUME AnswerInv, FollowInv, PipeStep, DOMAIN process' = DOMAIN process,
           client'.ready = client.ready,
           \A h \in DOMAIN process : process'[h].shaken = process[h].shaken,
           \A t \in Task : frame'[t].pc = "lock" => frame[t].pc = "lock" \/ client.ready,
           frame'[Owner].pc = "handshake" =>
               frame[Owner].pc = "handshake" /\ client'.proc = client.proc,
           \A j \in DOMAIN request' \ DOMAIN request :
               request'[j].early => client.ready /\ request'[j].proc = client.proc
                                    /\ client.proc # 0 /\ ~process[client.proc].shaken
    PROVE  FollowInv'
<1>1. frame[Owner].pc = "handshake" => client.proc \in DOMAIN process
  BY Indices DEF AnswerInv, TypeInv, References
<1>2. ReadyIsShaken'
  BY <1>1 DEF ReadyIsShaken, FollowInv
<1>3. CallsFollowHandshake'
  <2> SUFFICES ASSUME NEW j \in DOMAIN request', request'[j].early
               PROVE  \E g \in 1..(request'[j].proc - 1) : process'[g].shaken
    BY DEF CallsFollowHandshake
  <2>1. DOMAIN process = 1..Len(process) /\ Len(process) \in Nat
    BY Indices DEF AnswerInv
  <2>2. CASE j \in DOMAIN request
    <3>1. request[j].early /\ request'[j].proc = request[j].proc
      BY <2>2, PipesKept
    <3>2. request[j].proc \in DOMAIN process
      BY <2>2 DEF AnswerInv, TypeInv, References
    <3>3. PICK g \in 1..(request[j].proc - 1) : process[g].shaken
      BY <2>2, <3>1 DEF FollowInv, CallsFollowHandshake
    <3>4. g \in DOMAIN process
      BY <2>1, <3>2
    <3> QED
      BY <3>1, <3>3, <3>4
  <2>3. CASE j \notin DOMAIN request
    <3>1. /\ client.ready /\ request'[j].proc = client.proc
          /\ client.proc # 0 /\ ~process[client.proc].shaken
      BY <2>3
    <3>2. PICK g \in DOMAIN process : process[g].shaken
      BY <3>1 DEF FollowInv, ReadyIsShaken
    <3>3. client.proc = Len(process)
      BY <3>1 DEF AnswerInv, TypeInv, References
    <3>4. g \in 1..(client.proc - 1)
      BY <2>1, <3>1, <3>2, <3>3
    <3> QED
      BY <3>1, <3>2, <3>4
  <2> QED
    BY <2>2, <2>3
<1> QED
  BY <1>2, <1>3 DEF FollowInv

\* An early request is one of a call that got past MayCall, on the client's process.
LEMMA FollowCalls ==
    ASSUME AnswerInv, FollowInv, PipeStep, NEW t \in Task,
           \/ BeginCall(t) \/ WriteFails(t) \/ (CancelCall(t) /\ frame[t].pc = "lock")
           \/ WriteRequest(t) \/ WriteBesideHandshake(t)
           \/ ReadAnswer(t) \/ CallGivesUp(t) \/ (CancelCall(t) /\ frame[t].pc = "reading")
    PROVE  FollowInv'
<1>1. /\ DOMAIN process' = DOMAIN process
      /\ client'.ready = client.ready /\ client'.proc = client.proc
      /\ \A h \in DOMAIN process : process'[h].shaken = process[h].shaken
  BY CallEffects
<1>2. /\ \A s \in Task : frame'[s].pc = "lock" => frame[s].pc = "lock" \/ client.ready
      /\ frame'[Owner].pc = "handshake" => frame[Owner].pc = "handshake"
  BY CallEffects, TaskTypes DEF MayCall
<1>3. ASSUME NEW j \in DOMAIN request' \ DOMAIN request, request'[j].early
      PROVE  /\ client.ready /\ request'[j].proc = client.proc
             /\ client.proc # 0 /\ ~process[client.proc].shaken
  <2>1. CASE WriteRequest(t) \/ WriteBesideHandshake(t)
    <3>1. PICK r \in RequestType : WriteStep(client.proc, r)
      BY <2>1, WriteSteps, BesideSteps DEF AnswerInv
    <3>2. request'[j] = r
      BY <1>3, <3>1, RequestAppended DEF WriteStep, AnswerInv
    <3>3. frame[t].pc = "lock" /\ client.proc # 0
      BY <2>1 DEF WriteRequest, WriteBesideHandshake
    <3> QED
      BY <1>3, <3>1, <3>2, <3>3 DEF WriteStep, FollowInv, ReadyIsShaken
  <2>2. CASE \/ BeginCall(t) \/ WriteFails(t) \/ (CancelCall(t) /\ frame[t].pc = "lock")
    BY <1>3, <2>2 DEF BeginCall, WriteFails, CancelCall
  <2>3. CASE \/ ReadAnswer(t) \/ CallGivesUp(t) \/ (CancelCall(t) /\ frame[t].pc = "reading")
    BY <1>3, <2>3, ReadAnswerStep, CallEndsStep DEF SettleStep, AnswerInv
  <2> QED
    BY <2>1, <2>2, <2>3
<1> QED
  BY <1>1, <1>2, <1>3, FollowKept

LEMMA FollowOwner ==
    ASSUME AnswerInv, FollowInv, PipeStep,
           \/ Connect \/ SpawnFails \/ BeginClose \/ Waited \/ CancelWait \/ Reap
           \/ KillServer \/ Server
           \/ \E state \in {"refused", "raised"} : HandshakeGivesUp(state)
    PROVE  FollowInv'
<1>1. DOMAIN request' = DOMAIN request
  BY HandshakeGivesUpStep DEF Connect, SpawnFails, BeginClose, Waited, CancelWait, Reap,
     KillServer, Server, Die, Answer, AnswerInv, SettleStep
<1>2. client'.ready = client.ready
  BY ClientTypes DEF Connect, SpawnFails, BeginClose, Waited, CancelWait, Reap, KillServer,
     Server, Die, Answer, HandshakeGivesUp, AnswerInv, ClientType
<1>3. /\ DOMAIN process' = DOMAIN process
      /\ \A h \in DOMAIN process : process'[h].shaken = process[h].shaken
  <2>1. CASE Server
    BY <2>1, DieStep, AnswerStep DEF Server, AnswerInv
  <2>2. CASE KillServer
    <3>1. client.proc \in DOMAIN process /\ process[client.proc] \in ProcessType
      BY <2>2, Indices DEF KillServer, AnswerInv, TypeInv, References
    <3>2. process' = process \/ process' = [process EXCEPT ![client.proc].state = "killed"]
      BY <2>2 DEF KillServer
    <3> QED
      BY <3>1, <3>2 DEF ProcessType
  <2>3. CASE \/ Connect \/ SpawnFails \/ BeginClose \/ Waited \/ CancelWait \/ Reap
             \/ \E state \in {"refused", "raised"} : HandshakeGivesUp(state)
    BY <2>3 DEF Connect, SpawnFails, BeginClose, Waited, CancelWait, Reap, HandshakeGivesUp
  <2> QED
    BY <2>1, <2>2, <2>3
<1>4. \/ frame' = frame /\ client' = client
      \/ \E pc \in {"spawning", "out", "closing", "reaping", "waiting", "in"} : Goes(Owner, pc)
  BY DEF Connect, SpawnFails, BeginClose, Waited, CancelWait, Reap, KillServer,
     Server, Die, Answer, HandshakeGivesUp, AfterHandshake
<1>5. /\ \A t \in Task : frame'[t].pc = "lock" => frame[t].pc = "lock"
      /\ frame'[Owner].pc = "handshake" => frame[Owner].pc = "handshake" /\ client' = client
  BY <1>4, GoesStep, TaskTypes DEF Busy, Closing, AnswerInv, TypeInv
<1> QED
  BY <1>1, <1>2, <1>3, <1>5, FollowKept

LEMMA FollowHandshake ==
    ASSUME AnswerInv, FollowInv, PipeStep, HandshakeReads
    PROVE  FollowInv'
<1>1. PICK r \in RequestType :
          /\ SettleStep(frame[Owner].req, r)
          /\ Goes(Owner, AfterHandshake(r.state))
          /\ r.state \in {"answered", "refused", "raised"}
          /\ client'.ready = (client.ready \/ r.state = "answered")
          /\ \A h \in DOMAIN process : h # client.proc => process'[h].shaken = process[h].shaken
          /\ process'[client.proc].shaken = (r.state = "answered")
  BY HandshakeReadsStep DEF AnswerInv
<1>2. /\ frame[Owner].pc = "handshake" /\ client.proc \in DOMAIN process
      /\ ~process[client.proc].shaken
  BY Indices DEF HandshakeReads, AnswerInv, TypeInv, References, FollowInv, ReadyIsShaken
<1>3. DOMAIN process' = DOMAIN process /\ DOMAIN request' = DOMAIN request
  BY <1>1 DEF SettleStep
<1>4. /\ frame'[Owner].pc \in {"in", "closing", "out"}
      /\ \A t \in Task : frame'[t].pc = "lock" => frame[t].pc = "lock"
  <2>1. PICK pc \in {"in", "closing", "out"} : Goes(Owner, pc)
    BY <1>1 DEF AfterHandshake
  <2> QED
    BY <2>1, GoesStep, TaskTypes DEF Busy, Closing, AnswerInv, TypeInv
<1>5. \A h \in DOMAIN process : process[h].shaken => process'[h].shaken
  BY <1>1, <1>2
<1>6. ReadyIsShaken'
  BY <1>1, <1>2, <1>3, <1>4, <1>5 DEF FollowInv, ReadyIsShaken
<1>7. CallsFollowHandshake'
  <2> SUFFICES ASSUME NEW j \in DOMAIN request', request'[j].early
               PROVE  \E g \in 1..(request'[j].proc - 1) : process'[g].shaken
    BY DEF CallsFollowHandshake
  <2>1. j \in DOMAIN request /\ request[j].early /\ request'[j].proc = request[j].proc
    BY <1>3, PipesKept
  <2>2. PICK g \in 1..(request[j].proc - 1) : process[g].shaken
    BY <2>1 DEF FollowInv, CallsFollowHandshake
  <2>3. g \in DOMAIN process
    BY <2>1, <2>2, Indices DEF AnswerInv, TypeInv, References
  <2> QED
    BY <1>5, <2>1, <2>2, <2>3
<1> QED
  BY <1>6, <1>7 DEF FollowInv

LEMMA FollowSpawn ==
    ASSUME AnswerInv, FollowInv, PipeStep, Spawn
    PROVE  FollowInv'
<1>1. PICK g, i : g = Len(process) + 1 /\ i = Len(request) + 1
  OBVIOUS
<1>2. PICK p : p = [state |-> "alive", shaken |-> FALSE, asked |-> <<i>>,
                    sent |-> <<>>, read |-> 0]
  OBVIOUS
<1>3. PICK r \in RequestType : SpawnStep(r)
  BY SpawnSteps DEF AnswerInv
<1>4. /\ process' = Append(process, p) /\ frame'[Owner].pc = "handshake"
      /\ client'.proc = g /\ client'.ready = client.ready
      /\ \A t \in Task : t # Owner => frame'[t] = frame[t]
  <2>1. /\ process' = Append(process, p)
        /\ client' = [client EXCEPT !.proc = g, !.nextId = @ + 1]
        /\ frame' = [frame EXCEPT ![Owner] = [pc |-> "handshake", req |-> i]]
        /\ i \in Nat
    BY <1>1, <1>2, Indices DEF Spawn, AnswerInv
  <2>2. /\ frame'[Owner].pc = "handshake"
        /\ \A t \in Task : t # Owner => frame'[t] = frame[t]
    BY <2>1, WaitsStep, TaskTypes DEF AnswerInv, TypeInv
  <2> QED
    BY <2>1, <2>2, ClientTypes DEF ClientType, AnswerInv
<1>5. /\ DOMAIN process' = DOMAIN process \cup {g} /\ process'[g] = p
      /\ \A h \in DOMAIN process : process'[h] = process[h]
  BY <1>1, <1>4, Indices DEF AnswerInv, TypeInv, TypeOK
<1>6. \A t \in Task : frame'[t].pc = "lock" => frame[t].pc = "lock"
  BY <1>4
<1>7. ReadyIsShaken'
  BY <1>2, <1>4, <1>5, <1>6 DEF ReadyIsShaken, FollowInv
<1>8. CallsFollowHandshake'
  <2> SUFFICES ASSUME NEW j \in DOMAIN request', request'[j].early
               PROVE  \E h \in 1..(request'[j].proc - 1) : process'[h].shaken
    BY DEF CallsFollowHandshake
  <2>1. request' = Append(request, r) /\ ~r.early
    BY <1>3 DEF SpawnStep
  <2>2. j \in DOMAIN request /\ request'[j] = request[j]
    BY <2>1, RequestAppended DEF AnswerInv
  <2>3. PICK h \in 1..(request[j].proc - 1) : process[h].shaken
    BY <2>2 DEF FollowInv, CallsFollowHandshake
  <2>4. h \in DOMAIN process
    BY <2>2, <2>3, Indices DEF AnswerInv, TypeInv, References
  <2> QED
    BY <1>5, <2>2, <2>3, <2>4
<1> QED
  BY <1>7, <1>8 DEF FollowInv

\* No tools/call is written before the handshake of its server is complete, unless the
\* client was connected before: _handshake_done then still stands.
THEOREM CallsAreShaken == Spec => []CallsFollowHandshake
<1>1. Init => FollowInv
  BY DEF Init, FollowInv, ReadyIsShaken, CallsFollowHandshake, At, Task
<1>2. AnswerInv /\ FollowInv /\ [Next]_vars => FollowInv'
  <2> SUFFICES ASSUME AnswerInv, FollowInv, [Next]_vars PROVE FollowInv'
    OBVIOUS
  <2>1. CASE UNCHANGED vars
    BY <2>1 DEF FollowInv, ReadyIsShaken, CallsFollowHandshake, vars
  <2>2. CASE Next
    <3>1. PipeStep
      BY <2>2, PipesStep DEF AnswerInv
    <3> QED
      BY <2>2, <3>1, NextCases, FollowCalls, FollowOwner, FollowHandshake, FollowSpawn
  <2> QED
    BY <2>1, <2>2
<1>3. FollowInv => CallsFollowHandshake
  BY DEF FollowInv
<1> QED
  BY <1>1, <1>2, <1>3, AnswersHold, PTL DEF Spec

-----------------------------------------------------------------------------
(* A timeout spoils the rest: of a process as many requests were given a line as lines *)
(* were read, so one that was given none leaves the later ones a line behind.          *)

AskedInOrder ==
    /\ \A g \in DOMAIN process : \A k, l \in DOMAIN process[g].asked :
           k < l => process[g].asked[k] < process[g].asked[l]
    /\ \A g \in DOMAIN process : \A k \in DOMAIN process[g].asked :
           request[process[g].asked[k]].proc = g
    /\ \A i \in DOMAIN request : \E k \in DOMAIN process[request[i].proc].asked :
           process[request[i].proc].asked[k] = i

GivenLine(g) == {k \in DOMAIN process[g].asked : request[process[g].asked[k]].read}

ReadIsCounted ==
    \A g \in DOMAIN process :
        IsFiniteSet(GivenLine(g)) /\ process[g].read = Cardinality(GivenLine(g))

\* Its task waits for an open request, and what came after it failed at once.
OpenIsAwaited ==
    \A i \in DOMAIN request : request[i].state = "open" =>
        Waiting(request[i].by) /\ frame[request[i].by].req = i

OpenIsAlone ==
    \A i, j \in DOMAIN request : request[i].state = "open" /\ request[j].proc = request[i].proc =>
        /\ i < j => request[j].state \in {"refused", "raised"}
        /\ j < i => \A l \in DOMAIN request : request[l].proc = request[i].proc => l <= i

SpoilInv ==
    AskedInOrder /\ ReadIsCounted /\ OpenIsAwaited /\ OpenIsAlone /\ TimeoutSpoilsTheRest

\* The bounds of what was asked of a process.
LEMMA AskedTypes ==
    ASSUME AnswerInv, NEW g \in DOMAIN process
    PROVE  /\ process[g].asked \in Seq(Nat \ {0}) /\ process[g].sent \in Seq(MessageType)
           /\ Len(process[g].asked) \in Nat /\ process[g].read \in Nat
           /\ DOMAIN process[g].asked = 1..Len(process[g].asked)
           /\ \A k \in DOMAIN process[g].asked : process[g].asked[k] \in DOMAIN request
BY Indices DEF AnswerInv, AskedExist, ProcessType

\* A request that is answered now has its place in asked where the line has its place in
\* sent, and every request before it was given a line.
LEMMA OrderlyAnswer ==
    ASSUME AnswerInv, SpoilInv, NEW i \in DOMAIN request, NEW j \in DOMAIN request,
           NEW r \in RequestType, SettleStep(j, r), r.state = "answered", i < j,
           request[i].proc = request[j].proc, Orderly(request[j].proc), Abandoned(i)
    PROVE  FALSE
<1>1. PICK g \in DOMAIN process : g = request[j].proc
  BY DEF AnswerInv, TypeInv, References
<1>2. PICK n : n = process[g].read
  OBVIOUS
<1>3. /\ n \in Nat /\ DOMAIN process[g].asked = 1..Len(process[g].asked)
      /\ Len(process[g].asked) \in Nat
  BY <1>1, <1>2, AskedTypes
<1>4. /\ Unread(g) /\ r.of = NextLine(g).of
  BY <1>1 DEF SettleStep
<1>5. r.of = j
  BY <1>1, AnswerSettle DEF AnswersAreOwn, SettleStep, AnswerInv, TypeInv, TypeOK
<1>6. n + 1 \in DOMAIN process[g].sent /\ NextLine(g) = process[g].sent[n + 1]
  BY <1>2, <1>4, LineType DEF AnswerInv, NextLine
<1>7. n + 1 \in DOMAIN process[g].asked /\ process[g].asked[n + 1] = j
  BY <1>1, <1>4, <1>5, <1>6 DEF Orderly
<1>8. request[j].state = "open" /\ ~request[j].read
  BY DEF SettleStep, AnswerInv, TypeInv, References
<1>9. \A l \in DOMAIN request : request[l].proc = g => l <= j
  BY <1>1, <1>8 DEF SpoilInv, OpenIsAlone
<1>10. PICK k \in DOMAIN process[g].asked : process[g].asked[k] = i
  BY <1>1 DEF SpoilInv, AskedInOrder
<1>11. \A l \in DOMAIN process[g].asked : process[g].asked[l] \in Nat /\ l \in Nat
  BY <1>1, <1>3, AskedTypes, Indices DEF AnswerInv
<1>12. GivenLine(g) \subseteq (1..n) \ {k}
  <2> SUFFICES ASSUME NEW l \in GivenLine(g) PROVE l \in (1..n) \ {k}
    OBVIOUS
  <2>1. l \in DOMAIN process[g].asked /\ request[process[g].asked[l]].read
    BY DEF GivenLine
  <2>2. l # k
    BY <1>10, <2>1 DEF Abandoned
  <2>3. l # n + 1
    BY <1>7, <1>8, <2>1
  <2>4. ~(n + 1 < l)
    <3>1. process[g].asked[l] \in DOMAIN request /\ request[process[g].asked[l]].proc = g
      BY <1>1, <2>1, AskedTypes DEF SpoilInv, AskedInOrder
    <3>2. process[g].asked[l] <= j
      BY <1>9, <3>1
    <3>3. n + 1 < l => j < process[g].asked[l]
      BY <1>7, <2>1 DEF SpoilInv, AskedInOrder
    <3> QED
      BY <1>7, <1>11, <2>1, <3>2, <3>3
  <2> QED
    BY <1>3, <2>1, <2>2, <2>3, <2>4
<1>13. k \in 1..n
  <2>1. k # n + 1
    BY <1>7, <1>10, Indices DEF AnswerInv
  <2>2. n + 1 < k => j < i
    BY <1>7, <1>10 DEF SpoilInv, AskedInOrder
  <2> QED
    BY <1>3, <1>10, <2>1, <2>2, Indices DEF AnswerInv
<1>14. IsFiniteSet(1..n) /\ Cardinality(1..n) = n
  BY <1>3, FS_Interval
<1>15. IsFiniteSet((1..n) \ {k}) /\ Cardinality((1..n) \ {k}) = n - 1
  BY <1>13, <1>14, FS_RemoveElement
<1>16. Cardinality(GivenLine(g)) <= n - 1 /\ Cardinality(GivenLine(g)) = n
  BY <1>2, <1>12, <1>15, FS_Subset DEF SpoilInv, ReadIsCounted
<1> QED
  BY <1>3, <1>16

LEMMA Appended ==
    ASSUME NEW S, NEW q \in Seq(S), NEW e \in S
    PROVE  /\ \A k \in DOMAIN q : k \in DOMAIN Append(q, e) /\ Append(q, e)[k] = q[k]
           /\ \A k \in DOMAIN Append(q, e) \ DOMAIN q : Append(q, e)[k] = e
           /\ DOMAIN Append(q, e) = DOMAIN q \cup {Len(q) + 1}
           /\ Append(q, e)[Len(q) + 1] = e /\ Len(q) + 1 \notin DOMAIN q
OBVIOUS

\* Pipes only grow, and what is written to one now is a new request.
LEMMA PipesGrow ==
    ASSUME AnswerInv, PipeStep, NEW h \in DOMAIN process
    PROVE  /\ h \in DOMAIN process'
           /\ \A k \in DOMAIN process[h].sent :
                  k \in DOMAIN process'[h].sent /\ process'[h].sent[k] = process[h].sent[k]
           /\ \A k \in DOMAIN process[h].asked :
                  k \in DOMAIN process'[h].asked /\ process'[h].asked[k] = process[h].asked[k]
           /\ \A k \in DOMAIN process'[h].asked \ DOMAIN process[h].asked :
                  process'[h].asked[k] = Len(request) + 1
<1>1. process[h].asked \in Seq(Nat \ {0}) /\ process[h].sent \in Seq(MessageType)
  BY AskedTypes
<1>2. h \in 1..Len(process) /\ Len(process) \in Nat
  BY Indices DEF AnswerInv
<1>3. CASE QuietStep
  BY <1>3 DEF QuietStep, SamePipes
<1>4. ASSUME NEW g \in DOMAIN process, NEW m \in MessageType, LineStep(g, m)
      PROVE  /\ h \in DOMAIN process' /\ process'[h].asked = process[h].asked
             /\ process'[h].sent = process[h].sent \/ process'[h].sent = Append(process[h].sent, m)
  BY <1>4 DEF LineStep
<1>5. ASSUME NEW r \in RequestType, SpawnStep(r)
      PROVE  h \in DOMAIN process' /\ SamePipes(h)
  BY <1>2, <1>5 DEF SpawnStep
<1>6. ASSUME NEW g \in DOMAIN process, NEW r \in RequestType, WriteStep(g, r)
      PROVE  /\ h \in DOMAIN process' /\ process'[h].sent = process[h].sent
             /\ \/ process'[h].asked = process[h].asked
                \/ process'[h].asked = Append(process[h].asked, Len(request) + 1)
  BY <1>6 DEF WriteStep
<1>7. ASSUME NEW i \in DOMAIN request, NEW r \in RequestType, SettleStep(i, r)
      PROVE  h \in DOMAIN process' /\ SamePipes(h)
  BY <1>7 DEF SettleStep
<1>8. CASE \E g \in DOMAIN process, m \in MessageType : LineStep(g, m)
  <2>1. PICK g \in DOMAIN process, m \in MessageType : LineStep(g, m)
    BY <1>8
  <2>2. \A k \in DOMAIN process[h].sent :
            k \in DOMAIN process'[h].sent /\ process'[h].sent[k] = process[h].sent[k]
    BY <1>1, <1>4, <2>1, Appended
  <2> QED
    BY <1>4, <2>1, <2>2
<1>9. CASE \E g \in DOMAIN process, r \in RequestType : WriteStep(g, r)
  <2>1. PICK g \in DOMAIN process, r \in RequestType : WriteStep(g, r)
    BY <1>9
  <2>2. Len(request) + 1 \in Nat \ {0}
    BY Indices DEF AnswerInv
  <2>3. CASE process'[h].asked = Append(process[h].asked, Len(request) + 1)
    BY <1>1, <1>6, <2>1, <2>2, <2>3, Appended
  <2>4. CASE process'[h].asked = process[h].asked
    BY <1>6, <2>1, <2>4
  <2> QED
    BY <1>6, <2>1, <2>3, <2>4
<1>10. CASE \/ \E r \in RequestType : SpawnStep(r)
            \/ \E i \in DOMAIN request, r \in RequestType : SettleStep(i, r)
  BY <1>5, <1>7, <1>10 DEF SamePipes
<1> QED
  BY <1>3, <1>8, <1>9, <1>10 DEF PipeStep

LEMMA OrderlyBefore ==
    ASSUME AnswerInv, PipeStep, NEW g \in DOMAIN process, Orderly(g)'
    PROVE  Orderly(g)
<1> SUFFICES ASSUME NEW k \in DOMAIN process[g].sent
             PROVE  k \in DOMAIN process[g].asked /\ process[g].sent[k].of = process[g].asked[k]
  BY DEF Orderly
<1>1. k \in DOMAIN process'[g].asked /\ process[g].sent[k].of = process'[g].asked[k]
  BY PipesGrow DEF Orderly
<1>2. process[g].sent[k].of \in DOMAIN request \cup {0}
  BY DEF AnswerInv, LinesAreHonest
<1>3. process'[g].asked[k] # Len(request) + 1
  BY <1>1, <1>2, Indices DEF AnswerInv
<1> QED
  BY <1>1, <1>3, PipesGrow

\* What a step can do to a request.
LEMMA RequestMoves ==
    ASSUME AnswerInv, PipeStep, NEW j \in DOMAIN request'
    PROVE  \/ j \in DOMAIN request /\ request'[j] = request[j]
           \/ j \in DOMAIN request /\ \E r \in RequestType : SettleStep(j, r) /\ request'[j] = r
           \/ j \notin DOMAIN request /\ request'[j].state # "answered"
<1>1. CASE QuietStep \/ \E g \in DOMAIN process, m \in MessageType : LineStep(g, m)
  BY <1>1 DEF QuietStep, LineStep
<1>2. ASSUME NEW r \in RequestType, request' = Append(request, r), r.state # "answered"
      PROVE  \/ j \in DOMAIN request /\ request'[j] = request[j]
             \/ j \notin DOMAIN request /\ request'[j].state # "answered"
  BY <1>2, RequestAppended DEF AnswerInv
<1>3. CASE \/ \E r \in RequestType : SpawnStep(r)
           \/ \E g \in DOMAIN process, r \in RequestType : WriteStep(g, r)
  BY <1>2, <1>3, NotAnsweredYet DEF SpawnStep, WriteStep
<1>4. ASSUME NEW i \in DOMAIN request, NEW r \in RequestType, SettleStep(i, r)
      PROVE  \/ j \in DOMAIN request /\ request'[j] = request[j]
             \/ j \in DOMAIN request /\ SettleStep(j, r) /\ request'[j] = r
  <2>1. request' = [request EXCEPT ![i] = r] /\ request \in Seq(RequestType)
    BY <1>4 DEF SettleStep, AnswerInv, TypeInv, TypeOK
  <2> QED
    BY <1>4, <2>1
<1> QED
  BY <1>1, <1>3, <1>4 DEF PipeStep

LEMMA SpoilTimeout ==
    ASSUME AnswerInv, SpoilInv, PipeStep
    PROVE  TimeoutSpoilsTheRest'
<1> SUFFICES ASSUME NEW i \in DOMAIN request', NEW j \in DOMAIN request', i < j,
                    NEW g, g = request'[j].proc, request'[i].proc = g,
                    Abandoned(i)', Orderly(g)', request'[j].state = "answered"
             PROVE  FALSE
  BY DEF TimeoutSpoilsTheRest, Abandoned, Orderly
<1>1. j \in DOMAIN request
  BY RequestMoves
<1>2. i \in DOMAIN request
  <2>1. \A l \in DOMAIN request' : l \in Nat /\ (l < j => l \in DOMAIN request)
    BY <1>1, PipesKept, RequestAppended, Indices
       DEF PipeStep, QuietStep, LineStep, SpawnStep, WriteStep, SettleStep, AnswerInv
  <2> QED
    BY <2>1
<1>3. /\ request'[i].proc = request[i].proc /\ request'[j].proc = request[j].proc
      /\ request[j].proc \in DOMAIN process
  BY <1>1, <1>2, PipesKept DEF AnswerInv, TypeInv, References
<1>4. g = request[j].proc /\ Orderly(g)
  BY <1>3, OrderlyBefore
<1>5. CASE request'[j] = request[j]
  <2>1. request[i].state # "open"
    BY <1>1, <1>2, <1>3, <1>5 DEF SpoilInv, OpenIsAlone
  <2>2. request'[i] = request[i]
    BY <1>2, <2>1, PipesKept
  <2>3. Abandoned(i)
    BY <2>2 DEF Abandoned
  <2> QED
    BY <1>1, <1>2, <1>3, <1>4, <1>5, <2>3 DEF SpoilInv, TimeoutSpoilsTheRest
<1>6. CASE request'[j] # request[j]
  <2>1. PICK r \in RequestType : SettleStep(j, r) /\ request'[j] = r
    BY <1>1, <1>6, RequestMoves
  <2>2. request'[i] = request[i]
    <3>1. request' = [request EXCEPT ![j] = r] /\ i # j
      BY <2>1, <1>1, <1>2, Indices DEF SettleStep, AnswerInv
    <3> QED
      BY <1>2, <3>1 DEF AnswerInv, TypeInv, TypeOK
  <2>3. Abandoned(i)
    BY <2>2 DEF Abandoned
  <2> QED
    BY <1>1, <1>2, <1>3, <1>4, <2>1, <2>3, OrderlyAnswer
<1> QED
  BY <1>5, <1>6

\* The steps that write nothing to a server.
LEMMA OrderKept ==
    ASSUME AnswerInv, SpoilInv, PipeStep, DOMAIN process' = DOMAIN process,
           DOMAIN request' = DOMAIN request,
           \A h \in DOMAIN process : process'[h].asked = process[h].asked
    PROVE  AskedInOrder'
<1>1. \A i \in DOMAIN request : request'[i].proc = request[i].proc
  BY PipesKept
<1>2. \A g \in DOMAIN process : \A k \in DOMAIN process[g].asked :
          process[g].asked[k] \in DOMAIN request
  BY AskedTypes
<1>3. \A i \in DOMAIN request : request[i].proc \in DOMAIN process
  BY DEF AnswerInv, TypeInv, References
<1> QED
  BY <1>1, <1>2, <1>3 DEF SpoilInv, AskedInOrder

LEMMA OrderSpawn ==
    ASSUME AnswerInv, SpoilInv, NEW r \in RequestType, SpawnStep(r)
    PROVE  AskedInOrder' /\ ReadIsCounted'
<1>1. PICK g, n : g = Len(process) + 1 /\ n = Len(request) + 1
  OBVIOUS
<1>2. /\ DOMAIN process' = DOMAIN process \cup {g} /\ g \notin DOMAIN process
      /\ \A h \in DOMAIN process : SamePipes(h) /\ process'[h].read = process[h].read
      /\ process'[g].asked = <<n>> /\ process'[g].read = 0
      /\ r.proc = g /\ ~r.read
  BY <1>1, Indices DEF SpawnStep, AnswerInv
<1>3. /\ DOMAIN request' = DOMAIN request \cup {n} /\ n \notin DOMAIN request
      /\ request'[n] = r /\ \A j \in DOMAIN request : request'[j] = request[j]
  BY <1>1, RequestAppended, Indices DEF SpawnStep, AnswerInv
<1>4. \A h \in DOMAIN process : \A k \in DOMAIN process[h].asked :
          process[h].asked[k] \in DOMAIN request
  BY AskedTypes
<1>5. \A i \in DOMAIN request : request[i].proc \in DOMAIN process
  BY DEF AnswerInv, TypeInv, References
<1>6. AskedInOrder'
  <2>1. \A h \in DOMAIN process' : \A k, l \in DOMAIN process'[h].asked :
            k < l => process'[h].asked[k] < process'[h].asked[l]
    BY <1>2 DEF SamePipes, SpoilInv, AskedInOrder
  <2>2. \A h \in DOMAIN process' : \A k \in DOMAIN process'[h].asked :
            request'[process'[h].asked[k]].proc = h
    BY <1>2, <1>3, <1>4 DEF SamePipes, SpoilInv, AskedInOrder
  <2>3. ASSUME NEW i \in DOMAIN request'
        PROVE  \E k \in DOMAIN process'[request'[i].proc].asked :
                   process'[request'[i].proc].asked[k] = i
    <3>1. CASE i = n
      <4>1. 1 \in DOMAIN process'[g].asked /\ process'[g].asked[1] = n
        BY <1>2
      <4> QED
        BY <1>2, <1>3, <3>1, <4>1
    <3>2. CASE i # n
      BY <1>2, <1>3, <1>5, <3>2 DEF SamePipes, SpoilInv, AskedInOrder
    <3> QED
      BY <3>1, <3>2
  <2> QED
    BY <2>1, <2>2, <2>3 DEF AskedInOrder
<1>7. ASSUME NEW h \in DOMAIN process'
      PROVE  IsFiniteSet(GivenLine(h)') /\ process'[h].read = Cardinality(GivenLine(h)')
  <2>1. CASE h = g
    <3>1. GivenLine(g)' = {}
      BY <1>2, <1>3 DEF GivenLine
    <3> QED
      BY <1>2, <2>1, <3>1, FS_EmptySet
  <2>2. CASE h # g
    <3>1. GivenLine(h)' = GivenLine(h) /\ h \in DOMAIN process
      BY <1>2, <1>3, <1>4, <2>2 DEF GivenLine, SamePipes
    <3> QED
      BY <1>2, <3>1 DEF SpoilInv, ReadIsCounted
  <2> QED
    BY <2>1, <2>2
<1>8. ReadIsCounted'
  BY <1>7 DEF ReadIsCounted, GivenLine
<1> QED
  BY <1>6, <1>8

LEMMA OrderWrite ==
    ASSUME AnswerInv, SpoilInv, NEW g \in DOMAIN process, NEW r \in RequestType, WriteStep(g, r)
    PROVE  AskedInOrder' /\ ReadIsCounted'
<1>1. PICK a, n : a = process[g].asked /\ n = Len(request) + 1
  OBVIOUS
<1>2. /\ DOMAIN process' = DOMAIN process
      /\ \A h \in DOMAIN process : h # g => /\ process'[h].asked = process[h].asked
                                            /\ process'[h].read = process[h].read
      /\ process'[g].asked = Append(a, n)
      /\ process'[g].read = process[g].read + (IF r.read THEN 1 ELSE 0)
      /\ r.proc = g /\ process[g].read \in Nat
  BY <1>1, AskedTypes DEF WriteStep
<1>3. /\ DOMAIN request' = DOMAIN request \cup {n} /\ n \notin DOMAIN request
      /\ request'[n] = r /\ \A j \in DOMAIN request : request'[j] = request[j]
      /\ \A j \in DOMAIN request : j \in Nat /\ j < n
  BY <1>1, RequestAppended, Indices DEF WriteStep, AnswerInv
<1>4. \A h \in DOMAIN process : \A k \in DOMAIN process[h].asked :
          process[h].asked[k] \in DOMAIN request
  BY AskedTypes
<1>5. \A i \in DOMAIN request : request[i].proc \in DOMAIN process
  BY DEF AnswerInv, TypeInv, References
<1>6. PICK e : /\ e = Len(a) + 1 /\ e \notin DOMAIN a /\ e \in Nat
               /\ DOMAIN process'[g].asked = DOMAIN a \cup {e}
               /\ process'[g].asked[e] = n
               /\ \A k \in DOMAIN a : process'[g].asked[k] = a[k] /\ k < e /\ k \in Nat
  <2>1. a \in Seq(Nat \ {0}) /\ n \in Nat \ {0}
    BY <1>1, AskedTypes, Indices DEF AnswerInv
  <2>2. PICK e : e = Len(a) + 1
    OBVIOUS
  <2>3. e \in Nat /\ \A k \in DOMAIN a : k < e /\ k \in Nat
    BY <2>1, <2>2
  <2> QED
    BY <1>2, <2>1, <2>2, <2>3, Appended
<1>7. AskedInOrder'
  <2>1. ASSUME NEW h \in DOMAIN process, NEW k \in DOMAIN process'[h].asked,
               NEW l \in DOMAIN process'[h].asked, k < l
        PROVE  process'[h].asked[k] < process'[h].asked[l]
    <3>1. CASE h # g
      BY <1>2, <2>1, <3>1 DEF SpoilInv, AskedInOrder
    <3>2. CASE h = g /\ l = e
      <4>1. k \in DOMAIN a
        BY <1>6, <2>1, <3>2
      <4>2. a[k] < n
        BY <1>1, <1>3, <1>4, <4>1
      <4> QED
        BY <1>6, <3>2, <4>1, <4>2
    <3>3. CASE h = g /\ l # e
      <4>1. l \in DOMAIN a /\ k \in DOMAIN a
        BY <1>6, <2>1, <3>3
      <4> QED
        BY <1>1, <1>6, <2>1, <3>3, <4>1 DEF SpoilInv, AskedInOrder
    <3> QED
      BY <3>1, <3>2, <3>3
  <2>2. ASSUME NEW h \in DOMAIN process, NEW k \in DOMAIN process'[h].asked
        PROVE  request'[process'[h].asked[k]].proc = h
    <3>1. CASE h # g
      BY <1>2, <1>3, <1>4, <2>2, <3>1 DEF SpoilInv, AskedInOrder
    <3>2. CASE h = g /\ k = e
      BY <1>2, <1>3, <1>6, <3>2
    <3>3. CASE h = g /\ k # e
      <4>1. k \in DOMAIN a
        BY <1>6, <2>2, <3>3
      <4> QED
        BY <1>1, <1>3, <1>4, <1>6, <3>3, <4>1 DEF SpoilInv, AskedInOrder
    <3> QED
      BY <3>1, <3>2, <3>3
  <2>3. ASSUME NEW i \in DOMAIN request'
        PROVE  \E k \in DOMAIN process'[request'[i].proc].asked :
                   process'[request'[i].proc].asked[k] = i
    <3>1. CASE i = n
      BY <1>2, <1>3, <1>6, <3>1
    <3>2. CASE i # n /\ request[i].proc # g
      BY <1>2, <1>3, <1>5, <3>2 DEF SpoilInv, AskedInOrder
    <3>3. CASE i # n /\ request[i].proc = g
      <4>1. PICK k \in DOMAIN a : a[k] = i
        BY <1>1, <1>3, <3>3 DEF SpoilInv, AskedInOrder
      <4> QED
        BY <1>3, <1>6, <3>3, <4>1
    <3> QED
      BY <3>1, <3>2, <3>3
  <2> QED
    BY <1>2, <2>1, <2>2, <2>3 DEF AskedInOrder
<1>8. ASSUME NEW h \in DOMAIN process
      PROVE  IsFiniteSet(GivenLine(h)') /\ process'[h].read = Cardinality(GivenLine(h)')
  <2>1. IsFiniteSet(GivenLine(h)) /\ process[h].read = Cardinality(GivenLine(h))
    BY DEF SpoilInv, ReadIsCounted
  <2>2. CASE h # g
    <3>1. GivenLine(h)' = GivenLine(h)
      BY <1>2, <1>3, <1>4, <2>2 DEF GivenLine
    <3> QED
      BY <1>2, <2>1, <2>2, <3>1
  <2>3. CASE h = g /\ r.read
    <3>1. GivenLine(g)' = GivenLine(g) \cup {e} /\ e \notin GivenLine(g)
      BY <1>1, <1>3, <1>4, <1>6, <2>3 DEF GivenLine
    <3> QED
      BY <1>2, <2>1, <2>3, <3>1, FS_AddElement
  <2>4. CASE h = g /\ ~r.read
    <3>1. GivenLine(g)' = GivenLine(g)
      BY <1>1, <1>3, <1>4, <1>6, <2>4 DEF GivenLine
    <3> QED
      BY <1>2, <2>1, <2>4, <3>1
  <2> QED
    BY <2>2, <2>3, <2>4
<1>9. ReadIsCounted'
  BY <1>2, <1>8 DEF ReadIsCounted, GivenLine
<1> QED
  BY <1>7, <1>9

LEMMA OrderSettle ==
    ASSUME AnswerInv, SpoilInv, PipeStep, NEW i \in DOMAIN request, NEW r \in RequestType,
           SettleStep(i, r)
    PROVE  AskedInOrder' /\ ReadIsCounted'
<1>1. PICK g \in DOMAIN process : g = request[i].proc
  BY DEF AnswerInv, TypeInv, References
<1>2. /\ DOMAIN process' = DOMAIN process
      /\ \A h \in DOMAIN process : /\ process'[h].asked = process[h].asked
                                   /\ h # g => process'[h].read = process[h].read
      /\ process'[g].read = process[g].read + (IF r.read THEN 1 ELSE 0)
      /\ process[g].read \in Nat
      /\ request' = [request EXCEPT ![i] = r]
      /\ request \in Seq(RequestType)
  BY <1>1, AskedTypes DEF SettleStep, SamePipes, AnswerInv, TypeInv, TypeOK
<1>3. /\ DOMAIN request' = DOMAIN request /\ request'[i] = r
      /\ \A j \in DOMAIN request : j # i => request'[j] = request[j]
  BY <1>2
<1>4. AskedInOrder'
  BY <1>2, <1>3, OrderKept
<1>5. ~request[i].read
  BY DEF SettleStep, AnswerInv, TypeInv, References
<1>6. ASSUME NEW h \in DOMAIN process
      PROVE  IsFiniteSet(GivenLine(h)') /\ process'[h].read = Cardinality(GivenLine(h)')
  <2>1. IsFiniteSet(GivenLine(h)) /\ process[h].read = Cardinality(GivenLine(h))
    BY DEF SpoilInv, ReadIsCounted
  <2>2. \A k \in DOMAIN process[h].asked : /\ process[h].asked[k] \in DOMAIN request
                                            /\ request[process[h].asked[k]].proc = h
    BY AskedTypes DEF SpoilInv, AskedInOrder
  <2>3. CASE h # g
    <3>1. \A k \in DOMAIN process[h].asked : process[h].asked[k] # i
      BY <1>1, <2>2, <2>3
    <3>2. GivenLine(h)' = GivenLine(h)
      BY <1>2, <1>3, <2>2, <3>1 DEF GivenLine
    <3> QED
      BY <1>2, <2>1, <2>3, <3>2
  <2>4. CASE h = g /\ r.read
    <3>1. PICK k \in DOMAIN process[g].asked : process[g].asked[k] = i
      BY <1>1 DEF SpoilInv, AskedInOrder
    <3>2. \A l \in DOMAIN process[g].asked : process[g].asked[l] = i => l = k
      <4>1. \A l \in DOMAIN process[g].asked : l \in Nat /\ process[g].asked[l] \in Nat
        BY AskedTypes, Indices DEF AnswerInv
      <4>2. \A l, m \in DOMAIN process[g].asked :
                l < m => process[g].asked[l] < process[g].asked[m]
        BY DEF SpoilInv, AskedInOrder
      <4> QED
        BY <3>1, <4>1, <4>2
    <3>3. GivenLine(g)' = GivenLine(g) \cup {k} /\ k \notin GivenLine(g)
      BY <1>2, <1>3, <1>5, <2>2, <2>4, <3>1, <3>2 DEF GivenLine
    <3> QED
      BY <1>2, <2>1, <2>4, <3>3, FS_AddElement
  <2>5. CASE h = g /\ ~r.read
    <3>1. GivenLine(g)' = GivenLine(g)
      BY <1>2, <1>3, <1>5, <2>2, <2>5 DEF GivenLine
    <3> QED
      BY <1>2, <2>1, <2>5, <3>1
  <2> QED
    BY <2>3, <2>4, <2>5
<1>7. ReadIsCounted'
  BY <1>2, <1>6 DEF ReadIsCounted, GivenLine
<1> QED
  BY <1>4, <1>7

LEMMA OrderStep ==
    ASSUME AnswerInv, SpoilInv, PipeStep
    PROVE  AskedInOrder' /\ ReadIsCounted'
<1>1. CASE QuietStep \/ \E g \in DOMAIN process, m \in MessageType : LineStep(g, m)
  <2>1. /\ request' = request /\ DOMAIN process' = DOMAIN process
        /\ \A h \in DOMAIN process : /\ process'[h].asked = process[h].asked
                                     /\ process'[h].read = process[h].read
    BY <1>1 DEF QuietStep, LineStep, SamePipes
  <2>2. AskedInOrder'
    BY <2>1, OrderKept
  <2>3. ReadIsCounted'
    BY <2>1 DEF ReadIsCounted, GivenLine, SpoilInv
  <2> QED
    BY <2>2, <2>3
<1> QED
  BY <1>1, OrderSpawn, OrderWrite, OrderSettle DEF PipeStep

\* A request is open as long as its task waits, and only then.
LEMMA AwaitedKept ==
    ASSUME AnswerInv, SpoilInv, PipeStep,
           \A s \in Task : Waiting(s) =>
               frame'[s] = frame[s] \/ request'[frame[s].req].state # "open",
           \A j \in DOMAIN request' \ DOMAIN request : request'[j].state = "open" =>
               /\ frame'[request'[j].by].pc \in {"reading", "handshake"}
               /\ frame'[request'[j].by].req = j
    PROVE  OpenIsAwaited'
<1> SUFFICES ASSUME NEW i \in DOMAIN request', request'[i].state = "open"
             PROVE  /\ frame'[request'[i].by].pc \in {"reading", "handshake"}
                    /\ frame'[request'[i].by].req = i
  BY DEF OpenIsAwaited, Waiting
<1>1. CASE i \notin DOMAIN request
  BY <1>1
<1>2. CASE i \in DOMAIN request
  <2>1. request[i].state = "open" /\ request'[i].by = request[i].by
    BY <1>2, PipesKept
  <2>2. PICK t \in Task : t = request[i].by
    BY <1>2, Indices DEF AnswerInv, RequestType
  <2>3. Waiting(t) /\ frame[t].req = i
    BY <1>2, <2>1, <2>2 DEF SpoilInv, OpenIsAwaited
  <2> QED
    BY <2>1, <2>2, <2>3 DEF Waiting
<1> QED
  BY <1>1, <1>2

\* Nothing is written, nothing is answered but what is alone.
LEMMA AloneKept ==
    ASSUME AnswerInv, SpoilInv, PipeStep, DOMAIN request' = DOMAIN request
    PROVE  OpenIsAlone'
<1> SUFFICES ASSUME NEW i \in DOMAIN request, NEW j \in DOMAIN request,
                    request'[i].state = "open", request'[j].proc = request'[i].proc
             PROVE  /\ i < j => request'[j].state \in {"refused", "raised"}
                    /\ j < i => \A l \in DOMAIN request :
                                    request'[l].proc = request'[i].proc => l <= i
  BY DEF OpenIsAlone
<1>1. \A l \in DOMAIN request : /\ request'[l].proc = request[l].proc
                                /\ request[l].state # "open" => request'[l] = request[l]
  BY PipesKept
<1>2. request[i].state = "open"
  BY <1>1
<1>3. i < j => request[j].state \in {"refused", "raised"}
  BY <1>1, <1>2 DEF SpoilInv, OpenIsAlone
<1>4. j < i => \A l \in DOMAIN request : request[l].proc = request[i].proc => l <= i
  BY <1>1, <1>2 DEF SpoilInv, OpenIsAlone
<1> QED
  BY <1>1, <1>3, <1>4

\* A request that is new, beside what is open of its process.
LEMMA AloneNew ==
    ASSUME AnswerInv, SpoilInv, NEW r \in RequestType, request' = Append(request, r),
           \A i \in DOMAIN request : request[i].state = "open" /\ request[i].proc = r.proc =>
               /\ r.state \in {"refused", "raised"}
               /\ \A j \in DOMAIN request : request[j].proc = r.proc => i <= j
    PROVE  OpenIsAlone'
<1>1. PICK n : n = Len(request) + 1
  OBVIOUS
<1>2. /\ DOMAIN request' = DOMAIN request \cup {n} /\ n \notin DOMAIN request
      /\ request'[n] = r /\ \A j \in DOMAIN request : request'[j] = request[j]
      /\ \A j \in DOMAIN request : j \in Nat /\ j < n
      /\ n \in Nat
  BY <1>1, RequestAppended, Indices DEF AnswerInv
<1> SUFFICES ASSUME NEW i \in DOMAIN request', NEW j \in DOMAIN request',
                    request'[i].state = "open", request'[j].proc = request'[i].proc
             PROVE  /\ i < j => request'[j].state \in {"refused", "raised"}
                    /\ j < i => \A l \in DOMAIN request' :
                                    request'[l].proc = request'[i].proc => l <= i
  BY DEF OpenIsAlone
<1>3. CASE i = n
  BY <1>2, <1>3
<1>4. CASE i # n /\ j = n
  BY <1>2, <1>4
<1>5. CASE i # n /\ j # n
  <2>1. i \in DOMAIN request /\ j \in DOMAIN request /\ request[i].state = "open"
        /\ request[j].proc = request[i].proc
    BY <1>2, <1>5
  <2>2. i < j => request'[j].state \in {"refused", "raised"}
    BY <1>2, <2>1 DEF SpoilInv, OpenIsAlone
  <2>3. ASSUME j < i, NEW l \in DOMAIN request', request'[l].proc = request'[i].proc
        PROVE  l <= i
    <3>1. CASE l = n
      <4>1. i <= j
        BY <1>2, <2>1, <2>3, <3>1
      <4> QED
        BY <1>2, <2>1, <2>3, <4>1
    <3>2. CASE l # n
      BY <1>2, <2>1, <2>3, <3>2 DEF SpoilInv, OpenIsAlone
    <3> QED
      BY <3>1, <3>2
  <2> QED
    BY <2>2, <2>3
<1> QED
  BY <1>3, <1>4, <1>5

LEMMA SpoilQuiet ==
    ASSUME AnswerInv, SpoilInv, PipeStep,
           \/ Connect \/ SpawnFails \/ BeginClose \/ Waited \/ CancelWait \/ Reap
           \/ KillServer \/ Server
           \/ \E t \in Task :
                 BeginCall(t) \/ WriteFails(t) \/ (CancelCall(t) /\ frame[t].pc = "lock")
    PROVE  OpenIsAwaited' /\ OpenIsAlone'
<1>1. request' = request
  BY DEF Connect, SpawnFails, BeginClose, Waited, CancelWait, Reap, KillServer, Server, Die,
         Answer, BeginCall, WriteFails, CancelCall
<1>2. \/ frame' = frame
      \/ \E t \in Task, pc \in Busy \cup {"in", "out"} : Goes(t, pc) /\ ~Waiting(t)
  <2>1. CASE Server
    BY <2>1 DEF Server, Die, Answer
  <2>2. CASE \/ Connect \/ SpawnFails \/ BeginClose \/ Waited \/ CancelWait \/ Reap
             \/ KillServer
    BY <2>2, TaskTypes DEF Connect, SpawnFails, BeginClose, Waited, CancelWait, Reap,
       KillServer, Waiting, Busy, Closing
  <2>3. CASE \E t \in Task :
                 BeginCall(t) \/ WriteFails(t) \/ (CancelCall(t) /\ frame[t].pc = "lock")
    BY <2>3, Rests DEF BeginCall, WriteFails, CancelCall, Waiting, Busy, Closing, Calling
  <2> QED
    BY <2>1, <2>2, <2>3
<1>3. \A s \in Task : Waiting(s) => frame'[s] = frame[s]
  BY <1>2, GoesStep DEF AnswerInv, TypeInv
<1>4. OpenIsAwaited'
  BY <1>1, <1>3, AwaitedKept
<1> QED
  BY <1>1, <1>4, AloneKept

LEMMA SpoilEnds ==
    ASSUME AnswerInv, SpoilInv, PipeStep,
           \/ HandshakeReads
           \/ \E state \in {"refused", "raised"} : HandshakeGivesUp(state)
           \/ \E t \in Task : \/ ReadAnswer(t) \/ CallGivesUp(t)
                              \/ (CancelCall(t) /\ frame[t].pc = "reading")
    PROVE  OpenIsAwaited' /\ OpenIsAlone'
<1>1. PICK t \in Task, r \in RequestType, pc \in {"in", "out", "closing"} :
          SettleStep(frame[t].req, r) /\ Goes(t, pc) /\ Waiting(t)
  <2>1. CASE HandshakeReads \/ \E state \in {"refused", "raised"} : HandshakeGivesUp(state)
    <3>1. PICK r \in RequestType :
              /\ SettleStep(frame[Owner].req, r)
              /\ Goes(Owner, AfterHandshake(r.state))
              /\ r.state \in {"answered", "refused", "raised"}
      BY <2>1, HandshakeReadsStep, HandshakeGivesUpStep DEF AnswerInv
    <3>2. AfterHandshake(r.state) \in {"in", "out", "closing"} /\ Waiting(Owner)
      BY <2>1, <3>1 DEF AfterHandshake, HandshakeReads, HandshakeGivesUp, Waiting
    <3> QED
      BY <3>1, <3>2, TaskTypes
  <2>2. CASE \E t \in Task : \/ ReadAnswer(t) \/ CallGivesUp(t)
                             \/ (CancelCall(t) /\ frame[t].pc = "reading")
    <3>1. PICK t \in Task : \/ ReadAnswer(t) \/ CallGivesUp(t)
                            \/ (CancelCall(t) /\ frame[t].pc = "reading")
      BY <2>2
    <3>2. PICK r \in RequestType : SettleStep(frame[t].req, r)
      BY <3>1, ReadAnswerStep, CallEndsStep DEF AnswerInv
    <3>3. \E pc \in {"in", "out", "closing"} : Goes(t, pc)
      BY <3>1, Rests DEF ReadAnswer, CallGivesUp, CancelCall
    <3>4. Waiting(t)
      BY <3>1 DEF ReadAnswer, CallGivesUp, CancelCall, Waiting
    <3> QED
      BY <3>2, <3>3, <3>4
  <2> QED
    BY <2>1, <2>2
<1>2. PICK i \in DOMAIN request : i = frame[t].req
  BY <1>1 DEF AnswerInv, TypeInv, References
<1>3. /\ request' = [request EXCEPT ![i] = r] /\ r.state # "open"
      /\ request \in Seq(RequestType)
  BY <1>1, <1>2 DEF SettleStep, AnswerInv, TypeInv, TypeOK
<1>4. DOMAIN request' = DOMAIN request /\ request'[i].state # "open"
  BY <1>3
<1>5. \A s \in Task : s # t => frame'[s] = frame[s]
  BY <1>1, GoesStep DEF Busy, Closing, AnswerInv, TypeInv
<1>6. OpenIsAwaited'
  BY <1>2, <1>4, <1>5, AwaitedKept
<1> QED
  BY <1>4, <1>6, AloneKept

LEMMA SpoilSpawn ==
    ASSUME AnswerInv, SpoilInv, PipeStep, Spawn
    PROVE  OpenIsAwaited' /\ OpenIsAlone'
<1>1. PICK r \in RequestType : SpawnStep(r)
  BY SpawnSteps DEF AnswerInv
<1>2. PICK n : n = Len(request) + 1
  OBVIOUS
<1>3. /\ request' = Append(request, r) /\ r.by = Owner /\ r.proc = Len(process) + 1
      /\ n \in Nat
  BY <1>1, <1>2, Indices DEF SpawnStep, AnswerInv
<1>4. /\ request'[n] = r /\ \A j \in DOMAIN request' \ DOMAIN request : j = n
  BY <1>2, <1>3, RequestAppended DEF AnswerInv
<1>5. /\ frame'[Owner].pc = "handshake" /\ frame'[Owner].req = n
      /\ \A s \in Task : s # Owner => frame'[s] = frame[s]
      /\ frame[Owner].pc = "spawning"
  <2>1. frame' = [frame EXCEPT ![Owner] = [pc |-> "handshake", req |-> n]]
    BY <1>2 DEF Spawn
  <2> QED
    BY <1>3, <2>1, WaitsStep, TaskTypes DEF Spawn, AnswerInv, TypeInv
<1>6. OpenIsAwaited'
  BY <1>3, <1>4, <1>5, AwaitedKept DEF Waiting
<1>7. \A i \in DOMAIN request : request[i].proc # r.proc
  BY <1>3, Indices DEF AnswerInv, TypeInv, References
<1> QED
  BY <1>3, <1>6, <1>7, AloneNew

\* When nobody holds the lock, only a handshake can be open.
LEMMA OpenWithLockFree ==
    ASSUME AnswerInv, LeftInv, SpoilInv, client.lock = NoTask,
           NEW i \in DOMAIN request, request[i].state = "open"
    PROVE  HandshakeWaits /\ i = HandshakeOf(client.proc)
<1>1. PICK s \in Task : s = request[i].by
  BY Indices DEF AnswerInv, RequestType
<1>2. Waiting(s) /\ frame[s].req = i
  BY <1>1 DEF SpoilInv, OpenIsAwaited
<1>3. frame[s].pc # "reading"
  BY TaskTypes DEF AnswerInv, TypeInv, TypeOK
<1>4. s = Owner /\ frame[Owner].pc = "handshake"
  BY <1>2, <1>3, TaskTypes DEF Waiting, AnswerInv, TypeInv, References
<1> QED
  BY <1>2, <1>4 DEF HandshakeWaits, LeftInv, HandshakeIsFirst

LEMMA SpoilWrite ==
    ASSUME AnswerInv, LeftInv, SpoilInv, PipeStep, NEW t \in Task,
           WriteRequest(t) \/ WriteBesideHandshake(t)
    PROVE  OpenIsAwaited' /\ OpenIsAlone'
<1>1. PICK n, g : n = Len(request) + 1 /\ g = client.proc
  OBVIOUS
<1>2. /\ n \in Nat /\ g \in DOMAIN process /\ frame[t].pc = "lock" /\ client.lock = NoTask
  <2>1. frame[t].pc = "lock" /\ client.lock = NoTask /\ client.proc # 0
    BY DEF WriteRequest, WriteBesideHandshake
  <2> QED
    BY <1>1, <2>1, Indices DEF AnswerInv
<1>3. \A i \in DOMAIN request :
          request[i].state = "open" => HandshakeWaits /\ i = HandshakeOf(g)
  BY <1>1, <1>2, OpenWithLockFree
<1>4. ASSUME NEW j \in DOMAIN request, request[j].proc = g
      PROVE  HandshakeOf(g) <= j
  <2>1. PICK k \in DOMAIN process[g].asked : process[g].asked[k] = j
    BY <1>4 DEF SpoilInv, AskedInOrder
  <2>2. 1 \in DOMAIN process[g].asked /\ (1 < k => process[g].asked[1] < process[g].asked[k])
    BY <1>2, <2>1 DEF SpoilInv, AskedInOrder, LeftInv, HandshakeIsFirst
  <2>3. /\ k \in Nat /\ 1 <= k /\ \A l \in DOMAIN process[g].asked : process[g].asked[l] \in Nat
    BY <1>2, <2>1, AskedTypes, Indices DEF AnswerInv
  <2> QED
    BY <2>1, <2>2, <2>3 DEF HandshakeOf
<1>5. CASE WriteRequest(t)
  <2>1. PICK r \in RequestType :
            WriteStep(g, r) /\ r.by = t /\ r.state = "open" /\ request' = Append(request, r)
    BY <1>1, <1>5, WriteSteps DEF WriteStep, AnswerInv
  <2>2. /\ request'[n] = r /\ \A j \in DOMAIN request' \ DOMAIN request : j = n
    BY <1>1, <2>1, RequestAppended DEF AnswerInv
  <2>3. /\ frame'[t].pc = "reading" /\ frame'[t].req = n
        /\ \A s \in Task : s # t => frame'[s] = frame[s]
    <3>1. frame' = [frame EXCEPT ![t] = [pc |-> "reading", req |-> n]]
      BY <1>1, <1>5 DEF WriteRequest
    <3> QED
      BY <1>2, <3>1, WaitsStep DEF AnswerInv, TypeInv
  <2>4. OpenIsAwaited'
    BY <1>2, <2>1, <2>2, <2>3, AwaitedKept DEF Waiting
  <2>5. \A i \in DOMAIN request : request[i].state # "open"
    BY <1>3, <1>5 DEF WriteRequest
  <2> QED
    BY <2>1, <2>4, <2>5, AloneNew
<1>6. CASE WriteBesideHandshake(t)
  <2>1. PICK r \in RequestType :
            /\ WriteStep(g, r) /\ r.state # "open" /\ r.proc = g
            /\ request' = Append(request, r)
    BY <1>1, <1>6, BesideSteps DEF WriteStep, AnswerInv
  <2>2. r.state \in {"refused", "raised"}
    BY <1>2, <2>1, NotAnsweredYet DEF RequestType
  <2>3. /\ request'[n] = r /\ \A j \in DOMAIN request' \ DOMAIN request : j = n
    BY <1>1, <2>1, RequestAppended DEF AnswerInv
  <2>4. \A s \in Task : s # t => frame'[s] = frame[s]
    BY <1>6, Rests, GoesStep DEF WriteBesideHandshake, AnswerInv, TypeInv
  <2>5. OpenIsAwaited'
    BY <1>2, <2>1, <2>3, <2>4, AwaitedKept DEF Waiting
  <2> QED
    BY <1>3, <1>4, <2>1, <2>2, <2>5, AloneNew
<1> QED
  BY <1>5, <1>6

LEMMA SpoilHolds == Spec => [](AnswerInv /\ LeftInv /\ SpoilInv)
<1>1. Init => SpoilInv
  <2> SUFFICES ASSUME Init PROVE SpoilInv
    OBVIOUS
  <2>1. process = <<>> /\ request = <<>>
    BY DEF Init
  <2> QED
    BY <2>1 DEF SpoilInv, AskedInOrder, ReadIsCounted, OpenIsAwaited, OpenIsAlone,
                TimeoutSpoilsTheRest
<1>2. AnswerInv /\ LeftInv /\ SpoilInv /\ [Next]_vars => SpoilInv'
  <2> SUFFICES ASSUME AnswerInv, LeftInv, SpoilInv, [Next]_vars PROVE SpoilInv'
    OBVIOUS
  <2>1. CASE UNCHANGED vars
    BY <2>1 DEF SpoilInv, AskedInOrder, ReadIsCounted, GivenLine, OpenIsAwaited, Waiting,
                OpenIsAlone, TimeoutSpoilsTheRest, Abandoned, Orderly, vars
  <2>2. CASE Next
    <3>1. PipeStep
      BY <2>2, PipesStep DEF AnswerInv
    <3>2. AskedInOrder' /\ ReadIsCounted' /\ TimeoutSpoilsTheRest'
      BY <3>1, OrderStep, SpoilTimeout
    <3>3. OpenIsAwaited' /\ OpenIsAlone'
      BY <2>2, <3>1, NextCases, SpoilQuiet, SpoilEnds, SpoilSpawn, SpoilWrite
    <3> QED
      BY <3>2, <3>3 DEF SpoilInv
  <2> QED
    BY <2>1, <2>2
<1> QED
  BY <1>1, <1>2, LeftHolds, PTL DEF Spec

\* A request that was given up after its write leaves its answer in the pipe: from then
\* on a server that answers everything in order is one answer behind, and no later call of
\* the connection succeeds.
THEOREM OneTimeoutSpoils == Spec => []TimeoutSpoilsTheRest
<1>1. SpoilInv => TimeoutSpoilsTheRest
  BY DEF SpoilInv
<1> QED
  BY <1>1, SpoilHolds, PTL
=============================================================================
