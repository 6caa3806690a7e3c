-------------------------- MODULE RemoteCallsProofs --------------------------
(***************************************************************************)
(* McpClient implements RemoteCalls: each step of its tasks and of its     *)
(* servers is one step of the client that RemoteCalls promises, or changes *)
(* nothing that RemoteCalls speaks of.                                     *)
(***************************************************************************)
EXTENDS McpClientProofs, SequenceTheorems

-----------------------------------------------------------------------------
(* What the steps of the pipes make of the mapped variables. *)

CallOf(r) == [on |-> r.proc, state |-> Standing(r.state)]

CallType == [on : Nat, state : {"waits", "answered", "fails"}]

LEMMA CallOfType ==
    ASSUME NEW r \in RequestType
    PROVE  CallOf(r) \in CallType
<1>1. r.proc \in Nat /\ r.state \in {"open", "answered", "refused", "raised"}
  BY DEF RequestType
<1>2. Standing(r.state) \in {"waits", "answered", "fails"}
  BY <1>1 DEF Standing
<1> QED
  BY <1>1, <1>2 DEF CallOf, CallType

LEMMA CallsType ==
    ASSUME NEW q \in Seq(RequestType)
    PROVE  /\ [i \in DOMAIN q |-> CallOf(q[i])] \in Seq(CallType)
           /\ Len([i \in DOMAIN q |-> CallOf(q[i])]) = Len(q)
<1>1. DOMAIN q = 1..Len(q) /\ Len(q) \in Nat /\ \A i \in DOMAIN q : q[i] \in RequestType
  BY LenProperties
<1>2. \A i \in 1..Len(q) : CallOf(q[i]) \in CallType
  BY <1>1, CallOfType
<1> QED
  BY <1>1, <1>2

LEMMA CallsAre ==
    ASSUME TypeInv
    PROVE  /\ Calls = [i \in DOMAIN request |-> CallOf(request[i])]
           /\ DOMAIN Calls = DOMAIN request
           /\ Calls \in Seq(CallType)
           /\ Len(Calls) = Len(request)
<1>1. Calls = [i \in DOMAIN request |-> CallOf(request[i])]
  BY DEF Calls, CallOf
<1> QED
  BY <1>1, CallsType DEF TypeInv, TypeOK

LEMMA WaitsIsOpen ==
    ASSUME TypeInv, NEW i \in DOMAIN request
    PROVE  /\ Remote!Waits(i) <=> request[i].state = "open"
           /\ Calls[i].on = request[i].proc
<1>1. request[i].state \in {"open", "answered", "refused", "raised"}
  BY Indices DEF RequestType
<1> QED
  BY <1>1 DEF Remote!Waits, Calls, Standing

\* A request is written.
LEMMA CallsAppended ==
    ASSUME TypeInv, NEW r \in RequestType, request' = Append(request, r)
    PROVE  Calls' = Append(Calls, CallOf(r))
<1>1. PICK n, c : n = Len(request) + 1 /\ c = CallOf(r)
  OBVIOUS
<1>2. /\ n \in Nat /\ DOMAIN request' = 1..n /\ Len(request') = n /\ request'[n] = r
      /\ \A j \in 1..(n - 1) : request'[j] = request[j]
      /\ DOMAIN request = 1..(n - 1)
  BY <1>1, RequestAppended, Indices
<1>3. Calls \in Seq(CallType) /\ Len(Calls) = n - 1
  BY <1>1, CallsAre, Indices
<1>4. Calls' \in Seq(CallType) /\ Len(Calls') = n
  <2>1. Calls' = [i \in DOMAIN request' |-> CallOf(request'[i])]
    BY DEF Calls, CallOf
  <2>2. request' \in Seq(RequestType)
    BY RequestAppended
  <2> QED
    BY <1>2, <2>1, <2>2, CallsType
<1>5. /\ \A j \in 1..(n - 1) : Calls[j] = CallOf(request[j])
      /\ \A j \in 1..n : Calls'[j] = CallOf(request'[j])
  BY <1>2 DEF Calls, CallOf
<1>6. c \in CallType
  BY <1>1, CallOfType
<1>7. PICK a : a = Append(Calls, c)
  OBVIOUS
<1>8. /\ a \in Seq(CallType) /\ Len(a) = n /\ a[n] = c
      /\ \A j \in 1..(n - 1) : a[j] = Calls[j]
  BY <1>2, <1>3, <1>6, <1>7, AppendProperties
<1>9. \A j \in 1..n : Calls'[j] = a[j]
  <2> SUFFICES ASSUME NEW j \in 1..n PROVE Calls'[j] = a[j]
    OBVIOUS
  <2>1. CASE j = n
    BY <1>1, <1>2, <1>5, <1>8, <2>1
  <2>2. CASE j # n
    <3>1. j \in 1..(n - 1)
      BY <1>2, <2>2
    <3> QED
      BY <1>2, <1>5, <1>8, <3>1
  <2> QED
    BY <2>1, <2>2
<1>10. Calls' = a
  BY <1>4, <1>8, <1>9, SeqEqual
<1> QED
  BY <1>1, <1>7, <1>10

\* A request is settled.
LEMMA CallsSettled ==
    ASSUME TypeInv, NEW i \in DOMAIN request, NEW r \in RequestType,
           request' = [request EXCEPT ![i] = r], r.proc = request[i].proc
    PROVE  Calls' = [Calls EXCEPT ![i].state = Standing(r.state)]
<1>1. /\ DOMAIN request' = DOMAIN request /\ request'[i] = r
      /\ \A j \in DOMAIN request : j # i => request'[j] = request[j]
  BY DEF TypeInv, TypeOK
<1>2. Calls' = [j \in DOMAIN request |-> CallOf(request'[j])]
  BY <1>1 DEF Calls, CallOf
<1>3. PICK c : c = [Calls[i] EXCEPT !.state = Standing(r.state)]
  OBVIOUS
<1>4. c = CallOf(r)
  <2>1. Calls[i] = [on |-> r.proc, state |-> Standing(request[i].state)]
    BY DEF Calls
  <2> QED
    BY <1>3, <2>1 DEF CallOf
<1>5. [Calls EXCEPT ![i] = c] = [j \in DOMAIN request |-> IF j = i THEN c ELSE Calls[j]]
  BY CallsAre
<1>6. \A j \in DOMAIN request : CallOf(request'[j]) = IF j = i THEN c ELSE Calls[j]
  BY <1>1, <1>4, CallsAre
<1> QED
  BY <1>2, <1>3, <1>5, <1>6

\* What was written before a request was there is not for it.
LEMMA GivenKept ==
    ASSUME AnswerInv, TypeInv', DOMAIN request \subseteq DOMAIN request',
           DOMAIN process \subseteq DOMAIN process',
           \A g \in DOMAIN process : process'[g].sent = process[g].sent,
           \A g \in DOMAIN process' \ DOMAIN process : process'[g].sent = <<>>
    PROVE  Given' = Given
<1>1. \A i \in Given : i \in Given'
  BY DEF Given
<1>2. ASSUME NEW i \in Given' PROVE i \in Given
  <2>1. PICK g \in DOMAIN process' : \E k \in DOMAIN process'[g].sent :
            process'[g].sent[k].of = i /\ process'[g].sent[k].kind = "result"
    BY <1>2 DEF Given
  <2>2. g \in DOMAIN process
    BY <2>1
  <2>3. PICK k \in DOMAIN process[g].sent :
            process[g].sent[k].of = i /\ process[g].sent[k].kind = "result"
    BY <2>1, <2>2
  <2>4. i # 0
    <3>1. request' \in Seq(RequestType) /\ i \in DOMAIN request'
      BY <1>2 DEF Given, TypeInv, TypeOK
    <3> QED
      BY <3>1
  <2>5. i \in DOMAIN request
    BY <2>2, <2>3, <2>4 DEF AnswerInv, LinesAreHonest
  <2> QED
    BY <2>2, <2>3, <2>5 DEF Given
<1> QED
  BY <1>1, <1>2

\* The servers that live, as long as none is spawned and none ends.
LEMMA AliveKept ==
    ASSUME DOMAIN process' = DOMAIN process,
           \A g \in DOMAIN process : process'[g].state = process[g].state
    PROVE  Alive' = Alive
BY DEF Alive

LEMMA SameLength ==
    ASSUME TypeInv, TypeInv', DOMAIN process' = DOMAIN process
    PROVE  Len(process') = Len(process)
<1>1. process \in Seq(ProcessType) /\ process' \in Seq(ProcessType)
  BY DEF TypeInv, TypeOK
<1> QED
  BY <1>1

-----------------------------------------------------------------------------
(* The steps. *)

LEMMA StutterStep ==
    ASSUME UNCHANGED <<process, request>>
    PROVE  UNCHANGED Remote!vars
BY DEF Remote!vars, Calls, Alive, Given

\* The process that ends, whatever it is that ends it.
LEMMA EndStep ==
    ASSUME TypeInv, NEW g \in DOMAIN process, NEW state \in {"killed", "dead"},
           process' = [process EXCEPT ![g].state = state], request' = request
    PROVE  [Remote!Next]_(Remote!vars)
<1>1. PICK p : p = [process[g] EXCEPT !.state = state]
  OBVIOUS
<1>2. process[g] \in ProcessType /\ process' = [process EXCEPT ![g] = p]
  BY <1>1, Indices
<1>3. p \in ProcessType /\ p.state = state /\ p.sent = process[g].sent
  BY <1>1, <1>2 DEF ProcessType
<1>4. /\ Len(process') = Len(process) /\ DOMAIN process' = DOMAIN process
      /\ process'[g] = p
      /\ \A h \in DOMAIN process : h # g => process'[h] = process[h]
  BY <1>2, <1>3, ProcessUpdate
<1>5. Calls' = Calls
  BY DEF Calls
<1>6. Given' = Given
  BY <1>3, <1>4 DEF Given
<1>7. Alive' = Alive \ {g}
  BY <1>3, <1>4 DEF Alive
<1>8. CASE g \in Alive
  BY <1>4, <1>5, <1>6, <1>7, <1>8 DEF Remote!Next, Remote!Die
<1>9. CASE g \notin Alive
  BY <1>4, <1>5, <1>6, <1>7, <1>9 DEF Remote!vars
<1> QED
  BY <1>8, <1>9

\* A server writes a line.
LEMMA GiveStep ==
    ASSUME AnswerInv, AskedInOrder, NEW g \in DOMAIN process, NEW of \in 0..Len(request),
           NEW kind \in {"result", "error", "bad"}, Answer(g, of, kind)
    PROVE  [Remote!Next]_(Remote!vars)
<1>1. PICK m : m = [of |-> of, id |-> IF of = 0 THEN 0 ELSE request[of].id, kind |-> kind]
  OBVIOUS
<1>2. PICK sent : sent = process[g].sent
  OBVIOUS
<1>3. PICK p : p = [process[g] EXCEPT !.sent = Append(sent, m)]
  OBVIOUS
<1>4. /\ process[g] \in ProcessType /\ process[g].state = "alive"
      /\ process' = [process EXCEPT ![g] = p] /\ request' = request
      /\ of \in ToSet(process[g].asked) \cup {0}
  BY <1>1, <1>2, <1>3, Indices DEF Answer, AnswerInv
<1>5. p.sent = Append(sent, m) /\ p.state = process[g].state
  BY <1>3, <1>4 DEF ProcessType
<1>6. /\ DOMAIN process' = DOMAIN process /\ process'[g] = p
      /\ \A h \in DOMAIN process : h # g => process'[h] = process[h]
      /\ Len(process') = Len(process)
  BY <1>4 DEF AnswerInv, TypeInv, TypeOK
<1>7. Alive' = Alive /\ g \in Alive
  BY <1>4, <1>5, <1>6 DEF Alive
<1>8. Calls' = Calls
  BY <1>4 DEF Calls
<1>9. /\ m.of = of /\ m.kind = kind
      /\ \A k \in DOMAIN p.sent : p.sent[k] = m \/ (k \in DOMAIN sent /\ p.sent[k] = sent[k])
      /\ \A k \in DOMAIN sent : k \in DOMAIN p.sent /\ p.sent[k] = sent[k]
      /\ \E k \in DOMAIN p.sent : p.sent[k] = m
  <2>1. sent \in Seq(MessageType) /\ m.of = of /\ m.kind = kind
    BY <1>1, <1>2, <1>4 DEF ProcessType
  <2>2. PICK l : l = Len(sent)
    OBVIOUS
  <2>3. l \in Nat /\ DOMAIN sent = 1..l
    BY <2>1, <2>2
  <2>4. /\ DOMAIN p.sent = 1..(l + 1) /\ p.sent[l + 1] = m
        /\ \A k \in 1..l : p.sent[k] = sent[k]
    BY <1>5, <2>1, <2>2
  <2> QED
    BY <2>1, <2>3, <2>4
<1>10. \A i \in DOMAIN request :
          i \in Given' <=> i \in Given \/ (i = of /\ kind = "result")
  BY <1>2, <1>4, <1>6, <1>9 DEF Given
<1>11. Given' \subseteq DOMAIN request /\ Given \subseteq DOMAIN request
  BY <1>4 DEF Given
<1>12. CASE kind = "result" /\ of # 0
  <2>1. PICK k \in DOMAIN process[g].asked : process[g].asked[k] = of
    BY <1>4, <1>12 DEF ToSet
  <2>2. request[of].proc = g /\ of \in DOMAIN request
    BY <1>4, <2>1 DEF AskedInOrder, AnswerInv, AskedExist
  <2>3. Given' = Given \cup {of}
    BY <1>10, <1>11, <1>12, <2>2
  <2>4. Calls[of].on \in Alive /\ of \in DOMAIN Calls
    BY <1>7, <2>2 DEF Calls
  <2> QED
    BY <1>6, <1>7, <1>8, <2>3, <2>4 DEF Remote!Next, Remote!Give
<1>13. CASE ~(kind = "result" /\ of # 0)
  <2>1. \A i \in DOMAIN request : i # 0
    BY Indices DEF AnswerInv
  <2>2. Given' = Given
    BY <1>10, <1>11, <1>13, <2>1
  <2> QED
    BY <1>6, <1>7, <1>8, <2>2 DEF Remote!vars
<1> QED
  BY <1>12, <1>13

\* The server begins, and its handshake is written.
LEMMA OpenStep ==
    ASSUME AnswerInv, TypeInv', LeftInv, Spawn
    PROVE  Remote!Next
<1>1. PICK r \in RequestType : SpawnStep(r)
  BY SpawnSteps DEF AnswerInv
<1>2. PICK g : g = Len(process) + 1
  OBVIOUS
<1>3. /\ request' = Append(request, r) /\ r.proc = g /\ r.state = "open"
      /\ DOMAIN process' = 1..g /\ process'[g].sent = <<>>
      /\ \A h \in DOMAIN process : process'[h].sent = process[h].sent
  BY <1>1, <1>2 DEF SpawnStep, SamePipes
<1>4. g \in Nat /\ DOMAIN process = 1..(g - 1) /\ Len(process) = g - 1
  BY <1>2, Indices DEF AnswerInv
<1>5. Calls' = Append(Calls, [on |-> g, state |-> "waits"])
  BY <1>3, CallsAppended DEF CallOf, Standing, AnswerInv
<1>6. Given' = Given
  BY <1>3, <1>4, GivenKept, RequestAppended DEF AnswerInv
<1>7. Alive = {}
  <2>1. client.proc = 0
    BY DEF Spawn, AnswerInv, TypeInv, References
  <2> QED
    BY <1>4, <2>1 DEF Alive, LeftInv, OnlyOneLives
<1>8. Alive' = {g} /\ Len(process') = g
  <2>1. PICK p : p = [state |-> "alive", shaken |-> FALSE, asked |-> <<Len(request) + 1>>,
                      sent |-> <<>>, read |-> 0]
    OBVIOUS
  <2>0. p.state = "alive"
    BY <2>1
  <2>2. process' = Append(process, p)
    BY <2>1 DEF Spawn
  <2>3. /\ process'[g] = p /\ Len(process') = g
        /\ \A h \in DOMAIN process : process'[h] = process[h]
    BY <1>2, <2>2 DEF AnswerInv, TypeInv, TypeOK
  <2> QED
    BY <1>3, <1>4, <1>7, <2>0, <2>3 DEF Alive
<1>9. Remote!Open
  BY <1>4, <1>5, <1>6, <1>7, <1>8 DEF Remote!Open, Remote!Asks
<1> QED
  BY <1>9 DEF Remote!Next

\* A request is written: it waits, or fails beside the handshake.
LEMMA CallStepIs ==
    ASSUME AnswerInv, TypeInv', LeftInv, SpoilInv, NEW t \in Task,
           WriteRequest(t) \/ WriteBesideHandshake(t)
    PROVE  Remote!Next
<1>1. PICK g : g = client.proc
  OBVIOUS
<1>2. g \in DOMAIN process /\ g = Len(process) /\ g # 0 /\ client.lock = NoTask
  BY <1>1, Indices DEF WriteRequest, WriteBesideHandshake, AnswerInv, TypeInv, References
<1>3. PICK r \in RequestType : /\ WriteStep(g, r)
                               /\ r.state = "open" <=> ~HandshakeWaits
                               /\ r.state \in {"open", "refused", "raised"}
  <2>1. CASE WriteRequest(t)
    BY <1>1, <2>1, WriteSteps DEF AnswerInv, WriteRequest
  <2>2. CASE WriteBesideHandshake(t)
    <3>1. PICK r \in RequestType : WriteStep(g, r) /\ r.state # "open"
      BY <1>1, <2>2, BesideSteps DEF AnswerInv
    <3>2. r.state # "answered"
      BY <1>2, <3>1, NotAnsweredYet
    <3>3. r.state \in {"refused", "raised"} /\ HandshakeWaits
      BY <2>2, <3>1, <3>2 DEF WriteBesideHandshake, RequestType
    <3> QED
      BY <3>1, <3>3
  <2> QED
    BY <2>1, <2>2
<1>4. /\ request' = Append(request, r) /\ r.proc = g /\ DOMAIN process' = DOMAIN process
      /\ \A h \in DOMAIN process : process'[h].sent = process[h].sent
  BY <1>3 DEF WriteStep
<1>5. (\E i \in DOMAIN Calls : Remote!Waits(i) /\ Calls[i].on = g) <=> HandshakeWaits
  <2>1. ASSUME NEW i \in DOMAIN Calls, Remote!Waits(i) PROVE HandshakeWaits
    BY <1>2, <2>1, CallsAre, WaitsIsOpen, OpenWithLockFree DEF AnswerInv
  <2>2. ASSUME HandshakeWaits PROVE \E i \in DOMAIN Calls : Remote!Waits(i) /\ Calls[i].on = g
    <3>1. PICK i : i = frame[Owner].req
      OBVIOUS
    <3>2. i \in DOMAIN request /\ request[i].state = "open" /\ request[i].proc = g
      BY <1>1, <2>2, <3>1, TaskTypes
      DEF HandshakeWaits, AnswerInv, TypeInv, References, Waiting
    <3> QED
      BY <3>2, CallsAre, WaitsIsOpen DEF AnswerInv
  <2> QED
    BY <2>1, <2>2
<1>6. Standing(r.state) = IF HandshakeWaits THEN "fails" ELSE "waits"
  BY <1>3 DEF Standing
<1>7. Calls' = Append(Calls, CallOf(r))
  BY <1>4, CallsAppended DEF AnswerInv
<1>8. Remote!Asks(Len(process),
          IF \E i \in DOMAIN Calls : Remote!Waits(i) /\ Calls[i].on = Len(process)
          THEN "fails" ELSE "waits")
  BY <1>2, <1>4, <1>5, <1>6, <1>7 DEF Remote!Asks, CallOf
<1>9. Given' = Given
  BY <1>4, GivenKept, RequestAppended DEF AnswerInv
<1>10. Alive' = Alive
  BY CallEffects, AliveKept
<1>11. Len(process') = Len(process)
  BY <1>4, SameLength DEF AnswerInv
<1>12. Remote!Call
  BY <1>2, <1>8, <1>9, <1>10, <1>11 DEF Remote!Call
<1> QED
  BY <1>12 DEF Remote!Next

\* A request for which a task waits is settled.
LEMMA SettleStepIs ==
    ASSUME AnswerInv, TypeInv', NEW i \in DOMAIN request, NEW r \in RequestType,
           SettleStep(i, r),
           \A h \in DOMAIN process : process'[h].state = process[h].state
    PROVE  Remote!Next
<1>1. PICK g \in DOMAIN process : g = request[i].proc
  BY DEF AnswerInv, TypeInv, References
<1>2. /\ request' = [request EXCEPT ![i] = r] /\ r.proc = g /\ r.state # "open"
      /\ DOMAIN process' = DOMAIN process
      /\ \A h \in DOMAIN process : process'[h].sent = process[h].sent
      /\ request[i].state = "open"
  BY <1>1 DEF SettleStep, SamePipes, AnswerInv, TypeInv, References
<1>3. Calls' = [Calls EXCEPT ![i].state = Standing(r.state)]
  BY <1>1, <1>2, CallsSettled DEF AnswerInv
<1>4. Given' = Given
  <2>1. DOMAIN request' = DOMAIN request
    BY <1>2 DEF AnswerInv, TypeInv, TypeOK
  <2> QED
    BY <1>2, <2>1, GivenKept
<1>5. Alive' = Alive /\ Len(process') = Len(process)
  BY <1>2, AliveKept, SameLength DEF AnswerInv
<1>6. i \in DOMAIN Calls /\ Remote!Waits(i)
  BY <1>2, CallsAre, WaitsIsOpen DEF AnswerInv
<1>7. CASE r.state = "answered"
  <2>1. Unread(g) /\ NextLine(g).kind = "result" /\ r.of = NextLine(g).of
    BY <1>1, <1>7 DEF SettleStep
  <2>2. process[g].read + 1 \in DOMAIN process[g].sent
    BY <2>1, LineType DEF AnswerInv
  <2>3. AnswersAreOwn'
    BY AnswerSettle
  <2>4. r.of = i
    <3>1. i \in DOMAIN request' /\ request'[i] = r
      BY <1>2 DEF AnswerInv, TypeInv, TypeOK
    <3> QED
      BY <1>7, <2>3, <3>1 DEF AnswersAreOwn
  <2>5. i \in Given
    BY <2>1, <2>2, <2>4 DEF Given, NextLine
  <2>6. Remote!Settle(i)
    BY <1>3, <1>4, <1>5, <1>6, <1>7, <2>5 DEF Remote!Settle, Standing
  <2> QED
    BY <1>6, <2>6 DEF Remote!Next
<1>8. CASE r.state # "answered"
  <2>1. Standing(r.state) = "fails"
    BY <1>2, <1>8 DEF Standing, RequestType
  <2>2. Remote!Settle(i)
    BY <1>3, <1>4, <1>5, <1>6, <2>1 DEF Remote!Settle
  <2> QED
    BY <1>6, <2>2 DEF Remote!Next
<1> QED
  BY <1>7, <1>8

\* The steps that settle one, and what they leave of the processes.
LEMMA EndsAreSettled ==
    ASSUME AnswerInv,
           \/ HandshakeReads
           \/ \E state \in {"refused", "raised"} : HandshakeGivesUp(state)
           \/ \E t \in Task : \/ ReadAnswer(t) \/ CallGivesUp(t)
                              \/ (CancelCall(t) /\ frame[t].pc = "reading")
    PROVE  \E i \in DOMAIN request, r \in RequestType :
               /\ SettleStep(i, r)
               /\ \A h \in DOMAIN process : process'[h].state = process[h].state
<1>1. ASSUME HandshakeReads \/ \E state \in {"refused", "raised"} : HandshakeGivesUp(state)
      PROVE  \E r \in RequestType :
                 /\ SettleStep(frame[Owner].req, r) /\ frame[Owner].req \in DOMAIN request
                 /\ \A h \in DOMAIN process : process'[h].state = process[h].state
  <2>1. frame[Owner].req \in DOMAIN request
    BY <1>1, TaskTypes
    DEF HandshakeReads, HandshakeGivesUp, AnswerInv, TypeInv, References, Waiting
  <2> QED
    BY <1>1, <2>1, HandshakeReadsStep, HandshakeGivesUpStep DEF AnswerInv
<1>2. ASSUME NEW t \in Task,
             \/ ReadAnswer(t) \/ CallGivesUp(t) \/ (CancelCall(t) /\ frame[t].pc = "reading")
      PROVE  \E r \in RequestType :
                 /\ SettleStep(frame[t].req, r) /\ frame[t].req \in DOMAIN request
                 /\ \A h \in DOMAIN process : process'[h].state = process[h].state
  <2>1. frame[t].req \in DOMAIN request
    BY <1>2 DEF ReadAnswer, CallGivesUp, AnswerInv, TypeInv, References, Waiting
  <2> QED
    BY <1>2, <2>1, ReadAnswerStep, CallEndsStep DEF AnswerInv
<1> QED
  BY <1>1, <1>2

LEMMA RemoteStep ==
    ASSUME AnswerInv, TypeInv', LeftInv, SpoilInv, [Next]_vars
    PROVE  [Remote!Next]_(Remote!vars)
<1>1. CASE UNCHANGED vars
  BY <1>1, StutterStep DEF vars
<1>2. CASE \/ Connect \/ SpawnFails \/ BeginClose \/ Waited \/ CancelWait \/ Reap
           \/ \E t \in Task :
                 BeginCall(t) \/ WriteFails(t) \/ (CancelCall(t) /\ frame[t].pc = "lock")
  BY <1>2, StutterStep
  DEF Connect, SpawnFails, BeginClose, Waited, CancelWait, Reap, BeginCall, WriteFails, CancelCall
<1>3. CASE KillServer
  <2>1. client.proc \in DOMAIN process
    BY <1>3, Indices DEF KillServer, AnswerInv, TypeInv, References
  <2>2. \/ UNCHANGED <<process, request>>
        \/ /\ process' = [process EXCEPT ![client.proc].state = "killed"]
           /\ request' = request
    BY <1>3 DEF KillServer
  <2> QED
    BY <2>1, <2>2, StutterStep, EndStep DEF AnswerInv
<1>4. CASE Server
  <2>1. ASSUME NEW g \in DOMAIN process, Die(g) PROVE [Remote!Next]_(Remote!vars)
    BY <2>1, EndStep DEF Die, AnswerInv
  <2> QED
    BY <1>4, <2>1, GiveStep DEF Server, SpoilInv
<1>5. CASE Spawn
  BY <1>5, OpenStep
<1>6. CASE \E t \in Task : WriteRequest(t) \/ WriteBesideHandshake(t)
  BY <1>6, CallStepIs
<1>7. CASE \/ HandshakeReads
           \/ \E state \in {"refused", "raised"} : HandshakeGivesUp(state)
           \/ \E t \in Task : \/ ReadAnswer(t) \/ CallGivesUp(t)
                              \/ (CancelCall(t) /\ frame[t].pc = "reading")
  BY <1>7, EndsAreSettled, SettleStepIs
<1> QED
  BY <1>1, <1>2, <1>3, <1>4, <1>5, <1>6, <1>7, NextCases

\* Whatever the tasks, the servers, the timeouts and the cancellations do, and whatever
\* an abandoned call leaves in a pipe, the client is the one of RemoteCalls.
THEOREM ClientCallsRemotely == Spec => CallsRemotely
<1>1. Init => Remote!Init
  BY DEF Init, Remote!Init, Alive, Calls, Given
<1>2. AnswerInv /\ LeftInv /\ SpoilInv /\ [Next]_vars => TypeInv'
  BY TypeStep DEF AnswerInv
<1>3. AnswerInv /\ TypeInv' /\ LeftInv /\ SpoilInv /\ [Next]_vars
        => [Remote!Next]_(Remote!vars)
  BY RemoteStep
<1> QED
  BY <1>1, <1>2, <1>3, SpoilHolds, PTL DEF Spec, CallsRemotely, Remote!Spec
=============================================================================
