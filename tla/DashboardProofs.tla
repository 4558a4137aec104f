-------------------------- MODULE DashboardProofs --------------------------
(***************************************************************************)
(* Proofs about what the dashboard shows.  The progress of a job, for any  *)
(* number of clients, events, retries, generations of the hook and requests*)
(* under way: a client that reconnects from its last event hears the log   *)
(* from the beginning without a gap or a repetition, and the dashboard says*)
(* "finished" only with a verdict as long as the network keeps the order of*)
(* requests.  The rows of the subdomain workspace, for any certificates,   *)
(* answers and runs: they say what the certificates say.  The launch form, *)
(* for texts of any length: a canonical target is its own canonical form,  *)
(* and the preview names the type that the server gives it.                *)
(***************************************************************************)
EXTENDS Dashboard, Targets, Subdomains, SequenceTheorems, FiniteSetTheorems, TLAPS

-----------------------------------------------------------------------------
(* Runs of consecutive ids.                                                *)

LEMMA HearingGoesOn ==
    ASSUME NEW h \in Seq(Ids), NEW w \in Seq(Ids), w # <<>>,
           Consecutive(h, 0), Consecutive(w, Len(h))
    PROVE  /\ Append(h, Head(w)) \in Seq(Ids)
           /\ Tail(w) \in Seq(Ids)
           /\ Len(Append(h, Head(w))) = Len(h) + 1
           /\ Len(Tail(w)) = Len(w) - 1
           /\ Consecutive(Append(h, Head(w)), 0)
           /\ Consecutive(Tail(w), Len(h) + 1)
<1>1. /\ Len(w) \in Nat /\ DOMAIN w = 1..Len(w) /\ Len(w) > 0
      /\ Len(h) \in Nat /\ DOMAIN h = 1..Len(h)
  BY EmptySeq, LenProperties
<1>2. /\ Head(w) \in Ids /\ Head(w) = w[1]
      /\ Tail(w) \in Seq(Ids) /\ Len(Tail(w)) = Len(w) - 1
      /\ \A i \in 1..Len(Tail(w)) : Tail(w)[i] = w[i + 1]
  BY HeadTailProperties
<1>3. Head(w) = Len(h) + 1
  BY <1>1, <1>2 DEF Consecutive
<1>4. /\ Append(h, Head(w)) \in Seq(Ids) /\ Len(Append(h, Head(w))) = Len(h) + 1
      /\ \A i \in 1..Len(h) : Append(h, Head(w))[i] = h[i]
      /\ Append(h, Head(w))[Len(h) + 1] = Head(w)
  BY <1>1, <1>2, AppendProperties
<1>5. Consecutive(Append(h, Head(w)), 0)
  BY <1>1, <1>3, <1>4, LenProperties DEF Consecutive
<1>6. Consecutive(Tail(w), Len(h) + 1)
  <2>1. ASSUME NEW i \in DOMAIN Tail(w) PROVE Tail(w)[i] = Len(h) + 1 + i
    <3>1. i \in 1..Len(Tail(w)) /\ i + 1 \in DOMAIN w
      BY <1>1, <1>2, LenProperties
    <3> QED
      BY <1>1, <1>2, <3>1 DEF Consecutive
  <2> QED
    BY <2>1 DEF Consecutive
<1> QED
  BY <1>2, <1>4, <1>5, <1>6

LEMMA WireGoesOn ==
    ASSUME NEW w \in Seq(Ids), NEW b \in Seq(Ids), NEW n \in Nat,
           Consecutive(w, n), Consecutive(b, n + Len(w))
    PROVE  /\ w \o b \in Seq(Ids)
           /\ Len(w \o b) = Len(w) + Len(b)
           /\ Consecutive(w \o b, n)
           /\ b # <<>> => Last(b) = n + Len(w) + Len(b)
<1>1. /\ Len(w) \in Nat /\ DOMAIN w = 1..Len(w)
      /\ Len(b) \in Nat /\ DOMAIN b = 1..Len(b)
      /\ b # <<>> => Len(b) > 0
  BY EmptySeq, LenProperties
<1>2. /\ w \o b \in Seq(Ids) /\ Len(w \o b) = Len(w) + Len(b)
      /\ \A i \in 1..(Len(w) + Len(b)) :
            (w \o b)[i] = IF i <= Len(w) THEN w[i] ELSE b[i - Len(w)]
  BY ConcatProperties
<1>3. Consecutive(w \o b, n)
  <2>1. ASSUME NEW i \in DOMAIN (w \o b) PROVE (w \o b)[i] = n + i
    <3>1. i \in 1..(Len(w) + Len(b))
      BY <1>2, LenProperties
    <3>2. CASE i <= Len(w)
      BY <1>1, <1>2, <3>1, <3>2 DEF Consecutive
    <3>3. CASE i > Len(w)
      BY <1>1, <1>2, <3>1, <3>3 DEF Consecutive
    <3> QED
      BY <1>1, <3>1, <3>2, <3>3
  <2> QED
    BY <2>1 DEF Consecutive
<1>4. b # <<>> => Last(b) = n + Len(w) + Len(b)
  BY <1>1 DEF Last, Consecutive
<1> QED
  BY <1>2, <1>3, <1>4

(* What the generator reads are the events after the last one it sent.     *)
LEMMA NewEventsFollow ==
    ASSUME StreamTypeOK, NEW k \in Connections
    PROVE  NewEvents(k) \in Seq(Ids) /\ Consecutive(NewEvents(k), seen[k])
<1>1. seen[k] \in Nat /\ log \in Nat /\ log <= MaxEvents
  BY StreamAssumption DEF StreamTypeOK
<1>2. CASE status = NoRow
  BY <1>2, EmptySeq DEF NewEvents, Consecutive
<1>3. CASE status # NoRow
  <2> DEFINE n == IF log >= seen[k] THEN log - seen[k] ELSE 0
             ids == [i \in 1..n |-> seen[k] + i]
  <2>1. n \in Nat /\ NewEvents(k) = ids
    BY <1>1, <1>3 DEF NewEvents
  <2>2. \A i \in 1..n : ids[i] \in Ids
    BY <1>1, StreamAssumption DEF Ids
  <2>3. ids \in Seq(Ids)
    BY <2>1, <2>2
  <2>4. \A i \in DOMAIN ids : ids[i] = seen[k] + i
    OBVIOUS
  <2> QED
    BY <2>1, <2>3, <2>4 DEF Consecutive
<1> QED
  BY <1>2, <1>3

-----------------------------------------------------------------------------
(* The stream.                                                             *)

Unheard(k) == UNCHANGED <<point[k], seen[k], batch[k], wire[k], heard[k]>>

LEMMA Verdict == Verdicts \subseteq JobStatuses /\ NoRow \notin JobStatuses
                 /\ TerminalJobStatuses \subseteq JobStatuses
BY StreamAssumption DEF JobStatuses, TerminalJobStatuses, NoRow

LEMMA JobKeepsType ==
    ASSUME StreamTypeOK, JobStep \/ (Requeued /\ UNCHANGED <<faults, generatorVars, wire, heard>>)
    PROVE  StreamTypeOK'
<1> USE StreamAssumption, Verdict DEF StreamTypeOK, generatorVars
<1>1. CASE Claim
  BY <1>1 DEF Claim, JobStatuses
<1>2. CASE Emit
  BY <1>2 DEF Emit
<1>3. CASE \E verdict \in Verdicts : Finish(verdict)
  BY <1>3 DEF Finish
<1>4. CASE Delete
  BY <1>4 DEF Delete
<1>5. CASE Requeued /\ UNCHANGED <<faults, generatorVars, wire, heard>>
  BY <1>5 DEF Requeued, JobStatuses
<1> QED
  BY <1>1, <1>2, <1>3, <1>4, <1>5 DEF JobStep

(* The events a connection holds are events of the log.                    *)
LEMMA EmptyWire == <<>> \in Seq(Ids) /\ 0 \in 0..MaxEvents
BY StreamAssumption, EmptySeq

LEMMA OpenKeepsType ==
    ASSUME StreamTypeOK, NEW k \in Connections, NEW n \in 0..MaxEvents, Open(k, n)
    PROVE  /\ point' \in [Connections -> Points] /\ seen' \in [Connections -> 0..MaxEvents]
           /\ batch' \in [Connections -> Seq(Ids)] /\ over' \in [Connections -> BOOLEAN]
           /\ wire' \in [Connections -> Seq(Ids)]
BY EmptyWire DEF StreamTypeOK, Open, Points

LEMMA ForgetKeepsType ==
    ASSUME StreamTypeOK, NEW k \in Connections, Forget(k)
    PROVE  /\ seen' \in [Connections -> 0..MaxEvents]
           /\ batch' \in [Connections -> Seq(Ids)] /\ over' \in [Connections -> BOOLEAN]
BY EmptyWire DEF StreamTypeOK, Forget

LEMMA LastHeard ==
    ASSUME StreamTypeOK, NEW s \in Seq(Ids)
    PROVE  (IF s = <<>> THEN 0 ELSE Last(s)) \in 0..MaxEvents
<1>1. s # <<>> => Len(s) \in DOMAIN s
  BY EmptySeq, LenProperties
<1>2. s # <<>> => Last(s) \in Ids
  BY <1>1, LenProperties, ElementOfSeq DEF Last
<1> QED
  BY <1>2, StreamAssumption DEF Ids

LEMMA ConnectionKeepsType ==
    ASSUME StreamTypeOK, NEW k \in Connections, Generate(k) \/ Drop(k)
    PROVE  StreamTypeOK'
<1> USE DEF StreamTypeOK, jobVars
<1>1. CASE ReadEvents(k)
  BY <1>1, NewEventsFollow DEF ReadEvents, Points
<1>2. CASE ReadJob(k)
  BY <1>2 DEF ReadJob, Points
<1>3. CASE SendEvents(k)
  <2>1. wire' \in [Connections -> Seq(Ids)]
    BY <1>3, ConcatProperties DEF SendEvents
  <2>2. point' \in [Connections -> Points]
    BY <1>3 DEF SendEvents, Points
  <2>3. CASE over[k]
    BY <1>3, <2>1, <2>2, <2>3, ForgetKeepsType DEF SendEvents
  <2>4. CASE ~over[k]
    <3>1. batch[k] # <<>> => Last(batch[k]) \in 0..MaxEvents
      BY LastHeard
    <3>2. seen' \in [Connections -> 0..MaxEvents]
      BY <1>3, <2>4, <3>1 DEF SendEvents
    <3> QED
      BY <1>3, <2>1, <2>2, <2>4, <3>2, EmptyWire DEF SendEvents
  <2> QED
    BY <2>3, <2>4
<1>4. CASE Drop(k)
  <2>1. faults' \in 0..MaxFaults
    BY <1>4, StreamAssumption DEF Drop
  <2> QED
    BY <1>4, <2>1, ForgetKeepsType, EmptyWire DEF Drop, Points
<1> QED
  BY <1>1, <1>2, <1>3, <1>4 DEF Generate

LEMMA FollowKeepsType ==
    ASSUME StreamTypeOK, NEW k \in Followers, FollowerInv(k), Follow(k)
    PROVE  StreamTypeOK'
<1>1. k \in Connections
  BY StreamAssumption
<1> USE DEF StreamTypeOK, jobVars, generatorVars
<1>2. CASE Reconnect(k)
  <2>1. heard[k] \in Seq(Ids)
    BY <1>1
  <2> QED
    BY <1>1, <1>2, <2>1, LastHeard, OpenKeepsType DEF Reconnect
<1>3. CASE Hear(k)
  <2>1. /\ Append(heard[k], Head(wire[k])) \in Seq(Ids)
        /\ Tail(wire[k]) \in Seq(Ids)
    BY <1>1, <1>3, HearingGoesOn DEF Hear, FollowerInv
  <2> QED
    BY <1>1, <1>3, <2>1 DEF Hear
<1>4. CASE Closed(k)
  BY <1>1, <1>4 DEF Closed, Points
<1> QED
  BY <1>2, <1>3, <1>4 DEF Follow

(* A step that leaves a client and its connection alone.                   *)
LEMMA OthersConnection ==
    ASSUME NEW k \in Followers, FollowerInv(k), Unheard(k)
    PROVE  FollowerInv(k)'
BY DEF FollowerInv, Unheard, Consecutive

LEMMA JobLeavesClients ==
    ASSUME NEW k \in Connections, JobStep \/ UNCHANGED <<generatorVars, wire, heard>>
    PROVE  Unheard(k)
BY DEF JobStep, Claim, Emit, Finish, Delete, generatorVars, Unheard

LEMMA OthersLeaveClients ==
    ASSUME StreamTypeOK, NEW k \in Connections, NEW j \in Connections, j # k,
           Generate(j) \/ Drop(j) \/ Follow(j)
    PROVE  Unheard(k)
BY DEF StreamTypeOK, Generate, Drop, Follow, ReadEvents, ReadJob, SendEvents, Forget,
       Reconnect, Open, Hear, Closed, generatorVars, Unheard

LEMMA GeneratorKeepsFollower ==
    ASSUME StreamTypeOK, NEW k \in Followers, FollowerInv(k), Generate(k) \/ Drop(k)
    PROVE  FollowerInv(k)'
<1>1. /\ k \in Connections
      /\ wire[k] \in Seq(Ids) /\ heard[k] \in Seq(Ids) /\ batch[k] \in Seq(Ids)
      /\ Len(wire[k]) \in Nat /\ Len(heard[k]) \in Nat /\ Len(batch[k]) \in Nat
  BY StreamAssumption, LenProperties DEF StreamTypeOK
<1>2. CASE ReadEvents(k)
  <2>1. /\ batch'[k] = NewEvents(k) /\ point'[k] = "job"
        /\ UNCHANGED <<seen[k], wire[k], heard[k]>>
    BY <1>1, <1>2 DEF ReadEvents, StreamTypeOK
  <2> QED
    BY <1>1, <1>2, <2>1, NewEventsFollow DEF FollowerInv, Consecutive, ReadEvents
<1>3. CASE ReadJob(k)
  BY <1>1, <1>3 DEF FollowerInv, Consecutive, ReadJob, StreamTypeOK
<1>4. CASE SendEvents(k)
  <2>1. /\ Consecutive(wire[k], Len(heard[k]))
        /\ Consecutive(batch[k], Len(heard[k]) + Len(wire[k]))
        /\ seen[k] = Len(heard[k]) + Len(wire[k])
    BY <1>4 DEF FollowerInv, SendEvents
  <2>2. /\ wire'[k] = wire[k] \o batch[k] /\ heard'[k] = heard[k]
        /\ point'[k] \in {"events", "broken"}
    BY <1>1, <1>4 DEF SendEvents, StreamTypeOK
  <2>3. /\ Consecutive(wire[k] \o batch[k], Len(heard[k]))
        /\ Len(wire[k] \o batch[k]) = Len(wire[k]) + Len(batch[k])
        /\ batch[k] # <<>> => Last(batch[k]) = Len(heard[k]) + Len(wire[k]) + Len(batch[k])
    BY <1>1, <2>1, WireGoesOn
  <2>4. ASSUME point'[k] = "events"
        PROVE  seen'[k] = Len(heard'[k]) + Len(wire'[k])
    <3> DEFINE h == Len(heard[k])
               w == Len(wire[k])
               b == Len(batch[k])
    <3>1. /\ Len(wire'[k]) = w + b /\ Len(heard'[k]) = h
          /\ h \in Nat /\ w \in Nat /\ b \in Nat /\ seen[k] = h + w
          /\ batch[k] # <<>> => Last(batch[k]) = h + w + b
      BY <1>1, <2>1, <2>2, <2>3
    <3>2. seen'[k] = IF batch[k] = <<>> THEN seen[k] ELSE Last(batch[k])
      BY <1>1, <1>4, <2>4 DEF SendEvents, StreamTypeOK
    <3>3. batch[k] = <<>> => b = 0
      OBVIOUS
    <3>4. seen'[k] = h + w + b
      <4> HIDE DEF h, w, b
      <4>1. CASE batch[k] = <<>>
        BY <3>1, <3>2, <3>3, <4>1
      <4>2. CASE batch[k] # <<>>
        BY <3>1, <3>2, <4>2
      <4> QED
        BY <4>1, <4>2
    <3> QED
      <4> HIDE DEF h, w, b
      <4> QED
        BY <3>1, <3>4
  <2> QED
    BY <2>1, <2>2, <2>3, <2>4, <1>1 DEF FollowerInv, Consecutive
<1>5. CASE Drop(k)
  <2>1. wire'[k] = <<>> /\ point'[k] = "broken" /\ heard' = heard
    BY <1>1, <1>5 DEF Drop, StreamTypeOK
  <2> QED
    BY <2>1 DEF FollowerInv, Consecutive
<1> QED
  BY <1>2, <1>3, <1>4, <1>5 DEF Generate

LEMMA ClientKeepsFollower ==
    ASSUME StreamTypeOK, NEW k \in Followers, FollowerInv(k), Follow(k)
    PROVE  FollowerInv(k)'
<1>1. /\ k \in Connections
      /\ wire[k] \in Seq(Ids) /\ heard[k] \in Seq(Ids)
      /\ Len(wire[k]) \in Nat /\ Len(heard[k]) \in Nat
  BY StreamAssumption, LenProperties DEF StreamTypeOK
<1>2. CASE Reconnect(k)
  <2>1. /\ wire'[k] = <<>> /\ point'[k] = "events" /\ heard' = heard
        /\ seen'[k] = IF heard[k] = <<>> THEN 0 ELSE Last(heard[k])
    BY <1>1, <1>2 DEF Reconnect, Open, StreamTypeOK
  <2>2. seen'[k] = Len(heard[k])
    <3>1. CASE heard[k] = <<>>
      BY <2>1, <3>1
    <3>2. CASE heard[k] # <<>>
      <4>1. Len(heard[k]) \in DOMAIN heard[k]
        BY <1>1, <3>2, EmptySeq, LenProperties
      <4> QED
        BY <1>1, <2>1, <3>2, <4>1 DEF FollowerInv, Consecutive, Last
    <3> QED
      BY <3>1, <3>2
  <2>3. Len(wire'[k]) = 0
    BY <2>1
  <2> QED
    BY <1>1, <2>1, <2>2, <2>3 DEF FollowerInv, Consecutive
<1>3. CASE Hear(k)
  <2>1. /\ wire[k] # <<>> /\ wire'[k] = Tail(wire[k])
        /\ heard'[k] = Append(heard[k], Head(wire[k]))
        /\ UNCHANGED <<point[k], seen[k], batch[k]>>
    BY <1>1, <1>3 DEF Hear, StreamTypeOK, generatorVars
  <2>2. /\ Len(heard'[k]) = Len(heard[k]) + 1 /\ Len(wire'[k]) = Len(wire[k]) - 1
        /\ Consecutive(heard'[k], 0) /\ Consecutive(wire'[k], Len(heard'[k]))
    BY <1>1, <2>1, HearingGoesOn DEF FollowerInv
  <2>3. point'[k] \notin {"absent", "closed"}
    BY <2>1 DEF FollowerInv
  <2>4. point'[k] \in {"events", "job", "send"} => seen'[k] = Len(heard'[k]) + Len(wire'[k])
    <3> DEFINE h == Len(heard[k])
               w == Len(wire[k])
    <3>1. /\ point'[k] = point[k] /\ seen'[k] = seen[k]
          /\ Len(heard'[k]) = h + 1 /\ Len(wire'[k]) = w - 1
          /\ h \in Nat /\ w \in Nat
          /\ point[k] \in {"events", "job", "send"} => seen[k] = h + w
      BY <1>1, <2>1, <2>2 DEF FollowerInv
    <3> HIDE DEF h, w
    <3> QED
      BY <3>1
  <2>5. point'[k] \in {"job", "send"} => Consecutive(batch'[k], seen'[k])
    BY <2>1 DEF FollowerInv, Consecutive
  <2> QED
    BY <2>2, <2>3, <2>4, <2>5 DEF FollowerInv
<1>4. CASE Closed(k)
  BY <1>1, <1>4 DEF FollowerInv, Consecutive, Closed, StreamTypeOK
<1> QED
  BY <1>2, <1>3, <1>4 DEF Follow

StreamInv == StreamTypeOK /\ \A k \in Followers : FollowerInv(k)

LEMMA StreamStep ==
    ASSUME StreamInv, StreamNext
    PROVE  StreamInv'
<1>1. CASE JobStep \/ (Requeued /\ UNCHANGED <<faults, generatorVars, wire, heard>>)
  <2>1. ASSUME NEW k \in Followers PROVE FollowerInv(k)'
    BY <1>1, StreamAssumption, JobLeavesClients, OthersConnection DEF StreamInv
  <2> QED
    BY <1>1, <2>1, JobKeepsType DEF StreamInv
<1>2. ASSUME NEW j \in Connections,
             Generate(j) \/ Drop(j) \/ (j \in Followers /\ Follow(j))
      PROVE  StreamInv'
  <2>1. ASSUME NEW k \in Followers PROVE FollowerInv(k)'
    <3>1. CASE j = k
      BY <1>2, <3>1, GeneratorKeepsFollower, ClientKeepsFollower DEF StreamInv
    <3>2. CASE j # k
      BY <1>2, <3>2, StreamAssumption, OthersLeaveClients, OthersConnection DEF StreamInv
    <3> QED
      BY <3>1, <3>2
  <2>2. StreamTypeOK'
    BY <1>2, ConnectionKeepsType, FollowKeepsType DEF StreamInv
  <2> QED
    BY <2>1, <2>2 DEF StreamInv
<1>3. CASE \E j \in Connections : Generate(j) \/ Drop(j)
  BY <1>2, <1>3
<1>4. CASE \E j \in Followers : Follow(j)
  <2>1. PICK j \in Followers : Follow(j)
    BY <1>4
  <2> QED
    BY <1>2, <2>1, StreamAssumption
<1> QED
  BY <1>1, <1>3, <1>4 DEF StreamNext

LEMMA StreamStarts == StreamInit => StreamInv
BY StreamAssumption, EmptyWire, Verdict
DEF StreamInit, StreamInv, StreamTypeOK, FollowerInv, Consecutive, Points, JobStatuses

LEMMA InOrderByInv == StreamInv => HeardInOrder
<1> SUFFICES ASSUME StreamInv, NEW k \in Followers, NEW i \in DOMAIN heard[k]
             PROVE  heard[k][i] = i
  BY DEF HeardInOrder
<1>1. heard[k] \in Seq(Ids) /\ Consecutive(heard[k], 0)
  BY StreamAssumption DEF StreamInv, StreamTypeOK, FollowerInv
<1> QED
  BY <1>1, LenProperties DEF Consecutive

(* A client that opens each connection with the last event it has received *)
(* hears the log from its first event without a gap, a repetition or a     *)
(* change of order, whatever is lost and however the job's transactions    *)
(* fall between the two SELECTs (_sse_event_stream, job_events).           *)
THEOREM StreamIsHeardInOrder == StreamSpec => []HeardInOrder
<1>1. StreamInv /\ UNCHANGED streamVars => StreamInv'
  BY DEF StreamInv, StreamTypeOK, FollowerInv, Consecutive, streamVars
<1> QED
  BY <1>1, StreamStarts, StreamStep, InOrderByInv, PTL DEF StreamSpec

-----------------------------------------------------------------------------
(* The requests of the dashboard: what each action makes of the queue.     *)

LEMMA GenerationsAre ==
    /\ MaxGenerations \in Nat /\ MaxGenerations > 0
    /\ Generations = 1..MaxGenerations
    /\ Generations \subseteq Connections /\ Followers \subseteq Connections
    /\ Generations \cap Followers = {}
BY StreamAssumption, DashboardAssumption DEF Generations

QueueOK == requests \in Seq(RequestsMade)

LEMMA QueueIs ==
    ASSUME QueueOK
    PROVE  /\ Len(requests) \in Nat /\ DOMAIN requests = 1..Len(requests)
           /\ \A i \in DOMAIN requests :
                 /\ requests[i] \in RequestsMade
                 /\ requests[i].kind \in Fetches \cup {"retry"}
                 /\ requests[i].generation \in Generations
                 /\ requests[i].answer \in Answers
<1>1. Len(requests) \in Nat /\ DOMAIN requests = 1..Len(requests)
  BY LenProperties DEF QueueOK
<1>2. \A i \in 1..Len(requests) : requests[i] \in RequestsMade
  BY ElementOfSeq DEF QueueOK
<1> QED
  BY <1>1, <1>2 DEF RequestsMade

Grown(q) ==
    /\ QueueOK' /\ Len(requests') = Len(requests) + 1
    /\ \A j \in DOMAIN requests : requests'[j] = requests[j]
    /\ requests'[Len(requests) + 1] = q

Noted(i, a) ==
    /\ QueueOK' /\ Len(requests') = Len(requests)
    /\ \A j \in DOMAIN requests \ {i} : requests'[j] = requests[j]
    /\ requests'[i].kind = requests[i].kind
    /\ requests'[i].generation = requests[i].generation
    /\ requests'[i].answer = a

Removed(i) ==
    /\ QueueOK' /\ Len(requests') = Len(requests) - 1
    /\ \A j \in DOMAIN requests' :
          requests'[j] = IF j < i THEN requests[j] ELSE requests[j + 1]

Replaced(i, q) ==
    /\ QueueOK' /\ Len(requests') = Len(requests)
    /\ \A j \in 1..(Len(requests) - 1) :
          requests'[j] = IF j < i THEN requests[j] ELSE requests[j + 1]
    /\ requests'[Len(requests)] = q

LEMMA AskGrows ==
    ASSUME QueueOK, NEW kind \in Fetches \cup {"retry"}, NEW g \in Generations, Ask(kind, g)
    PROVE  Grown([kind |-> kind, generation |-> g, answer |-> Waiting])
           /\ Len(requests') <= MaxUnderWay
<1> DEFINE q == [kind |-> kind, generation |-> g, answer |-> Waiting]
<1>1. q \in RequestsMade
  BY DEF RequestsMade, Answers
<1>2. requests' = Append(requests, q) /\ Len(requests) < MaxUnderWay
  BY DEF Ask
<1>3. Len(requests) \in Nat /\ DOMAIN requests = 1..Len(requests) /\ MaxUnderWay \in Nat
  BY QueueIs, DashboardAssumption
<1> HIDE DEF q
<1>4. /\ requests' \in Seq(RequestsMade) /\ Len(requests') = Len(requests) + 1
      /\ \A j \in 1..Len(requests) : requests'[j] = requests[j]
      /\ requests'[Len(requests) + 1] = q
  BY <1>1, <1>2, AppendProperties DEF QueueOK
<1>5. Grown(q) /\ Len(requests') <= MaxUnderWay
  BY <1>2, <1>3, <1>4 DEF Grown, QueueOK
<1> QED
  BY <1>5 DEF q

LEMMA AnswerNotes ==
    ASSUME QueueOK, NEW i \in DOMAIN requests, NEW a \in Answers,
           requests' = [requests EXCEPT ![i].answer = a]
    PROVE  Noted(i, a)
<1> DEFINE q == [requests[i] EXCEPT !.answer = a]
<1>1. /\ requests' = [requests EXCEPT ![i] = q] /\ DOMAIN requests = 1..Len(requests)
      /\ requests[i] \in RequestsMade /\ i \in 1..Len(requests)
  BY QueueIs
<1>2. /\ q \in RequestsMade /\ q.kind = requests[i].kind
      /\ q.generation = requests[i].generation /\ q.answer = a
  BY <1>1 DEF RequestsMade
<1> HIDE DEF q
<1>3. /\ requests' \in Seq(RequestsMade) /\ Len(requests') = Len(requests)
      /\ \A j \in 1..Len(requests) : requests'[j] = IF j = i THEN q ELSE requests[j]
  BY <1>1, <1>2, ExceptSeq DEF QueueOK
<1> QED
  BY <1>1, <1>2, <1>3 DEF Noted, QueueOK

LEMMA RemoveAtProperties ==
    ASSUME NEW S, NEW s \in Seq(S), NEW i \in 1..Len(s)
    PROVE  /\ RemoveAt(s, i) \in Seq(S) /\ Len(RemoveAt(s, i)) = Len(s) - 1
           /\ \A j \in 1..(Len(s) - 1) :
                 RemoveAt(s, i)[j] = IF j < i THEN s[j] ELSE s[j + 1]
<1> DEFINE before == SubSeq(s, 1, i - 1)
           after == SubSeq(s, i + 1, Len(s))
<1>1. Len(s) \in Nat /\ \A j \in 1..Len(s) : s[j] \in S
  BY LenProperties, ElementOfSeq
<1>2. /\ before \in Seq(S) /\ Len(before) = i - 1
      /\ \A j \in 1..(i - 1) : before[j] = s[j]
  <2>1. \A j \in 1..(i - 1) : s[j] \in S
    BY <1>1
  <2>2. /\ before \in Seq(S) /\ Len(before) = IF 1 <= i - 1 THEN i - 1 - 1 + 1 ELSE 0
        /\ \A j \in 1..(i - 1 - 1 + 1) : before[j] = s[1 + j - 1]
    BY <1>1, <2>1, SubSeqProperties
  <2> HIDE DEF before
  <2> QED
    BY <1>1, <2>2
<1>3. /\ after \in Seq(S) /\ Len(after) = Len(s) - i
      /\ \A j \in 1..(Len(s) - i) : after[j] = s[j + i]
  <2>1. \A j \in (i + 1)..Len(s) : s[j] \in S
    BY <1>1
  <2>2. /\ after \in Seq(S)
        /\ Len(after) = IF i + 1 <= Len(s) THEN Len(s) - (i + 1) + 1 ELSE 0
        /\ \A j \in 1..(Len(s) - (i + 1) + 1) : after[j] = s[i + 1 + j - 1]
    BY <1>1, <2>1, SubSeqProperties
  <2> HIDE DEF after
  <2>3. Len(after) = Len(s) - i
    BY <1>1, <2>2
  <2>4. ASSUME NEW j \in 1..(Len(s) - i) PROVE after[j] = s[j + i]
    <3>1. j \in 1..(Len(s) - (i + 1) + 1) /\ i + 1 + j - 1 = j + i
      BY <1>1
    <3> QED
      BY <2>2, <3>1
  <2> QED
    BY <2>2, <2>3, <2>4
<1>4. RemoveAt(s, i) = before \o after
  BY DEF RemoveAt
<1> HIDE DEF before, after
<1>5. /\ before \o after \in Seq(S) /\ Len(before \o after) = Len(s) - 1
      /\ \A j \in 1..(Len(s) - 1) :
            (before \o after)[j] = IF j <= i - 1 THEN before[j] ELSE after[j - (i - 1)]
  <2>1. /\ before \o after \in Seq(S) /\ Len(before \o after) = Len(before) + Len(after)
        /\ \A j \in 1..(Len(before) + Len(after)) :
              (before \o after)[j] =
                  IF j <= Len(before) THEN before[j] ELSE after[j - Len(before)]
    BY <1>2, <1>3, ConcatProperties
  <2>2. Len(before) = i - 1 /\ Len(before) + Len(after) = Len(s) - 1
    BY <1>1, <1>2, <1>3
  <2> QED
    BY <2>1, <2>2
<1>6. ASSUME NEW j \in 1..(Len(s) - 1)
      PROVE  (before \o after)[j] = IF j < i THEN s[j] ELSE s[j + 1]
  <2>1. CASE j < i
    BY <1>1, <1>2, <1>5, <2>1
  <2>2. CASE ~(j < i)
    <3>1. /\ j - (i - 1) \in 1..(Len(s) - i) /\ (j - (i - 1)) + i = j + 1
          /\ ~(j <= i - 1)
      BY <1>1, <2>2
    <3> QED
      BY <1>3, <1>5, <2>2, <3>1
  <2> QED
    BY <2>1, <2>2
<1> QED
  BY <1>4, <1>5, <1>6

LEMMA RemovalRemoves ==
    ASSUME QueueOK, NEW i \in DOMAIN requests, requests' = RemoveAt(requests, i)
    PROVE  Removed(i)
<1>1. DOMAIN requests = 1..Len(requests) /\ Len(requests) \in Nat
  BY QueueIs
<1>2. /\ requests' \in Seq(RequestsMade) /\ Len(requests') = Len(requests) - 1
      /\ \A j \in 1..(Len(requests) - 1) :
            requests'[j] = IF j < i THEN requests[j] ELSE requests[j + 1]
  BY <1>1, RemoveAtProperties DEF QueueOK
<1>3. DOMAIN requests' = 1..(Len(requests) - 1)
  BY <1>2, LenProperties
<1> QED
  BY <1>2, <1>3 DEF Removed, QueueOK

LEMMA RetryReplaces ==
    ASSUME QueueOK, NEW i \in DOMAIN requests, NEW q \in RequestsMade,
           requests' = Append(RemoveAt(requests, i), q)
    PROVE  Replaced(i, q)
<1> DEFINE s == RemoveAt(requests, i)
<1>1. DOMAIN requests = 1..Len(requests) /\ Len(requests) \in Nat
  BY QueueIs
<1>2. /\ s \in Seq(RequestsMade) /\ Len(s) = Len(requests) - 1
      /\ \A j \in 1..(Len(requests) - 1) :
            s[j] = IF j < i THEN requests[j] ELSE requests[j + 1]
  BY <1>1, RemoveAtProperties DEF QueueOK
<1> HIDE DEF s
<1>3. /\ Append(s, q) \in Seq(RequestsMade) /\ Len(Append(s, q)) = Len(s) + 1
      /\ \A j \in 1..Len(s) : Append(s, q)[j] = s[j]
      /\ Append(s, q)[Len(s) + 1] = q
  BY <1>2, AppendProperties
<1>4. requests' = Append(s, q)
  BY DEF s
<1>5. Len(s) + 1 = Len(requests)
  BY <1>1, <1>2
<1> QED
  BY <1>1, <1>2, <1>3, <1>4, <1>5 DEF Replaced, QueueOK

-----------------------------------------------------------------------------
(* Whom the answers are for, on any network.                               *)

BaseInv == StreamInv /\ DashboardTypeOK /\ HookInv

(* What was lost stays lost, and a job that was deleted stays deleted.     *)
NothingUndone == (status = NoRow => status' = NoRow) /\ (faults > 0 => faults' > 0)

LEMMA GrownKeepsRequests ==
    ASSUME QueueOK, NEW q \in RequestsMade, Grown(q), NothingUndone,
           \A i \in DOMAIN requests : RequestInv(i),
           generation' = generation, q.generation = generation, q.answer = Waiting,
           NEW i \in DOMAIN requests'
    PROVE  RequestInv(i)'
<1>1. /\ DOMAIN requests = 1..Len(requests) /\ DOMAIN requests' = 1..(Len(requests) + 1)
      /\ Len(requests) \in Nat
  BY QueueIs, LenProperties DEF Grown, QueueOK
<1>2. \A j \in DOMAIN requests : requests'[j] = requests[j]
  BY DEF Grown
<1>3. requests'[Len(requests) + 1] = q
  BY DEF Grown
<1>4. CASE i \in DOMAIN requests
  <2>1. RequestInv(i) /\ requests'[i] = requests[i]
    BY <1>2, <1>4
  <2> QED
    BY <2>1 DEF RequestInv, NothingUndone
<1>5. CASE i = Len(requests) + 1
  <2>1. requests'[i] = q /\ generation \in Nat => q.generation <= generation
    BY <1>3, <1>5
  <2>2. generation <= generation
    BY GenerationsAre DEF RequestsMade
  <2> QED
    BY <1>3, <1>5, <2>2 DEF RequestInv, Waiting, Unreachable, NoRow
<1> QED
  BY <1>1, <1>4, <1>5

LEMMA NotedKeepsRequests ==
    ASSUME QueueOK, NEW n \in DOMAIN requests, NEW a \in Answers, Noted(n, a), NothingUndone,
           \A i \in DOMAIN requests : RequestInv(i),
           generation' = generation,
           IF requests[n].kind = "retry" THEN a \in {Waiting, Unreachable, "accepted"}
           ELSE /\ a # "accepted"
                /\ a = Unreachable => faults' > 0
                /\ a = NoRow => status' = NoRow,
           NEW i \in DOMAIN requests'
    PROVE  RequestInv(i)'
<1>1. DOMAIN requests' = DOMAIN requests
  BY QueueIs, LenProperties DEF Noted, QueueOK
<1>2. \A j \in DOMAIN requests :
         /\ requests'[j].kind = requests[j].kind
         /\ requests'[j].generation = requests[j].generation
         /\ requests'[j].answer = IF j = n THEN a ELSE requests[j].answer
  BY DEF Noted
<1>3. RequestInv(i) /\ i \in DOMAIN requests
  BY <1>1
<1> QED
  BY <1>1, <1>2, <1>3 DEF RequestInv, NothingUndone

LEMMA RemovedKeepsRequests ==
    ASSUME QueueOK, NEW n \in DOMAIN requests, Removed(n), NothingUndone,
           \A i \in DOMAIN requests : RequestInv(i),
           generation' = generation,
           NEW i \in DOMAIN requests'
    PROVE  RequestInv(i)'
<1>1. /\ DOMAIN requests = 1..Len(requests) /\ DOMAIN requests' = 1..(Len(requests) - 1)
      /\ Len(requests) \in Nat /\ n \in Nat
  BY QueueIs, LenProperties DEF Removed, QueueOK
<1> DEFINE was(j) == IF j < n THEN j ELSE j + 1
<1>2. \A j \in DOMAIN requests' : was(j) \in DOMAIN requests
                                  /\ requests'[j] = requests[was(j)]
  BY <1>1 DEF Removed
<1>3. RequestInv(was(i)) /\ i \in DOMAIN requests'
  BY <1>2
<1> HIDE DEF was
<1> QED
  BY <1>2, <1>3 DEF RequestInv, NothingUndone

(* An accepted retry begins a new generation.                              *)
LEMMA ReplacedKeepsRequests ==
    ASSUME QueueOK, NEW n \in DOMAIN requests, NEW q \in RequestsMade, Replaced(n, q),
           NothingUndone, \A i \in DOMAIN requests : RequestInv(i),
           generation \in Nat, generation' = generation + 1,
           q = [kind |-> "load", generation |-> generation', answer |-> Waiting],
           NEW i \in DOMAIN requests'
    PROVE  RequestInv(i)'
<1>1. /\ DOMAIN requests = 1..Len(requests) /\ DOMAIN requests' = 1..Len(requests)
      /\ Len(requests) \in Nat /\ n \in Nat
  BY QueueIs, LenProperties DEF Replaced, QueueOK
<1> DEFINE was(j) == IF j < n THEN j ELSE j + 1
<1>2. \A j \in 1..(Len(requests) - 1) : was(j) \in DOMAIN requests /\ was(j) # n
                                        /\ requests'[j] = requests[was(j)]
  BY <1>1 DEF Replaced
<1> HIDE DEF was
<1>3. requests'[Len(requests)] = q
  BY DEF Replaced
<1>4. CASE i \in 1..(Len(requests) - 1)
  <2>1. RequestInv(was(i)) /\ requests'[i] = requests[was(i)] /\ was(i) \in DOMAIN requests
    BY <1>2, <1>4
  <2>2. requests[was(i)].generation \in Nat
    BY <2>1, QueueIs, GenerationsAre
  <2> QED
    BY <2>1, <2>2 DEF RequestInv, NothingUndone
<1>5. CASE i = Len(requests)
  BY <1>3, <1>5 DEF RequestInv, Waiting, Unreachable, NoRow
<1> QED
  BY <1>1, <1>4, <1>5

(* The steps of the job, of the server and of the other clients leave the  *)
(* sources of the dashboard closed that are closed, and the choice between *)
(* the dashboard and another client as it is.                              *)
ClosedStaysClosed ==
    /\ \A g \in Generations : point[g] = "closed" => point'[g] = "closed"
    /\ \A k \in Followers : point[k] = "absent" <=> point'[k] = "absent"

LEMMA StreamLeavesHook ==
    ASSUME StreamInv, StreamNext
    PROVE  NothingUndone /\ ClosedStaysClosed
<1> USE GenerationsAre DEF StreamInv, StreamTypeOK, NothingUndone, ClosedStaysClosed
<1>1. CASE JobStep
  BY <1>1, Verdict
  DEF JobStep, Claim, Emit, Finish, Working, Delete, generatorVars, NoRow, TerminalJobStatuses
<1>2. CASE Requeued /\ UNCHANGED <<faults, generatorVars, wire, heard>>
  BY <1>2, Verdict DEF Requeued, generatorVars
<1>3. CASE \E k \in Connections : Generate(k) \/ Drop(k)
  <2>1. PICK k \in Connections : Generate(k) \/ Drop(k)
    BY <1>3
  <2>2. /\ point[k] \notin {"absent", "closed"} /\ point'[k] # "absent"
        /\ \A j \in Connections \ {k} : point'[j] = point[j]
    BY <2>1 DEF Generate, ReadEvents, ReadJob, SendEvents, Drop
  <2>3. status' = status /\ (faults' = faults \/ faults' = faults + 1)
    BY <2>1 DEF Generate, ReadEvents, ReadJob, SendEvents, Drop, jobVars
  <2>4. NothingUndone
    BY <2>3, StreamAssumption
  <2> QED
    BY <2>2, <2>4
<1>4. CASE \E k \in Followers : Follow(k)
  <2>1. PICK k \in Followers : Follow(k)
    BY <1>4
  <2>2. /\ point[k] = "absent" <=> point'[k] = "absent"
        /\ \A j \in Connections \ {k} : point'[j] = point[j]
    BY <2>1 DEF Follow, Reconnect, Open, Hear, Closed, generatorVars, FollowerInv
  <2>3. NothingUndone
    BY <2>1 DEF Follow, Reconnect, Hear, Closed, jobVars
  <2> QED
    BY <2>2, <2>3
<1> QED
  BY <1>1, <1>2, <1>3, <1>4 DEF StreamNext

LEMMA WatchedStays ==
    ASSUME ClosedStaysClosed
    PROVE  Watched' = Watched
BY DEF ClosedStaysClosed, Watched

(* Also the retry of somebody else, which the hook is not told of.         *)
LEMMA OthersKeepBase ==
    ASSUME BaseInv, (Others /\ UNCHANGED hookVars) \/ OthersRetry
    PROVE  BaseInv'
<1>1. StreamNext
  BY DEF Others, OthersRetry, StreamNext
<1>2. /\ UNCHANGED <<generation, polling, shown, connection, opened, requests>>
      /\ missed' \in {missed, TRUE}
  BY DEF OthersRetry, hookVars
<1>3. StreamInv'
  BY <1>1, StreamStep DEF BaseInv
<1>4. NothingUndone /\ ClosedStaysClosed
  BY <1>1, StreamLeavesHook DEF BaseInv
<1>5. DashboardTypeOK'
  BY <1>3, <1>2 DEF BaseInv, DashboardTypeOK, StreamInv
<1>6. OnlyTheCurrent'
  BY <1>4, <1>2, WatchedStays
  DEF BaseInv, HookInv, OnlyTheCurrent, ClosedStaysClosed, DashboardTypeOK
<1>7. \A i \in DOMAIN requests' : RequestInv(i)'
  BY <1>4, <1>2 DEF BaseInv, HookInv, RequestInv, NothingUndone
<1> QED
  BY <1>3, <1>5, <1>6, <1>7 DEF BaseInv, HookInv

(* The dashboard's own steps leave the other clients alone.                *)
LEMMA CloseKeepsStream ==
    ASSUME BaseInv, NEW g \in Generations, CloseSource(g)
    PROVE  /\ point' \in [Connections -> Points] /\ seen' \in [Connections -> 0..MaxEvents]
           /\ batch' \in [Connections -> Seq(Ids)] /\ over' \in [Connections -> BOOLEAN]
           /\ wire' \in [Connections -> Seq(Ids)]
           /\ point'[g] = "closed"
           /\ \A k \in Connections \ {g} :
                 UNCHANGED <<point[k], seen[k], batch[k], wire[k]>>
<1> USE GenerationsAre, EmptyWire DEF BaseInv, StreamInv, StreamTypeOK, CloseSource
<1>1. g \in Connections
  OBVIOUS
<1>2. /\ seen' \in [Connections -> 0..MaxEvents]
      /\ batch' \in [Connections -> Seq(Ids)] /\ over' \in [Connections -> BOOLEAN]
  BY <1>1, ForgetKeepsType
<1> QED
  BY <1>1, <1>2 DEF Points, Forget

LEMMA UnheardByFollowers ==
    ASSUME BaseInv, StreamTypeOK', \A k \in Followers : Unheard(k)
    PROVE  StreamInv' /\ \A k \in Followers : point'[k] = point[k]
BY OthersConnection DEF BaseInv, StreamInv, Unheard

LEMMA OnOpenKeepsBase ==
    ASSUME BaseInv, NEW g \in Generations, OnOpen(g)
    PROVE  BaseInv'
<1> USE DEF BaseInv, OnOpen, streamVars
<1>1. StreamInv'
  BY DEF StreamInv, StreamTypeOK, FollowerInv, Consecutive
<1>2. DashboardTypeOK'
  BY <1>1 DEF DashboardTypeOK, StreamInv
<1>3. OnlyTheCurrent'
  BY DEF HookInv, OnlyTheCurrent, Watched
<1>4. \A i \in DOMAIN requests' : RequestInv(i)'
  BY DEF HookInv, RequestInv
<1> QED
  BY <1>1, <1>2, <1>3, <1>4 DEF HookInv

(* Only the current generation asks, and nobody asks next to a follower.   *)
LEMMA AskKeepsBase ==
    ASSUME BaseInv, NEW kind \in Fetches \cup {"retry"}, Ask(kind, generation),
           ~Watched, StreamTypeOK', \A k \in Followers : Unheard(k),
           UNCHANGED <<point, status, faults, generation, polling, shown, connection, opened,
                       missed>>
    PROVE  BaseInv'
<1> DEFINE q == [kind |-> kind, generation |-> generation, answer |-> Waiting]
<1>1. QueueOK /\ generation \in Generations /\ q \in RequestsMade
  BY DEF BaseInv, DashboardTypeOK, QueueOK, RequestsMade, Answers
<1>2. Grown(q) /\ Len(requests') <= MaxUnderWay
  BY <1>1, AskGrows
<1>3. /\ q.generation = generation /\ q.answer = Waiting /\ q.kind = kind
  OBVIOUS
<1> HIDE DEF q
<1>4. \A i \in DOMAIN requests' : RequestInv(i)'
  BY <1>1, <1>2, <1>3, GrownKeepsRequests DEF BaseInv, HookInv, NothingUndone
<1>5. StreamInv'
  BY UnheardByFollowers
<1>6. DashboardTypeOK'
  BY <1>2, <1>5 DEF BaseInv, DashboardTypeOK, StreamInv, Grown, QueueOK
<1>7. OnlyTheCurrent'
  BY DEF BaseInv, HookInv, OnlyTheCurrent, Watched
<1> QED
  BY <1>4, <1>5, <1>6, <1>7 DEF BaseInv, HookInv

LEMMA OnMessageKeepsBase ==
    ASSUME BaseInv, NEW g \in Generations, OnMessage(g)
    PROVE  BaseInv'
<1>1. g = generation /\ ~Watched /\ g \in Connections /\ g \notin Followers
  BY GenerationsAre DEF BaseInv, HookInv, OnlyTheCurrent, OnMessage
<1>2. wire[g] \in Seq(Ids) /\ wire[g] # <<>>
  BY <1>1 DEF BaseInv, StreamInv, StreamTypeOK, OnMessage
<1>3. Tail(wire[g]) \in Seq(Ids)
  BY <1>2, HeadTailProperties
<1>4. StreamTypeOK'
  BY <1>1, <1>3
  DEF BaseInv, StreamInv, StreamTypeOK, OnMessage, jobVars, generatorVars
<1>5. \A k \in Followers : Unheard(k)
  BY <1>1, GenerationsAre
  DEF BaseInv, StreamInv, StreamTypeOK, OnMessage, Unheard, generatorVars
<1> QED
  BY <1>1, <1>4, <1>5, AskKeepsBase DEF OnMessage, Fetches, jobVars, generatorVars

LEMMA TickAndRetryKeepBase ==
    ASSUME BaseInv, Tick \/ Retry
    PROVE  BaseInv'
<1>1. StreamTypeOK' /\ \A k \in Followers : Unheard(k)
  BY DEF BaseInv, StreamInv, StreamTypeOK, Tick, Retry, streamVars, Unheard
<1>2. CASE Tick
  <2>1. polling = generation /\ ~Watched
    BY <1>2 DEF Tick, BaseInv, HookInv, OnlyTheCurrent
  <2> QED
    BY <1>1, <1>2, <2>1, AskKeepsBase DEF Tick, Fetches, streamVars
<1>3. CASE Retry
  <2>1. ~Watched
    BY <1>3, Verdict DEF Retry, BaseInv, HookInv, OnlyTheCurrent
  <2> QED
    BY <1>1, <1>3, <2>1, AskKeepsBase DEF Retry, streamVars
<1> QED
  BY <1>2, <1>3

LEMMA OnErrorKeepsBase ==
    ASSUME BaseInv, NEW g \in Generations, OnError(g)
    PROVE  BaseInv'
<1>1. g = generation /\ ~Watched /\ g \in Connections /\ g \notin Followers
  BY GenerationsAre DEF BaseInv, HookInv, OnlyTheCurrent, OnError
<1>2. /\ point' \in [Connections -> Points] /\ seen' \in [Connections -> 0..MaxEvents]
      /\ batch' \in [Connections -> Seq(Ids)] /\ over' \in [Connections -> BOOLEAN]
      /\ wire' \in [Connections -> Seq(Ids)]
      /\ point'[g] = "closed"
      /\ \A k \in Connections \ {g} :
            UNCHANGED <<point[k], seen[k], batch[k], wire[k]>>
  BY CloseKeepsStream DEF OnError
<1>3. StreamTypeOK'
  BY <1>2 DEF OnError, BaseInv, StreamInv, StreamTypeOK, jobVars
<1>4. StreamInv' /\ \A k \in Followers : point'[k] = point[k]
  BY <1>1, <1>2, <1>3, GenerationsAre, UnheardByFollowers DEF OnError, Unheard
<1>5. DashboardTypeOK'
  BY <1>1, <1>3 DEF OnError, BaseInv, DashboardTypeOK
<1>6. OnlyTheCurrent'
  BY <1>1, <1>2, <1>4, GenerationsAre
  DEF OnError, BaseInv, HookInv, OnlyTheCurrent, Watched
<1>7. \A i \in DOMAIN requests' : RequestInv(i)'
  BY DEF OnError, BaseInv, HookInv, RequestInv, jobVars
<1> QED
  BY <1>4, <1>5, <1>6, <1>7 DEF BaseInv, HookInv

LEMMA SomethingUnderWay ==
    ASSUME BaseInv, NEW i \in DOMAIN requests
    PROVE  QueueOK /\ ~Watched /\ generation \in Generations /\ generation \in Nat
<1>1. QueueOK /\ generation \in Generations
  BY DEF BaseInv, DashboardTypeOK, QueueOK
<1>2. requests # <<>>
  BY <1>1, QueueIs, EmptySeq
<1> QED
  BY <1>1, <1>2, GenerationsAre DEF BaseInv, HookInv, OnlyTheCurrent

(* An answer, or the loss of it, changes nothing of the streams.           *)
LEMMA NoteKeepsBase ==
    ASSUME BaseInv, NEW n \in DOMAIN requests, NEW a \in Answers,
           requests' = [requests EXCEPT ![n].answer = a], NothingUndone,
           status' \in JobStatuses \cup {NoRow}, requeues' \in 0..MaxRequeues,
           faults' \in 0..MaxFaults, log' = log,
           IF requests[n].kind = "retry" THEN a \in {Waiting, Unreachable, "accepted"}
           ELSE /\ a # "accepted"
                /\ a = Unreachable => faults' > 0
                /\ a = NoRow => status' = NoRow,
           UNCHANGED <<generatorVars, wire, heard,
                       generation, polling, shown, connection, opened>>,
           missed' \in BOOLEAN
    PROVE  BaseInv'
<1>1. QueueOK /\ ~Watched /\ generation \in Generations
  BY SomethingUnderWay
<1>2. Noted(n, a)
  BY <1>1, AnswerNotes
<1>3. \A i \in DOMAIN requests' : RequestInv(i)'
  BY <1>1, <1>2, NotedKeepsRequests DEF BaseInv, HookInv
<1>4. StreamTypeOK'
  BY DEF BaseInv, StreamInv, StreamTypeOK, generatorVars
<1>5. StreamInv'
  BY <1>4, UnheardByFollowers DEF generatorVars, Unheard
<1>6. DashboardTypeOK'
  BY <1>2, <1>4 DEF BaseInv, DashboardTypeOK, Noted, QueueOK
<1>7. OnlyTheCurrent'
  BY <1>1 DEF BaseInv, HookInv, OnlyTheCurrent, Watched, generatorVars
<1> QED
  BY <1>3, <1>5, <1>6, <1>7 DEF BaseInv, HookInv

LEMMA NoRowIsAnAnswer ==
    /\ Waiting \in Answers /\ Unreachable \in Answers /\ "accepted" \in Answers
    /\ JobStatuses \cup {NoRow} \subseteq Answers
    /\ {Waiting, Unreachable, "accepted"} \cap (JobStatuses \cup {NoRow}) = {}
    /\ NoRow \notin {Waiting, Unreachable, "accepted"}
    /\ Waiting \notin {Unreachable, "accepted"} /\ Unreachable # "accepted"
BY DEF Answers, Waiting, Unreachable, NoRow, JobStatuses, TerminalJobStatuses

LEMMA AnswersKeepBase ==
    ASSUME BaseInv, NEW i \in DOMAIN requests,
           AnswerFetch(i) \/ AnswerRetry(i) \/ LoseRequest(i)
    PROVE  BaseInv'
<1>1. /\ status \in JobStatuses \cup {NoRow} /\ requeues \in 0..MaxRequeues
      /\ faults \in 0..MaxFaults /\ MaxFaults \in Nat /\ MaxRequeues \in Nat
      /\ missed \in BOOLEAN
  BY StreamAssumption DEF BaseInv, StreamInv, StreamTypeOK, DashboardTypeOK
<1>2. CASE AnswerFetch(i)
  <2>1. requests[i].kind # "retry" /\ status \in Answers
    BY <1>1, <1>2, NoRowIsAnAnswer DEF AnswerFetch, Fetches
  <2>2. UNCHANGED <<status, log, requeues, faults, generatorVars, wire, heard>>
    BY <1>2 DEF AnswerFetch, streamVars, generatorVars
  <2> QED
    BY <1>1, <1>2, <2>1, <2>2, NoRowIsAnAnswer, NoteKeepsBase
    DEF AnswerFetch, NothingUndone
<1>3. CASE AnswerRetry(i)
  <2>1. CASE Requeued /\ requests' = [requests EXCEPT ![i].answer = "accepted"]
    <3>1. /\ NothingUndone /\ status' \in JobStatuses
          /\ requeues' \in 0..MaxRequeues /\ log' = log /\ faults' = faults
      BY <1>1, <1>3, <2>1, Verdict
      DEF Requeued, AnswerRetry, NothingUndone, JobStatuses
    <3> QED
      BY <1>1, <1>3, <2>1, <3>1, NoRowIsAnAnswer, NoteKeepsBase DEF AnswerRetry
  <2>2. CASE UNCHANGED jobVars /\ requests' = [requests EXCEPT ![i].answer = Unreachable]
    BY <1>1, <1>3, <2>2, NoRowIsAnAnswer, NoteKeepsBase
    DEF AnswerRetry, NothingUndone, jobVars
  <2> QED
    BY <1>3, <2>1, <2>2 DEF AnswerRetry
<1>4. CASE LoseRequest(i)
  <2>1. faults' > 0 /\ faults' \in 0..MaxFaults
    BY <1>1, <1>4 DEF LoseRequest
  <2>2. missed' \in BOOLEAN
    BY <1>4 DEF LoseRequest
  <2> QED
    BY <1>1, <1>4, <2>1, <2>2, NoRowIsAnAnswer, NoteKeepsBase
    DEF LoseRequest, NothingUndone, jobVars
<1> QED
  BY <1>2, <1>3, <1>4

LEMMA FetchArrivesKeepsBase ==
    ASSUME BaseInv, NEW i \in DOMAIN requests, FetchArrives(i)
    PROVE  BaseInv'
<1> DEFINE q == requests[i]
<1>1. /\ QueueOK /\ ~Watched /\ generation \in Generations
      /\ q.generation \in Generations
  BY SomethingUnderWay, QueueIs
<1>2. Removed(i) /\ UNCHANGED <<jobVars, faults, heard, generation, opened, missed>>
  BY <1>1, RemovalRemoves DEF FetchArrives
<1>3. \A j \in DOMAIN requests' : RequestInv(j)'
  BY <1>1, <1>2, RemovedKeepsRequests DEF BaseInv, HookInv, NothingUndone, jobVars
<1>4. /\ shown' \in JobStatuses \cup {NoRow} /\ polling' \in {0, polling}
      /\ connection' \in {connection, "stopped"}
      /\ CloseSource(q.generation) \/ UNCHANGED <<generatorVars, wire>>
  BY DEF FetchArrives, BaseInv, DashboardTypeOK
<1>5. /\ StreamTypeOK' /\ \A k \in Followers : Unheard(k)
      /\ \A k \in Connections : point'[k] \in {point[k], "closed"}
      /\ \A k \in Followers : point'[k] = point[k]
  <2>1. CASE CloseSource(q.generation)
    <3>1. PICK g \in Generations : g = q.generation
      BY <1>1
    <3>2. CloseSource(g)
      BY <2>1, <3>1
    <3>3. /\ point' \in [Connections -> Points] /\ seen' \in [Connections -> 0..MaxEvents]
          /\ batch' \in [Connections -> Seq(Ids)] /\ over' \in [Connections -> BOOLEAN]
          /\ wire' \in [Connections -> Seq(Ids)]
          /\ point'[g] = "closed"
          /\ \A k \in Connections \ {g} :
                UNCHANGED <<point[k], seen[k], batch[k], wire[k]>>
      BY <3>2, CloseKeepsStream
    <3> QED
      BY <1>2, <3>3, GenerationsAre DEF BaseInv, StreamInv, StreamTypeOK, jobVars, Unheard
  <2>2. CASE UNCHANGED <<generatorVars, wire>>
    BY <1>2, <2>2 DEF BaseInv, StreamInv, StreamTypeOK, jobVars, generatorVars, Unheard
  <2> QED
    BY <1>4, <2>1, <2>2
<1> HIDE DEF q
<1>6. StreamInv'
  BY <1>5, UnheardByFollowers
<1>7. DashboardTypeOK'
  <2>1. Len(requests') <= MaxUnderWay
    BY <1>1, <1>2, QueueIs, DashboardAssumption DEF BaseInv, DashboardTypeOK, Removed
  <2> QED
    BY <1>1, <1>2, <1>4, <1>5, <2>1 DEF BaseInv, DashboardTypeOK, Removed, QueueOK
<1>8. OnlyTheCurrent'
  BY <1>1, <1>2, <1>4, <1>5, GenerationsAre
  DEF BaseInv, HookInv, OnlyTheCurrent, Watched
<1> QED
  BY <1>3, <1>6, <1>7, <1>8 DEF BaseInv, HookInv

(* The next generation's source opens as the last one's closes.            *)
LEMMA NextGeneration ==
    ASSUME BaseInv, NEW i \in DOMAIN requests, RetryArrives(i),
           requests[i].answer = "accepted"
    PROVE  /\ generation + 1 \in Generations /\ generation' = generation + 1
           /\ StreamTypeOK' /\ \A k \in Followers : Unheard(k)
           /\ \A g \in Generations \ {generation + 1} : point'[g] = "closed"
           /\ Replaced(i, [kind |-> "load", generation |-> generation', answer |-> Waiting])
           /\ [kind |-> "load", generation |-> generation', answer |-> Waiting]
                 \in RequestsMade
<1>1. QueueOK /\ generation \in Generations /\ generation \in Nat
  BY SomethingUnderWay
<1>2. generation < MaxGenerations /\ generation + 1 \in Generations
  BY <1>1, GenerationsAre DEF RetryArrives, BaseInv, HookInv, RequestInv
<1>3. generation' = generation + 1
  BY DEF RetryArrives
<1>4. [kind |-> "load", generation |-> generation', answer |-> Waiting] \in RequestsMade
  BY <1>2, <1>3, NoRowIsAnAnswer DEF RequestsMade, Fetches
<1>5. Replaced(i, [kind |-> "load", generation |-> generation', answer |-> Waiting])
  BY <1>1, <1>3, <1>4, RetryReplaces DEF RetryArrives
<1>6. /\ point' = [point EXCEPT ![generation] = "closed", ![generation + 1] = "events"]
      /\ wire' = [wire EXCEPT ![generation] = <<>>, ![generation + 1] = <<>>]
      /\ Forget(generation) /\ UNCHANGED <<jobVars, faults, heard>>
  BY DEF RetryArrives
<1>7. /\ point' \in [Connections -> Points] /\ wire' \in [Connections -> Seq(Ids)]
      /\ \A g \in Generations \ {generation + 1} : point'[g] = "closed"
      /\ \A k \in Followers : UNCHANGED <<point[k], wire[k], heard[k]>>
  BY <1>1, <1>2, <1>6, GenerationsAre, EmptyWire
  DEF BaseInv, StreamInv, StreamTypeOK, Points, HookInv, OnlyTheCurrent
<1>8. /\ seen' \in [Connections -> 0..MaxEvents]
      /\ batch' \in [Connections -> Seq(Ids)] /\ over' \in [Connections -> BOOLEAN]
      /\ \A k \in Followers : UNCHANGED <<seen[k], batch[k]>>
  BY <1>1, <1>6, GenerationsAre, EmptyWire
  DEF BaseInv, StreamInv, StreamTypeOK, Forget
<1>9. StreamTypeOK'
  BY <1>6, <1>7, <1>8 DEF BaseInv, StreamInv, StreamTypeOK, jobVars
<1> QED
  BY <1>2, <1>3, <1>4, <1>5, <1>7, <1>8, <1>9 DEF Unheard

LEMMA RetryArrivesKeepsBase ==
    ASSUME BaseInv, NEW i \in DOMAIN requests, RetryArrives(i)
    PROVE  BaseInv'
<1>1. QueueOK /\ ~Watched /\ generation \in Generations /\ generation \in Nat
  BY SomethingUnderWay
<1>2. CASE requests[i].answer = "accepted"
  <2>1. /\ generation + 1 \in Generations /\ generation' = generation + 1
        /\ StreamTypeOK' /\ \A k \in Followers : Unheard(k)
        /\ \A g \in Generations \ {generation + 1} : point'[g] = "closed"
        /\ Replaced(i, [kind |-> "load", generation |-> generation', answer |-> Waiting])
        /\ [kind |-> "load", generation |-> generation', answer |-> Waiting]
              \in RequestsMade
    BY <1>2, NextGeneration
  <2>2. /\ polling' = 0 /\ connection' = "connecting" /\ opened' = FALSE
        /\ UNCHANGED <<jobVars, faults, heard, shown, missed>>
    BY <1>2 DEF RetryArrives
  <2>3. StreamInv' /\ \A k \in Followers : point'[k] = point[k]
    BY <2>1, UnheardByFollowers
  <2>4. PICK q \in RequestsMade :
            q = [kind |-> "load", generation |-> generation', answer |-> Waiting]
    BY <2>1
  <2>5. \A j \in DOMAIN requests' : RequestInv(j)'
    BY <1>1, <2>1, <2>2, <2>4, ReplacedKeepsRequests
    DEF BaseInv, HookInv, NothingUndone, jobVars
  <2>6. DashboardTypeOK'
    BY <2>1, <2>2, <2>3 DEF BaseInv, StreamInv, DashboardTypeOK, Replaced, QueueOK
  <2>7. OnlyTheCurrent'
    BY <1>1, <2>1, <2>2, <2>3 DEF OnlyTheCurrent, Watched
  <2> QED
    BY <2>3, <2>5, <2>6, <2>7 DEF BaseInv, HookInv
<1>3. CASE requests[i].answer # "accepted"
  <2>1. /\ requests' = RemoveAt(requests, i)
        /\ UNCHANGED <<streamVars, generation, polling, shown, connection, opened, missed>>
    BY <1>3 DEF RetryArrives, streamVars, jobVars, generatorVars
  <2>2. Removed(i)
    BY <1>1, <2>1, RemovalRemoves
  <2>3. \A j \in DOMAIN requests' : RequestInv(j)'
    BY <1>1, <2>1, <2>2, RemovedKeepsRequests
    DEF BaseInv, HookInv, NothingUndone, streamVars
  <2>4. StreamTypeOK' /\ \A k \in Followers : Unheard(k)
    BY <2>1 DEF BaseInv, StreamInv, StreamTypeOK, streamVars, Unheard
  <2>5. DashboardTypeOK'
    <3>1. Len(requests') <= MaxUnderWay
      BY <1>1, <2>2, QueueIs, DashboardAssumption DEF BaseInv, DashboardTypeOK, Removed
    <3> QED
      BY <2>1, <2>2, <2>4, <3>1 DEF BaseInv, DashboardTypeOK, Removed, QueueOK
  <2>6. OnlyTheCurrent'
    BY <1>1, <2>1 DEF BaseInv, HookInv, OnlyTheCurrent, Watched, streamVars
  <2> QED
    BY <2>3, <2>4, <2>5, <2>6, UnheardByFollowers DEF BaseInv, HookInv
<1> QED
  BY <1>2, <1>3

LEMMA BaseStep ==
    ASSUME BaseInv, DashboardNext
    PROVE  BaseInv'
BY OthersKeepBase, OnOpenKeepsBase, OnMessageKeepsBase, OnErrorKeepsBase,
   TickAndRetryKeepBase, AnswersKeepBase, FetchArrivesKeepsBase, RetryArrivesKeepsBase
DEF DashboardNext, Hook, Arrives

LEMMA BaseStarts == DashboardInit => BaseInv
<1> SUFFICES ASSUME DashboardInit PROVE BaseInv
  OBVIOUS
<1> DEFINE load == [kind |-> "load", generation |-> 1, answer |-> Waiting]
<1>1. /\ 1 \in Generations /\ 0 \in 0..MaxRequeues /\ 0 \in 0..MaxFaults
      /\ <<>> \in Seq(Ids) /\ 0 \in 0..MaxEvents
      /\ 1 <= MaxUnderWay
  BY GenerationsAre, EmptyWire, StreamAssumption, DashboardAssumption
<1>2. point \in [Connections -> {"absent", "closed", "events"}]
      /\ \A k \in Followers : point[k] \in {"absent", "closed"}
      /\ \A g \in Generations \ {1} : point[g] = "closed"
  BY GenerationsAre DEF DashboardInit
<1>3. StreamInv
  <2>1. StreamTypeOK
    BY <1>1, <1>2 DEF DashboardInit, StreamTypeOK, Points, JobStatuses
  <2>2. \A k \in Followers : FollowerInv(k)
    BY <1>2, GenerationsAre DEF DashboardInit, FollowerInv, Consecutive
  <2> QED
    BY <2>1, <2>2 DEF StreamInv
<1>4. load \in RequestsMade
  BY <1>1, NoRowIsAnAnswer DEF RequestsMade, Fetches
<1>5. requests \in {<<>>, <<load>>}
  BY DEF DashboardInit
<1>6. /\ requests \in Seq(RequestsMade) /\ Len(requests) <= MaxUnderWay
      /\ \A i \in DOMAIN requests : requests[i] = load
  <2> HIDE DEF load
  <2>1. CASE requests = <<>>
    BY <1>1, <2>1, DashboardAssumption
  <2>2. CASE requests = <<load>>
    BY <1>1, <1>4, <2>2, DashboardAssumption
  <2> QED
    BY <1>5, <2>1, <2>2
<1>7. DashboardTypeOK
  BY <1>1, <1>3, <1>6 DEF DashboardInit, StreamInv, DashboardTypeOK
<1>8. OnlyTheCurrent
  BY <1>2, GenerationsAre DEF DashboardInit, OnlyTheCurrent, Watched
<1>9. \A i \in DOMAIN requests : RequestInv(i)
  BY <1>6, NoRowIsAnAnswer DEF DashboardInit, RequestInv
<1> QED
  BY <1>3, <1>7, <1>8, <1>9 DEF BaseInv, HookInv

LEMMA BaseStutters == BaseInv /\ UNCHANGED dashboardVars => BaseInv'
<1> SUFFICES ASSUME BaseInv, UNCHANGED dashboardVars PROVE BaseInv'
  OBVIOUS
<1> USE DEF dashboardVars, hookVars
<1>1. StreamInv'
  BY DEF BaseInv, StreamInv, StreamTypeOK, FollowerInv, Consecutive
<1>2. DashboardTypeOK'
  BY <1>1 DEF BaseInv, DashboardTypeOK, StreamInv
<1>3. OnlyTheCurrent'
  BY DEF BaseInv, HookInv, OnlyTheCurrent, Watched
<1>4. \A i \in DOMAIN requests' : RequestInv(i)'
  BY DEF BaseInv, HookInv, RequestInv
<1> QED
  BY <1>1, <1>2, <1>3, <1>4 DEF BaseInv, HookInv

LEMMA BaseHolds == DashboardSpec => []BaseInv
BY BaseStarts, BaseStep, BaseStutters, PTL DEF DashboardSpec

(* A client that follows the stream next to the dashboard hears every      *)
(* event once and in order, on any network (job_events, Last-Event-ID).    *)
THEOREM FollowerHearsInOrder == DashboardSpec => []HeardInOrder
BY BaseHolds, InOrderByInv, PTL DEF BaseInv

-----------------------------------------------------------------------------
(* What the queue remembers, on a network that keeps the order.            *)

StandsFast ==
    status \in TerminalJobStatuses \cup {NoRow} => status' \in TerminalJobStatuses \cup {NoRow}

SettledInv == QueueInv /\ FinishedMeansFinished

LEMMA VerdictsAre ==
    /\ TerminalJobStatuses \subseteq JobStatuses
    /\ "queued" \in JobStatuses \ TerminalJobStatuses
    /\ "running" \in JobStatuses \ TerminalJobStatuses
    /\ NoRow \notin JobStatuses
BY DEF JobStatuses, TerminalJobStatuses, NoRow

LEMMA SameQueueEnded ==
    ASSUME NEW m, Ended(m), requests' = requests, StandsFast
    PROVE  Ended(m)'
BY DEF Ended, StandsFast

(* A step that leaves the queue alone.                                     *)
LEMMA SameQueueSettles ==
    ASSUME SettledInv, UNCHANGED <<requests, generation, shown>>, missed => missed',
           missed' \/ StandsFast, NothingUndone,
           connection' # "stopped" \/ UNCHANGED connection
    PROVE  SettledInv'
<1>1. AnsweredInTurn' /\ \A i \in DOMAIN requests' : OldInv(i)'
  BY DEF SettledInv, QueueInv, AnsweredInTurn, OldInv, Reloading
<1>2. VerdictInv'
  BY SameQueueEnded DEF SettledInv, QueueInv, VerdictInv
<1>3. FinishedMeansFinished'
  BY DEF SettledInv, FinishedMeansFinished, Reloading, NothingUndone
<1> QED
  BY <1>1, <1>2, <1>3 DEF SettledInv, QueueInv

LEMMA OthersSettle ==
    ASSUME BaseInv, SettledInv, (Others /\ UNCHANGED hookVars) \/ OthersRetry
    PROVE  SettledInv'
<1>1. NothingUndone
  BY StreamLeavesHook DEF BaseInv, Others, OthersRetry, StreamNext
<1>2. UNCHANGED <<requests, generation, shown, connection>> /\ (missed => missed')
  BY DEF OthersRetry, hookVars
<1>3. CASE OthersRetry
  BY <1>1, <1>2, <1>3, SameQueueSettles DEF OthersRetry
<1>4. CASE Others /\ UNCHANGED hookVars
  <2>1. StandsFast
    BY <1>4, VerdictsAre, StreamAssumption
    DEF Others, JobStep, Claim, Emit, Finish, Working, Delete, Generate, ReadEvents, ReadJob,
        SendEvents, Drop, Follow, Reconnect, Hear, Closed, jobVars, StandsFast
  <2> QED
    BY <1>1, <1>2, <2>1, SameQueueSettles
<1> QED
  BY <1>3, <1>4

LEMMA OnOpenAndErrorSettle ==
    ASSUME BaseInv, SettledInv, NEW g \in Generations, OnOpen(g) \/ OnError(g)
    PROVE  SettledInv'
<1>1. UNCHANGED <<requests, generation, shown, missed, status, faults>>
  BY DEF OnOpen, OnError, streamVars, jobVars
<1>2. connection' # "stopped" \/ UNCHANGED connection
  BY DEF OnOpen, OnError
<1>3. StandsFast /\ NothingUndone
  BY <1>1 DEF StandsFast, NothingUndone
<1> QED
  BY <1>1, <1>2, <1>3, SameQueueSettles

(* A request that is made is not answered yet.                             *)
LEMMA GrownEnded ==
    ASSUME QueueOK, NEW q \in RequestsMade, q.answer = Waiting, Grown(q), UNCHANGED status,
           NEW m \in Nat, Ended(m)
    PROVE  Ended(m)'
<1>1. /\ DOMAIN requests = 1..Len(requests) /\ DOMAIN requests' = 1..(Len(requests) + 1)
      /\ Len(requests) \in Nat
  BY QueueIs, LenProperties DEF Grown, QueueOK
<1>2. /\ \A j \in DOMAIN requests : j \in DOMAIN requests' /\ requests'[j] = requests[j]
      /\ \A j \in DOMAIN requests' : j \in DOMAIN requests \/ requests'[j].answer = Waiting
  BY <1>1 DEF Grown
<1>3. Waiting \notin JobStatuses /\ Waiting # "accepted"
  BY NoRowIsAnAnswer
<1> QED
  BY <1>2, <1>3 DEF Ended

LEMMA GrownSettles ==
    ASSUME BaseInv, SettledInv, QueueOK, NEW q \in RequestsMade, Grown(q),
           q.answer = Waiting, q.generation = generation,
           q.kind = "retry" => shown \in TerminalJobStatuses,
           UNCHANGED <<status, faults, generation, shown, connection, missed>>
    PROVE  SettledInv'
<1>1. /\ DOMAIN requests = 1..Len(requests) /\ DOMAIN requests' = 1..(Len(requests) + 1)
      /\ Len(requests) \in Nat
  BY QueueIs, LenProperties DEF Grown, QueueOK
<1>2. /\ \A j \in DOMAIN requests : j \in DOMAIN requests' /\ requests'[j] = requests[j]
      /\ requests'[Len(requests) + 1] = q
      /\ \A j \in DOMAIN requests' : j \in DOMAIN requests \/ j = Len(requests) + 1
  BY <1>1 DEF Grown
<1>3. Reloading => Reloading'
  BY <1>2 DEF Reloading
<1>4. AnsweredInTurn'
  <2>1. ASSUME NEW h \in DOMAIN requests', NEW i \in DOMAIN requests', h < i
        PROVE  /\ requests'[i].answer \notin {Waiting, Unreachable} =>
                     requests'[h].answer # Waiting
               /\ requests'[h].generation = generation =>
                     requests'[i].generation = generation
    <3>1. h \in DOMAIN requests
      BY <1>1, <2>1
    <3>2. CASE i \in DOMAIN requests
      BY <1>2, <2>1, <3>1, <3>2 DEF SettledInv, QueueInv, AnsweredInTurn
    <3>3. CASE i = Len(requests) + 1
      BY <1>2, <3>3
    <3> QED
      BY <1>2, <3>2, <3>3
  <2> QED
    BY <2>1 DEF AnsweredInTurn
<1>5. \A i \in DOMAIN requests' : OldInv(i)'
  BY <1>2, <1>3 DEF SettledInv, QueueInv, OldInv
<1>6. VerdictInv'
  <2>1. \A m \in Nat : Ended(m) => Ended(m)'
    BY GrownEnded
  <2>2. Waiting \notin TerminalJobStatuses /\ DOMAIN requests \subseteq Nat /\ 0 \in Nat
    BY <1>1, NoRowIsAnAnswer, VerdictsAre
  <2> QED
    BY <1>2, <2>1, <2>2 DEF SettledInv, QueueInv, VerdictInv
<1>7. FinishedMeansFinished'
  BY <1>3 DEF SettledInv, FinishedMeansFinished
<1> QED
  BY <1>4, <1>5, <1>6, <1>7 DEF SettledInv, QueueInv

LEMMA AsksSettle ==
    ASSUME BaseInv, SettledInv,
           (\E g \in Generations : OnMessage(g)) \/ Tick \/ Retry
    PROVE  SettledInv'
<1>1. QueueOK /\ generation \in Generations
  BY DEF BaseInv, DashboardTypeOK, QueueOK
<1>2. PICK kind \in Fetches \cup {"retry"} :
          /\ Ask(kind, generation)
          /\ kind = "retry" => shown \in TerminalJobStatuses
          /\ UNCHANGED <<status, faults, generation, shown, connection, missed>>
  <2>1. CASE \E g \in Generations : OnMessage(g)
    <3>1. PICK g \in Generations : OnMessage(g)
      BY <2>1
    <3>2. g = generation
      BY <3>1 DEF OnMessage, BaseInv, HookInv, OnlyTheCurrent
    <3> QED
      BY <3>1, <3>2 DEF OnMessage, Fetches, jobVars
  <2>2. CASE Tick
    <3>1. polling = generation
      BY <2>2 DEF Tick, BaseInv, HookInv, OnlyTheCurrent
    <3> QED
      BY <2>2, <3>1 DEF Tick, Fetches, streamVars
  <2>3. CASE Retry
    BY <2>3 DEF Retry, Fetches, streamVars
  <2> QED
    BY <2>1, <2>2, <2>3
<1> DEFINE q == [kind |-> kind, generation |-> generation, answer |-> Waiting]
<1>3. q \in RequestsMade /\ q.kind = kind /\ q.generation = generation /\ q.answer = Waiting
  BY <1>1, NoRowIsAnAnswer DEF RequestsMade
<1>4. Grown(q)
  BY <1>1, <1>2, AskGrows
<1> HIDE DEF q
<1> QED
  BY <1>1, <1>2, <1>3, <1>4, GrownSettles

(* A request is answered after all that were made before it, and before    *)
(* all that were made after it.                                            *)
LEMMA NobodyAfter ==
    ASSUME QueueOK, AnsweredInTurn, NEW n \in DOMAIN requests,
           requests[n].answer = Waiting, NEW j \in DOMAIN requests, j > n
    PROVE  requests[j].answer \in {Waiting, Unreachable}
<1>1. n < j
  BY QueueIs
<1> QED
  BY <1>1 DEF AnsweredInTurn

LEMMA NotedIs ==
    ASSUME QueueOK, NEW n \in DOMAIN requests, NEW a, Noted(n, a)
    PROVE  /\ DOMAIN requests' = DOMAIN requests
           /\ \A j \in DOMAIN requests :
                 /\ requests'[j].kind = requests[j].kind
                 /\ requests'[j].generation = requests[j].generation
                 /\ requests'[j].answer = IF j = n THEN a ELSE requests[j].answer
<1>1. DOMAIN requests' = DOMAIN requests
  BY QueueIs, LenProperties DEF Noted, QueueOK
<1> QED
  BY <1>1 DEF Noted

LEMMA FetchAnsweredEnded ==
    ASSUME QueueOK, AnsweredInTurn, NEW n \in DOMAIN requests, NEW a, Noted(n, a),
           requests[n].answer = Waiting, a = status, a # "accepted", UNCHANGED status,
           status \in JobStatuses \cup {NoRow}, NEW m \in Nat, Ended(m)
    PROVE  Ended(m)'
<1>1. /\ DOMAIN requests' = DOMAIN requests /\ DOMAIN requests \subseteq Nat
      /\ \A j \in DOMAIN requests :
            requests'[j].answer = IF j = n THEN a ELSE requests[j].answer
  BY NotedIs, QueueIs
<1>2. ASSUME NEW i \in DOMAIN requests', i > m,
             requests'[i].answer \in JobStatuses \ TerminalJobStatuses
      PROVE  \E b \in DOMAIN requests' :
                 m < b /\ b < i /\ requests'[b].answer = "accepted"
  <2>1. CASE i # n
    <3>1. PICK b \in DOMAIN requests :
              m < b /\ b < i /\ requests[b].answer = "accepted"
      BY <1>1, <1>2, <2>1 DEF Ended
    <3> QED
      BY <1>1, <3>1, NoRowIsAnAnswer
  <2>2. CASE i = n
    <3>1. status \notin TerminalJobStatuses \cup {NoRow}
      BY <1>1, <1>2, <2>2, VerdictsAre
    <3>2. PICK b \in DOMAIN requests : m < b /\ requests[b].answer = "accepted"
      BY <3>1 DEF Ended
    <3>3. b # n /\ ~(b > n)
      BY <3>2, NobodyAfter, NoRowIsAnAnswer
    <3>4. b < i
      BY <1>1, <2>2, <3>3
    <3> QED
      BY <1>1, <3>2, <3>3, <3>4
  <2> QED
    BY <2>1, <2>2
<1>3. (\A b \in DOMAIN requests' : m < b => requests'[b].answer # "accepted") =>
          status' \in TerminalJobStatuses \cup {NoRow}
  BY <1>1, NoRowIsAnAnswer DEF Ended
<1> QED
  BY <1>2, <1>3 DEF Ended

LEMMA RetryAnsweredEnded ==
    ASSUME QueueOK, NEW n \in DOMAIN requests, Noted(n, "accepted"),
           requests[n].answer = Waiting, NEW m \in Nat, m < n, Ended(m)
    PROVE  Ended(m)'
<1>1. /\ DOMAIN requests' = DOMAIN requests
      /\ \A j \in DOMAIN requests :
            requests'[j].answer = IF j = n THEN "accepted" ELSE requests[j].answer
  BY NotedIs
<1>2. Waiting # "accepted" /\ "accepted" \notin JobStatuses
  BY NoRowIsAnAnswer
<1> QED
  BY <1>1, <1>2 DEF Ended

LEMMA LostEnded ==
    ASSUME QueueOK, NEW n \in DOMAIN requests, Noted(n, Unreachable),
           requests[n].answer # "accepted", UNCHANGED status, NEW m \in Nat, Ended(m)
    PROVE  Ended(m)'
<1>1. /\ DOMAIN requests' = DOMAIN requests
      /\ \A j \in DOMAIN requests :
            requests'[j].answer = IF j = n THEN Unreachable ELSE requests[j].answer
  BY NotedIs
<1>2. Unreachable # "accepted" /\ Unreachable \notin JobStatuses
  BY NoRowIsAnAnswer
<1> QED
  BY <1>1, <1>2 DEF Ended

(* An answer leaves the order of the queue and what is shown as they are.  *)
LEMMA NotedOrder ==
    ASSUME SettledInv, QueueOK, NEW n \in DOMAIN requests, NEW a, Noted(n, a),
           requests[n].answer = Waiting \/ a = Unreachable, a # Waiting,
           \A h \in 1..(n - 1) : requests[h].answer # Waiting \/ a = Unreachable,
           UNCHANGED <<generation, shown, connection>>, missed => missed', NothingUndone
    PROVE  /\ AnsweredInTurn' /\ (\A i \in DOMAIN requests' : OldInv(i)')
           /\ FinishedMeansFinished'
<1>1. /\ DOMAIN requests' = DOMAIN requests /\ DOMAIN requests = 1..Len(requests)
      /\ Len(requests) \in Nat
      /\ \A j \in DOMAIN requests :
            /\ requests'[j].kind = requests[j].kind
            /\ requests'[j].generation = requests[j].generation
            /\ requests'[j].answer = IF j = n THEN a ELSE requests[j].answer
  BY NotedIs, QueueIs
<1>2. Reloading' = Reloading
  BY <1>1 DEF Reloading
<1>3. AnsweredInTurn'
  <2>1. ASSUME NEW h \in DOMAIN requests', NEW i \in DOMAIN requests', h < i
        PROVE  /\ requests'[i].answer \notin {Waiting, Unreachable} =>
                     requests'[h].answer # Waiting
               /\ requests'[h].generation = generation' =>
                     requests'[i].generation = generation'
    <3>1. /\ requests[i].answer \notin {Waiting, Unreachable} => requests[h].answer # Waiting
          /\ requests[h].generation = generation => requests[i].generation = generation
      BY <1>1, <2>1 DEF SettledInv, QueueInv, AnsweredInTurn
    <3>2. CASE i = n
      <4>1. h \in 1..(n - 1)
        BY <1>1, <2>1, <3>2
      <4> QED
        BY <1>1, <2>1, <3>1, <3>2, <4>1
    <3>3. CASE i # n
      BY <1>1, <3>1, <3>3
    <3> QED
      BY <3>2, <3>3
  <2> QED
    BY <2>1 DEF AnsweredInTurn
<1>4. \A i \in DOMAIN requests' : OldInv(i)'
  BY <1>1, <1>2 DEF SettledInv, QueueInv, OldInv
<1>5. FinishedMeansFinished'
  BY <1>2 DEF SettledInv, FinishedMeansFinished, NothingUndone
<1> QED
  BY <1>3, <1>4, <1>5

LEMMA AnswersSettle ==
    ASSUME InOrder, BaseInv, SettledInv, NEW n \in DOMAIN requests,
           AnswerFetch(n) \/ AnswerRetry(n) \/ LoseRequest(n)
    PROVE  SettledInv'
<1>1. /\ QueueOK /\ status \in JobStatuses \cup {NoRow} /\ RequestInv(n)
      /\ DOMAIN requests \subseteq Nat /\ 0 \in Nat /\ 0 < n
      /\ faults \in Nat
  BY QueueIs, StreamAssumption
  DEF BaseInv, DashboardTypeOK, StreamTypeOK, QueueOK, HookInv
<1>2. AnsweredInTurn /\ VerdictInv
  BY DEF SettledInv, QueueInv
<1>3. UNCHANGED <<generation, shown, connection>> /\ (missed => missed')
  <2>1. UNCHANGED <<generation, shown, connection>>
    BY DEF AnswerFetch, AnswerRetry, LoseRequest
  <2>2. missed => missed'
    BY Zenon DEF AnswerFetch, AnswerRetry, LoseRequest
  <2> QED
    BY <2>1, <2>2
<1>4. CASE AnswerFetch(n)
  <2>1. /\ requests[n].answer = Waiting /\ UNCHANGED status /\ UNCHANGED faults
        /\ \A h \in 1..(n - 1) : requests[h].answer # Waiting
        /\ requests' = [requests EXCEPT ![n].answer = status]
    BY <1>4 DEF AnswerFetch, MayAnswer, streamVars
  <2>2. Noted(n, status) /\ status \notin {Waiting, Unreachable, "accepted"}
    BY <1>1, <2>1, AnswerNotes, NoRowIsAnAnswer
  <2>3. /\ AnsweredInTurn' /\ (\A i \in DOMAIN requests' : OldInv(i)')
        /\ FinishedMeansFinished'
    BY <1>1, <1>3, <2>1, <2>2, NotedOrder DEF NothingUndone
  <2>4. \A m \in Nat : Ended(m) => Ended(m)'
    BY <1>1, <1>2, <2>1, <2>2, FetchAnsweredEnded
  <2>5. /\ DOMAIN requests' = DOMAIN requests
        /\ \A j \in DOMAIN requests :
              requests'[j].answer = IF j = n THEN status ELSE requests[j].answer
    BY <1>1, <2>2, NotedIs
  <2>6. status \in TerminalJobStatuses => Ended(n)
    <3>1. \A j \in DOMAIN requests :
             j > n => requests[j].answer \notin JobStatuses \cup {"accepted"}
      BY <1>1, <1>2, <2>1, NobodyAfter, NoRowIsAnAnswer
    <3> QED
      BY <3>1 DEF Ended
  <2>7. VerdictInv'
    BY <1>1, <1>2, <1>3, <2>4, <2>5, <2>6 DEF VerdictInv
  <2> QED
    BY <2>3, <2>7 DEF SettledInv, QueueInv
<1>5. CASE AnswerRetry(n) /\ Requeued /\ requests' = [requests EXCEPT ![n].answer = "accepted"]
  <2>1. /\ requests[n].answer = Waiting /\ UNCHANGED faults
        /\ \A h \in 1..(n - 1) : requests[h].answer # Waiting
        /\ status # NoRow
    BY <1>5 DEF AnswerRetry, MayAnswer, Requeued
  <2>2. Noted(n, "accepted")
    BY <1>1, <1>5, AnswerNotes, NoRowIsAnAnswer
  <2>3. /\ AnsweredInTurn' /\ (\A i \in DOMAIN requests' : OldInv(i)')
        /\ FinishedMeansFinished'
    BY <1>1, <1>3, <2>1, <2>2, NotedOrder, NoRowIsAnAnswer DEF NothingUndone
  <2>4. \A m \in Nat : m < n /\ Ended(m) => Ended(m)'
    BY <1>1, <2>1, <2>2, RetryAnsweredEnded
  <2>5. /\ DOMAIN requests' = DOMAIN requests
        /\ \A j \in DOMAIN requests :
              requests'[j].answer = IF j = n THEN "accepted" ELSE requests[j].answer
    BY <1>1, <2>2, NotedIs
  <2>6. \A i \in DOMAIN requests' : requests'[i].answer \in TerminalJobStatuses => i < n
    <3>1. ASSUME NEW i \in DOMAIN requests, i > n
          PROVE  requests[i].answer \notin TerminalJobStatuses
      BY <1>1, <1>2, <2>1, <3>1, NobodyAfter, NoRowIsAnAnswer, VerdictsAre
    <3> QED
      BY <1>1, <2>5, <3>1, NoRowIsAnAnswer, VerdictsAre
  <2>7. VerdictInv'
    BY <1>1, <1>2, <1>3, <2>4, <2>5, <2>6, NoRowIsAnAnswer, VerdictsAre DEF VerdictInv
  <2> QED
    BY <2>3, <2>7 DEF SettledInv, QueueInv
<1>6. CASE /\ requests' = [requests EXCEPT ![n].answer = Unreachable]
           /\ UNCHANGED status /\ faults' \in {faults, faults + 1}
           /\ requests[n].answer # "accepted" \/ missed'
  <2>1. Noted(n, Unreachable) /\ Unreachable # Waiting
    BY <1>1, <1>6, AnswerNotes, NoRowIsAnAnswer
  <2>2. NothingUndone
    BY <1>1, <1>6 DEF NothingUndone
  <2>3. /\ AnsweredInTurn' /\ (\A i \in DOMAIN requests' : OldInv(i)')
        /\ FinishedMeansFinished'
    BY <1>1, <1>3, <2>1, <2>2, NotedOrder
  <2>4. \A m \in Nat : Ended(m) => Ended(m)' \/ missed'
    BY <1>1, <1>6, <2>1, LostEnded
  <2>5. /\ DOMAIN requests' = DOMAIN requests
        /\ \A j \in DOMAIN requests :
              requests'[j].answer = IF j = n THEN Unreachable ELSE requests[j].answer
    BY <1>1, <2>1, NotedIs
  <2>6. VerdictInv'
    BY <1>1, <1>2, <1>3, <2>4, <2>5, NoRowIsAnAnswer, VerdictsAre DEF VerdictInv
  <2> QED
    BY <2>3, <2>6 DEF SettledInv, QueueInv
<1>7. LoseRequest(n) => requests[n].answer # "accepted" \/ missed'
  BY DEF LoseRequest
<1>8. AnswerRetry(n) => requests[n].answer # "accepted"
  BY NoRowIsAnAnswer DEF AnswerRetry, MayAnswer
<1> QED
  BY <1>4, <1>5, <1>6, <1>7, <1>8 DEF AnswerRetry, LoseRequest, jobVars

(* What arrives is the first of the queue; the others move up.             *)
MovedUp ==
    /\ Len(requests) > 0
    /\ \A j \in 1..(Len(requests) - 1) : requests'[j] = requests[j + 1]

LEMMA RemovedMovesUp ==
    ASSUME QueueOK, 1 \in DOMAIN requests, Removed(1)
    PROVE  MovedUp /\ DOMAIN requests' = 1..(Len(requests) - 1)
<1>1. /\ DOMAIN requests = 1..Len(requests) /\ DOMAIN requests' = 1..(Len(requests) - 1)
      /\ Len(requests) \in Nat
  BY QueueIs, LenProperties DEF Removed, QueueOK
<1> QED
  BY <1>1 DEF Removed, MovedUp

LEMMA ReplacedMovesUp ==
    ASSUME QueueOK, 1 \in DOMAIN requests, NEW q, Replaced(1, q)
    PROVE  /\ MovedUp /\ DOMAIN requests' = 1..Len(requests)
           /\ requests'[Len(requests)] = q
<1>1. /\ DOMAIN requests = 1..Len(requests) /\ DOMAIN requests' = 1..Len(requests)
      /\ Len(requests) \in Nat
  BY QueueIs, LenProperties DEF Replaced, QueueOK
<1> QED
  BY <1>1 DEF Replaced, MovedUp

(* A verdict known to a request is known to what is left of the queue; so  *)
(* is one known from the first request on, if that is no accepted retry.   *)
LEMMA HeadEnded ==
    ASSUME QueueOK, Ended(0), 1 \in DOMAIN requests, requests[1].answer # "accepted"
    PROVE  Ended(1) /\ requests[1].answer \notin JobStatuses \ TerminalJobStatuses
<1>1. DOMAIN requests = 1..Len(requests) /\ Len(requests) \in Nat
  BY QueueIs
<1>2. requests[1].answer \notin JobStatuses \ TerminalJobStatuses
  <2>1. ~ \E a \in DOMAIN requests : 0 < a /\ a < 1
    BY <1>1
  <2> QED
    BY <2>1 DEF Ended
<1>3. ASSUME NEW i \in DOMAIN requests, i > 1,
             requests[i].answer \in JobStatuses \ TerminalJobStatuses
      PROVE  \E a \in DOMAIN requests : 1 < a /\ a < i /\ requests[a].answer = "accepted"
  <2>1. PICK a \in DOMAIN requests : 0 < a /\ a < i /\ requests[a].answer = "accepted"
    BY <1>1, <1>3 DEF Ended
  <2>2. 1 < a
    BY <1>1, <2>1
  <2> QED
    BY <2>1, <2>2
<1>4. ASSUME \A a \in DOMAIN requests : 1 < a => requests[a].answer # "accepted"
      PROVE  status \in TerminalJobStatuses \cup {NoRow}
  <2>1. \A a \in DOMAIN requests : requests[a].answer # "accepted"
    BY <1>1, <1>4
  <2> QED
    BY <2>1 DEF Ended
<1> QED
  BY <1>2, <1>3, <1>4 DEF Ended

LEMMA RemovedEnded ==
    ASSUME QueueOK, MovedUp, DOMAIN requests' = 1..(Len(requests) - 1), UNCHANGED status,
           NEW m \in Nat, Ended(m + 1)
    PROVE  Ended(m)'
<1>1. DOMAIN requests = 1..Len(requests) /\ Len(requests) \in Nat
  BY QueueIs
<1>2. \A j \in DOMAIN requests' : j + 1 \in DOMAIN requests /\ requests'[j] = requests[j + 1]
  BY <1>1 DEF MovedUp
<1>3. \A j \in DOMAIN requests : j > m + 1 => j - 1 \in DOMAIN requests' /\ j - 1 > m
                                              /\ requests[j] = requests'[j - 1]
  BY <1>1 DEF MovedUp
<1>4. ASSUME NEW i \in DOMAIN requests', i > m,
             requests'[i].answer \in JobStatuses \ TerminalJobStatuses
      PROVE  \E a \in DOMAIN requests' : m < a /\ a < i /\ requests'[a].answer = "accepted"
  <2>1. i + 1 \in DOMAIN requests /\ i + 1 > m + 1 /\ requests'[i] = requests[i + 1]
    BY <1>2, <1>4
  <2>2. PICK a \in DOMAIN requests :
            m + 1 < a /\ a < i + 1 /\ requests[a].answer = "accepted"
    BY <1>4, <2>1 DEF Ended
  <2>3. a - 1 \in DOMAIN requests' /\ m < a - 1 /\ a - 1 < i
        /\ requests'[a - 1].answer = "accepted"
    BY <1>1, <1>3, <2>2
  <2> QED
    BY <2>3
<1>5. ASSUME \A a \in DOMAIN requests' : m < a => requests'[a].answer # "accepted"
      PROVE  status' \in TerminalJobStatuses \cup {NoRow}
  <2>1. \A a \in DOMAIN requests : m + 1 < a => requests[a].answer # "accepted"
    BY <1>1, <1>3, <1>5
  <2> QED
    BY <2>1 DEF Ended
<1> QED
  BY <1>4, <1>5 DEF Ended

LEMMA ReplacedEnded ==
    ASSUME QueueOK, MovedUp, DOMAIN requests' = 1..Len(requests),
           requests'[Len(requests)].answer = Waiting, UNCHANGED status,
           NEW m \in Nat, Ended(m + 1)
    PROVE  Ended(m)'
<1>1. DOMAIN requests = 1..Len(requests) /\ Len(requests) \in Nat
  BY QueueIs
<1>2. Waiting \notin JobStatuses /\ Waiting # "accepted"
  BY NoRowIsAnAnswer
<1>3. \A j \in DOMAIN requests :
         j > m + 1 => j - 1 \in DOMAIN requests' /\ j - 1 > m /\ requests[j] = requests'[j - 1]
  BY <1>1 DEF MovedUp
<1>4. ASSUME NEW i \in DOMAIN requests', i > m,
             requests'[i].answer \in JobStatuses \ TerminalJobStatuses
      PROVE  \E a \in DOMAIN requests' : m < a /\ a < i /\ requests'[a].answer = "accepted"
  <2>1. i \in 1..(Len(requests) - 1)
    BY <1>1, <1>2, <1>4
  <2>2. i + 1 \in DOMAIN requests /\ i + 1 > m + 1 /\ requests'[i] = requests[i + 1]
    BY <1>1, <1>4, <2>1 DEF MovedUp
  <2>3. PICK a \in DOMAIN requests :
            m + 1 < a /\ a < i + 1 /\ requests[a].answer = "accepted"
    BY <1>4, <2>2 DEF Ended
  <2>4. a - 1 \in DOMAIN requests' /\ m < a - 1 /\ a - 1 < i
        /\ requests'[a - 1].answer = "accepted"
    BY <1>1, <1>3, <2>3
  <2> QED
    BY <2>4
<1>5. ASSUME \A a \in DOMAIN requests' : m < a => requests'[a].answer # "accepted"
      PROVE  status' \in TerminalJobStatuses \cup {NoRow}
  <2>1. \A a \in DOMAIN requests : m + 1 < a => requests[a].answer # "accepted"
    BY <1>1, <1>3, <1>5
  <2> QED
    BY <2>1 DEF Ended
<1> QED
  BY <1>4, <1>5 DEF Ended

(* The first request arrives and was no accepted retry.                    *)
LEMMA ArrivalKeepsOrder ==
    ASSUME BaseInv, SettledInv, 1 \in DOMAIN requests, Removed(1),
           UNCHANGED <<generation, missed>>,
           requests[1].generation # generation => shown' = shown,
           ~missed /\ shown \in TerminalJobStatuses /\ generation = 1 =>
               shown' \in TerminalJobStatuses
    PROVE  /\ AnsweredInTurn' /\ \A i \in DOMAIN requests' : OldInv(i)'
           /\ Reloading => Reloading' \/ (requests[1].kind = "load" /\ requests[1].generation = generation)
<1>1. /\ QueueOK /\ DOMAIN requests = 1..Len(requests) /\ Len(requests) \in Nat
      /\ MovedUp /\ DOMAIN requests' = 1..(Len(requests) - 1)
  BY SomethingUnderWay, QueueIs, RemovedMovesUp
<1>2. \A j \in DOMAIN requests' : j + 1 \in DOMAIN requests /\ requests'[j] = requests[j + 1]
  BY <1>1 DEF MovedUp
<1>3. AnsweredInTurn'
  <2>1. ASSUME NEW h \in DOMAIN requests', NEW i \in DOMAIN requests', h < i
        PROVE  /\ requests'[i].answer \notin {Waiting, Unreachable} =>
                     requests'[h].answer # Waiting
               /\ requests'[h].generation = generation' =>
                     requests'[i].generation = generation'
    <3>1. h + 1 < i + 1
      BY <1>1, <2>1
    <3> QED
      BY <1>2, <2>1, <3>1 DEF SettledInv, QueueInv, AnsweredInTurn
  <2> QED
    BY <2>1 DEF AnsweredInTurn
<1>4. Reloading => Reloading' \/ (requests[1].kind = "load" /\ requests[1].generation = generation)
  <2>1. ASSUME NEW i \in DOMAIN requests, requests[i].kind = "load",
               requests[i].generation = generation, i # 1
        PROVE  Reloading'
    <3>1. i - 1 \in DOMAIN requests' /\ requests'[i - 1] = requests[i]
      BY <1>1, <2>1 DEF MovedUp
    <3> QED
      BY <2>1, <3>1 DEF Reloading
  <2> QED
    BY <2>1 DEF Reloading
<1>5. ASSUME NEW i \in DOMAIN requests' PROVE OldInv(i)'
  <2>1. /\ i + 1 \in DOMAIN requests /\ requests'[i] = requests[i + 1] /\ 1 < i + 1
        /\ OldInv(i + 1)
    BY <1>1, <1>2 DEF SettledInv, QueueInv
  <2>2. CASE requests[i + 1].generation # generation
    <3>1. requests[1].generation # generation
      BY <2>1, <2>2 DEF SettledInv, QueueInv, AnsweredInTurn
    <3> QED
      BY <1>4, <2>1, <2>2, <3>1 DEF OldInv
  <2>3. CASE requests[i + 1].generation = generation
    BY <2>1, <2>3 DEF OldInv
  <2> QED
    BY <2>2, <2>3
<1> QED
  BY <1>3, <1>4, <1>5

LEMMA ArrivalKeepsVerdict ==
    ASSUME BaseInv, SettledInv, 1 \in DOMAIN requests, Removed(1),
           UNCHANGED <<generation, status, missed>>,
           requests[1].answer # "accepted",
           connection' = "stopped" =>
               connection = "stopped" \/ requests[1].answer \in TerminalJobStatuses,
           shown' \in TerminalJobStatuses =>
               shown \in TerminalJobStatuses \/ requests[1].answer \in TerminalJobStatuses
    PROVE  VerdictInv'
<1>1. /\ QueueOK /\ DOMAIN requests = 1..Len(requests) /\ Len(requests) \in Nat
      /\ MovedUp /\ DOMAIN requests' = 1..(Len(requests) - 1)
  BY SomethingUnderWay, QueueIs, RemovedMovesUp
<1>2. \A m \in Nat : Ended(m + 1) => Ended(m)'
  BY <1>1, RemovedEnded
<1>3. Ended(1) => Ended(0)'
  BY <1>2
<1>4. Ended(0) => Ended(1)
  BY <1>1, HeadEnded
<1>5. ~missed /\ requests[1].answer \in TerminalJobStatuses => Ended(1)
  BY DEF SettledInv, QueueInv, VerdictInv
<1>6. ASSUME ~missed, NEW i \in DOMAIN requests', requests'[i].answer \in TerminalJobStatuses
      PROVE  Ended(i)'
  <2>1. i \in Nat /\ i + 1 \in DOMAIN requests /\ requests'[i] = requests[i + 1]
    BY <1>1 DEF MovedUp
  <2> QED
    BY <1>2, <1>6, <2>1 DEF SettledInv, QueueInv, VerdictInv
<1> QED
  BY <1>3, <1>4, <1>5, <1>6 DEF SettledInv, QueueInv, VerdictInv

LEMMA FetchArrivesSettles ==
    ASSUME InOrder, BaseInv, SettledInv, NEW i \in DOMAIN requests, FetchArrives(i)
    PROVE  SettledInv'
<1>1. /\ i = 1 /\ 1 \in DOMAIN requests /\ QueueOK /\ generation \in Nat
      /\ requests[1].answer # Waiting /\ requests[1].kind # "retry"
      /\ requests[1].answer \in Answers
  BY SomethingUnderWay, QueueIs DEF FetchArrives, MayArrive, Fetches
<1>2. Removed(1)
  BY <1>1, RemovalRemoves DEF FetchArrives
<1>3. /\ UNCHANGED <<generation, status, faults, missed>>
      /\ shown' = IF requests[1].generation = generation /\ requests[1].answer \in JobStatuses
                  THEN requests[1].answer ELSE shown
      /\ connection' = "stopped" =>
             connection = "stopped" \/ requests[1].answer \in TerminalJobStatuses
  BY <1>1 DEF FetchArrives, jobVars
<1>4. /\ requests[1].answer # "accepted"
      /\ requests[1].answer = Unreachable => faults > 0
      /\ requests[1].answer = NoRow => status = NoRow
      /\ requests[1].generation <= generation /\ requests[1].generation \in Generations
  BY <1>1, QueueIs DEF BaseInv, HookInv, RequestInv
<1>5. Ended(0) => requests[1].answer \notin JobStatuses \ TerminalJobStatuses
  BY <1>1, <1>4, HeadEnded
<1>6. ~missed /\ shown \in TerminalJobStatuses
      /\ (generation = 1 \/ connection = "stopped") => shown' \in TerminalJobStatuses
  BY <1>3, <1>5 DEF SettledInv, QueueInv, VerdictInv
<1>7. /\ AnsweredInTurn' /\ \A j \in DOMAIN requests' : OldInv(j)'
      /\ Reloading => Reloading' \/ (requests[1].kind = "load" /\ requests[1].generation = generation)
  BY <1>1, <1>2, <1>3, <1>6, ArrivalKeepsOrder
<1>8. VerdictInv'
  BY <1>1, <1>2, <1>3, <1>4, ArrivalKeepsVerdict
<1>9. FinishedMeansFinished'
  <2>1. SUFFICES ASSUME ~missed, connection' = "stopped", shown' \notin TerminalJobStatuses
                 PROVE  generation > 2 /\ (Reloading' \/ faults > 0 \/ status = NoRow)
    BY <1>3 DEF FinishedMeansFinished
  <2>2. CASE connection = "stopped"
    <3>1. /\ shown \notin TerminalJobStatuses /\ Ended(0)
      BY <1>6, <2>1, <2>2 DEF SettledInv, QueueInv, VerdictInv
    <3>2. generation > 2 /\ (Reloading \/ faults > 0 \/ status = NoRow)
      BY <2>1, <2>2, <3>1 DEF SettledInv, FinishedMeansFinished
    <3>3. CASE requests[1].kind = "load" /\ requests[1].generation = generation
      <4>1. requests[1].answer \notin JobStatuses
        BY <1>3, <1>5, <2>1, <3>1, <3>3
      <4>2. requests[1].answer \in {Unreachable, NoRow}
        BY <1>1, <1>4, <4>1 DEF Answers
      <4> QED
        BY <1>4, <3>2, <4>2
    <3> QED
      BY <1>7, <3>2, <3>3
  <2>3. CASE connection # "stopped"
    <3>1. requests[1].answer \in TerminalJobStatuses
      BY <1>3, <2>1, <2>3
    <3>2. requests[1].generation # generation
      BY <1>3, <2>1, <3>1, VerdictsAre
    <3>3. Reloading /\ (generation = 2 => shown \in TerminalJobStatuses)
      BY <1>1, <2>1, <3>2 DEF SettledInv, QueueInv, OldInv
    <3>4. generation # 1 /\ generation # 2 /\ generation \in Nat /\ generation >= 1
      BY <1>1, <1>3, <1>4, <2>1, <3>2, <3>3, GenerationsAre
    <3> QED
      BY <1>7, <3>2, <3>3, <3>4
  <2> QED
    BY <2>2, <2>3
<1> QED
  BY <1>7, <1>8, <1>9 DEF SettledInv, QueueInv

LEMMA RetryArrivesSettles ==
    ASSUME InOrder, BaseInv, SettledInv, NEW i \in DOMAIN requests, RetryArrives(i)
    PROVE  SettledInv'
<1>1. /\ i = 1 /\ 1 \in DOMAIN requests /\ QueueOK /\ generation \in Nat
      /\ generation \in Generations /\ requests[1].kind = "retry"
      /\ requests[1].kind # "load"
  BY SomethingUnderWay DEF RetryArrives, MayArrive
<1>2. CASE requests[1].answer # "accepted"
  <2>1. /\ Removed(1)
        /\ UNCHANGED <<generation, status, faults, connection, shown, missed>>
        /\ requests[1].answer # "accepted"
    BY <1>1, <1>2, RemovalRemoves DEF RetryArrives, jobVars
  <2>2. /\ AnsweredInTurn' /\ \A j \in DOMAIN requests' : OldInv(j)'
        /\ Reloading => Reloading'
    BY <1>1, <2>1, ArrivalKeepsOrder
  <2>3. VerdictInv'
    BY <1>1, <2>1, ArrivalKeepsVerdict
  <2>4. FinishedMeansFinished'
    BY <2>1, <2>2 DEF SettledInv, FinishedMeansFinished
  <2> QED
    BY <2>2, <2>3, <2>4 DEF SettledInv, QueueInv
<1>3. CASE requests[1].answer = "accepted"
  <2> DEFINE last == Len(requests)
  <2>1. /\ generation + 1 \in Generations /\ generation' = generation + 1
        /\ Replaced(1, [kind |-> "load", generation |-> generation', answer |-> Waiting])
    BY <1>1, <1>3, NextGeneration
  <2>2. UNCHANGED <<status, shown, missed>> /\ connection' = "connecting"
    BY <1>1, <1>3 DEF RetryArrives, jobVars
  <2>3. /\ MovedUp /\ DOMAIN requests' = 1..last /\ DOMAIN requests = 1..last /\ last \in Nat
        /\ requests'[last].kind = "load" /\ requests'[last].generation = generation'
        /\ requests'[last].answer = Waiting
    <3>1. PICK q : q = [kind |-> "load", generation |-> generation', answer |-> Waiting]
      OBVIOUS
    <3> QED
      BY <1>1, <2>1, <3>1, QueueIs, ReplacedMovesUp
  <2>4. \A j \in 1..(last - 1) :
           /\ j + 1 \in DOMAIN requests /\ requests'[j] = requests[j + 1]
           /\ requests'[j].generation <= generation /\ requests'[j].generation \in Nat
    <3>1. ASSUME NEW j \in 1..(last - 1)
          PROVE  /\ j + 1 \in DOMAIN requests /\ requests'[j] = requests[j + 1]
                 /\ j + 1 # 1
      BY <2>3 DEF MovedUp
    <3>2. \A j \in DOMAIN requests : requests[j].generation \in Nat /\ RequestInv(j)
      BY <1>1, QueueIs, GenerationsAre DEF BaseInv, HookInv
    <3> QED
      BY <1>1, <3>1, <3>2 DEF RequestInv
  <2>5. Reloading'
    BY <1>1, <2>3 DEF Reloading
  <2>6. AnsweredInTurn'
    <3>1. ASSUME NEW h \in DOMAIN requests', NEW j \in DOMAIN requests', h < j
          PROVE  /\ requests'[j].answer \notin {Waiting, Unreachable} =>
                       requests'[h].answer # Waiting
                 /\ requests'[h].generation = generation' =>
                       requests'[j].generation = generation'
      <4>1. h \in 1..(last - 1)
        BY <2>3, <3>1
      <4>2. requests'[h].generation # generation'
        BY <1>1, <2>1, <2>4, <4>1
      <4>3. CASE j = last
        BY <2>3, <4>2, <4>3
      <4>4. CASE j # last
        <5>1. j \in 1..(last - 1) /\ h + 1 < j + 1
          BY <2>3, <3>1, <4>4
        <5> QED
          BY <2>4, <4>1, <4>2, <5>1 DEF SettledInv, QueueInv, AnsweredInTurn
      <4> QED
        BY <4>3, <4>4
    <3> QED
      BY <3>1 DEF AnsweredInTurn
  <2>7. ASSUME NEW j \in DOMAIN requests' PROVE OldInv(j)'
    <3>1. generation' # 1
          /\ (~missed' /\ generation' = 2 => shown' \in TerminalJobStatuses)
      BY <1>1, <2>1, <2>2, GenerationsAre DEF SettledInv, QueueInv, OldInv
    <3> QED
      BY <2>5, <3>1 DEF OldInv
  <2>8. VerdictInv'
    <3>1. \A m \in Nat : Ended(m + 1) => Ended(m)'
      BY <1>1, <2>2, <2>3, ReplacedEnded
    <3>2. ASSUME ~missed, NEW j \in DOMAIN requests',
                 requests'[j].answer \in TerminalJobStatuses
          PROVE  Ended(j)'
      <4>1. j \in 1..(last - 1)
        BY <2>3, <3>2, NoRowIsAnAnswer, VerdictsAre
      <4>2. Ended(j + 1) /\ j \in Nat
        BY <2>4, <3>2, <4>1 DEF SettledInv, QueueInv, VerdictInv
      <4> QED
        BY <3>1, <4>2
    <3>3. generation' # 1
      BY <1>1, <2>1, GenerationsAre
    <3> QED
      BY <2>2, <3>2, <3>3 DEF VerdictInv
  <2>9. FinishedMeansFinished'
    BY <2>2 DEF FinishedMeansFinished
  <2> QED
    BY <2>6, <2>7, <2>8, <2>9 DEF SettledInv, QueueInv
<1> QED
  BY <1>2, <1>3

LEMMA SettledStep ==
    ASSUME InOrder, BaseInv, SettledInv, DashboardNext
    PROVE  SettledInv'
BY OthersSettle, OnOpenAndErrorSettle, AsksSettle, AnswersSettle, FetchArrivesSettles,
   RetryArrivesSettles
DEF DashboardNext, Hook, Arrives

LEMMA SettledStarts == DashboardInit => SettledInv
<1> SUFFICES ASSUME DashboardInit PROVE SettledInv
  OBVIOUS
<1> DEFINE load == [kind |-> "load", generation |-> 1, answer |-> Waiting]
<1>1. requests \in {<<>>, <<load>>}
  BY DEF DashboardInit
<1>2. /\ \A h, i \in DOMAIN requests : h = i
      /\ \A i \in DOMAIN requests :
            /\ requests[i].generation = 1 /\ requests[i].kind = "load"
            /\ requests[i].answer = Waiting
  BY <1>1
<1>3. /\ generation = 1 /\ connection = "connecting" /\ shown = NoRow
      /\ NoRow \notin TerminalJobStatuses /\ Waiting \notin TerminalJobStatuses
  BY NoRowIsAnAnswer, VerdictsAre DEF DashboardInit
<1>4. AnsweredInTurn
  <2>1. DOMAIN requests \subseteq {1}
    BY <1>1
  <2> QED
    BY <2>1 DEF AnsweredInTurn
<1> QED
  BY <1>2, <1>3, <1>4
  DEF SettledInv, QueueInv, OldInv, VerdictInv, FinishedMeansFinished

LEMMA SettledStutters == SettledInv /\ UNCHANGED dashboardVars => SettledInv'
<1> SUFFICES ASSUME SettledInv, UNCHANGED dashboardVars PROVE SettledInv'
  OBVIOUS
<1>1. /\ UNCHANGED <<requests, generation, shown, connection, missed, status, faults>>
      /\ StandsFast /\ NothingUndone
  BY DEF dashboardVars, hookVars, StandsFast, NothingUndone
<1> QED
  BY <1>1, SameQueueSettles

(* On any network each answer is for the generation that is current or one *)
(* before it, and only the current generation has a source or a timer.  On *)
(* a network that keeps the order of requests the dashboard also says      *)
(* "finished" only with a verdict, however many fetches, lost answers and  *)
(* retries there are; the exceptions are a second retry that is asked for  *)
(* before the first has been loaded, and a retry the hook was not told of  *)
(* (useJob, handleRetryCollector).                                         *)
THEOREM DashboardHolds == DashboardSpec => []DashboardInv
<1>1. BaseInv /\ (InOrder => SettledInv) => DashboardInv
  BY DEF BaseInv, StreamInv, SettledInv, DashboardInv
<1>2. CASE InOrder
  <2>1. DashboardInit => SettledInv
    BY SettledStarts
  <2>2. BaseInv /\ SettledInv /\ [DashboardNext]_dashboardVars => SettledInv'
    BY <1>2, SettledStep, SettledStutters
  <2>3. BaseInv /\ SettledInv => DashboardInv
    BY <1>1
  <2> QED
    BY <2>1, <2>2, <2>3, BaseHolds, PTL DEF DashboardSpec
<1>3. CASE ~InOrder
  <2>1. BaseInv => DashboardInv
    BY <1>1, <1>3
  <2> QED
    BY <2>1, BaseHolds, PTL
<1> QED
  BY <1>2, <1>3

-----------------------------------------------------------------------------
(* Names on certificates.                                                  *)

AllDates == Dates \cup {None}
AllMentions ==
    [name : {NormalizeName(raw) : raw \in RawNames}, wildcard : BOOLEAN,
     first : AllDates, last : AllDates]
Values == [wildcard : BOOLEAN, first : AllDates, last : AllDates]

(* A value says of a set of mentions what a row should.                    *)
Says(value, mentions) ==
    /\ value \in Values
    /\ value.wildcard = (\E m \in mentions : m.wildcard)
    /\ IsEarliest(value.first, Known({m.first : m \in mentions}))
    /\ IsLatest(value.last, Known({m.last : m \in mentions}))

MentionsKept(list, k, mentions) == mentions \in Seq(AllMentions)
MentionsLoop == INSTANCE LeftFold WITH Op <- AddMentions, Holds <- MentionsKept

LEMMA NothingSays == Says(Nothing, {})
  BY DEF Says, Nothing, Values, AllDates, IsEarliest, IsLatest, Known

(* The dates of two sets, and what becomes of their bounds.                *)
LEMMA EarlierIsEarliest ==
    ASSUME NEW D \in SUBSET Dates, NEW E \in SUBSET Dates, NEW d \in AllDates, NEW e \in AllDates,
           IsEarliest(d, D), IsEarliest(e, E)
    PROVE  IsEarliest(Earlier(d, e), D \cup E) /\ Earlier(d, e) \in AllDates
<1>1. D \subseteq Nat \ {None} /\ E \subseteq Nat \ {None} /\ d \in Nat /\ e \in Nat
  BY DatesAssumption DEF AllDates, None
<1>2. (D = {} <=> d = None) /\ (E = {} <=> e = None)
  BY <1>1 DEF IsEarliest
<1>3. CASE D = {}
  BY <1>2, <1>3 DEF IsEarliest, Earlier
<1>4. CASE D # {} /\ E = {}
  BY <1>2, <1>4 DEF IsEarliest, Earlier
<1>5. CASE D # {} /\ E # {}
  <2>1. d \in D /\ e \in E /\ (\A x \in D : d <= x) /\ (\A x \in E : e <= x)
    BY <1>5 DEF IsEarliest
  <2>2. Earlier(d, e) = IF e < d THEN e ELSE d
    BY <1>2, <1>5 DEF Earlier
  <2>3. Earlier(d, e) \in D \cup E /\ \A x \in D \cup E : Earlier(d, e) <= x
    BY <1>1, <2>1, <2>2
  <2> QED BY <1>5, <2>2, <2>3 DEF IsEarliest
<1> QED BY <1>3, <1>4, <1>5

LEMMA LaterIsLatest ==
    ASSUME NEW D \in SUBSET Dates, NEW E \in SUBSET Dates, NEW d \in AllDates, NEW e \in AllDates,
           IsLatest(d, D), IsLatest(e, E)
    PROVE  IsLatest(Later(d, e), D \cup E) /\ Later(d, e) \in AllDates
<1>1. D \subseteq Nat \ {None} /\ E \subseteq Nat \ {None} /\ d \in Nat /\ e \in Nat
  BY DatesAssumption DEF AllDates, None
<1>2. (D = {} <=> d = None) /\ (E = {} <=> e = None)
  BY <1>1 DEF IsLatest
<1>3. CASE D = {}
  BY <1>1, <1>2, <1>3 DEF IsLatest, Later, None
<1>4. CASE D # {} /\ E = {}
  BY <1>1, <1>2, <1>4 DEF IsLatest, Later, None
<1>5. CASE D # {} /\ E # {}
  <2>1. d \in D /\ e \in E /\ (\A x \in D : d >= x) /\ (\A x \in E : e >= x)
    BY <1>5 DEF IsLatest
  <2>2. Later(d, e) = IF e > d THEN e ELSE d
    BY DEF Later
  <2>3. Later(d, e) \in D \cup E /\ \A x \in D \cup E : Later(d, e) >= x
    BY <1>1, <2>1, <2>2
  <2> QED BY <1>5, <2>2, <2>3 DEF IsLatest
<1> QED BY <1>3, <1>4, <1>5

(* Merging two values says what their mentions say together.               *)
LEMMA MergedSays ==
    ASSUME NEW M \in SUBSET AllMentions, NEW N \in SUBSET AllMentions,
           NEW v, NEW w, Says(v, M), Says(w, N)
    PROVE  Says(Merged(v, w), M \cup N)
<1> DEFINE merged == Merged(v, w)
<1>1. /\ merged.wildcard = (v.wildcard \/ w.wildcard)
      /\ merged.first = Earlier(v.first, w.first) /\ merged.last = Later(v.last, w.last)
      /\ merged = [wildcard |-> merged.wildcard, first |-> merged.first, last |-> merged.last]
  BY DEF Merged
<1> HIDE DEF merged
<1>2. /\ v.wildcard \in BOOLEAN /\ v.first \in AllDates /\ v.last \in AllDates
      /\ w.wildcard \in BOOLEAN /\ w.first \in AllDates /\ w.last \in AllDates
  BY DEF Says, Values
<1>3. /\ Known({m.first : m \in M}) \in SUBSET Dates /\ Known({m.first : m \in N}) \in SUBSET Dates
      /\ Known({m.last : m \in M}) \in SUBSET Dates /\ Known({m.last : m \in N}) \in SUBSET Dates
  <2>1. \A m \in M \cup N : m.first \in AllDates /\ m.last \in AllDates
    BY DEF AllMentions
  <2> QED BY <2>1 DEF Known, AllDates
<1>4. /\ Known({m.first : m \in M \cup N})
            = Known({m.first : m \in M}) \cup Known({m.first : m \in N})
      /\ Known({m.last : m \in M \cup N})
            = Known({m.last : m \in M}) \cup Known({m.last : m \in N})
  BY DEF Known
<1>5. IsEarliest(merged.first, Known({m.first : m \in M \cup N})) /\ merged.first \in AllDates
  <2> DEFINE D == Known({m.first : m \in M})  E == Known({m.first : m \in N})
  <2>1. IsEarliest(v.first, D) /\ IsEarliest(w.first, E)
    BY DEF Says
  <2>2. D \in SUBSET Dates /\ E \in SUBSET Dates
    BY <1>3
  <2> HIDE DEF D, E
  <2>3. IsEarliest(Earlier(v.first, w.first), D \cup E) /\ Earlier(v.first, w.first) \in AllDates
    BY <1>2, <2>1, <2>2, EarlierIsEarliest
  <2> QED BY <1>1, <1>4, <2>3 DEF D, E
<1>6. IsLatest(merged.last, Known({m.last : m \in M \cup N})) /\ merged.last \in AllDates
  <2> DEFINE D == Known({m.last : m \in M})  E == Known({m.last : m \in N})
  <2>1. IsLatest(v.last, D) /\ IsLatest(w.last, E)
    BY DEF Says
  <2>2. D \in SUBSET Dates /\ E \in SUBSET Dates
    BY <1>3
  <2> HIDE DEF D, E
  <2>3. IsLatest(Later(v.last, w.last), D \cup E) /\ Later(v.last, w.last) \in AllDates
    BY <1>2, <2>1, <2>2, LaterIsLatest
  <2> QED BY <1>1, <1>4, <2>3 DEF D, E
<1>7. merged.wildcard = (\E m \in M \cup N : m.wildcard) /\ merged.wildcard \in BOOLEAN
  <2>1. v.wildcard = (\E m \in M : m.wildcard) /\ w.wildcard = (\E m \in N : m.wildcard)
    BY DEF Says
  <2>2. (\E m \in M \cup N : m.wildcard) = ((\E m \in M : m.wildcard) \/ (\E m \in N : m.wildcard))
    BY Zenon
  <2>3. merged.wildcard = ((\E m \in M : m.wildcard) \/ (\E m \in N : m.wildcard))
    BY <1>1, <2>1, Zenon
  <2>4. merged.wildcard = (\E m \in M \cup N : m.wildcard)
    BY <2>2, <2>3, Zenon
  <2> QED BY <2>4, Zenon
<1>8. merged \in Values
  BY <1>1, <1>5, <1>6, <1>7 DEF Values
<1>9. Says(merged, M \cup N)
  BY <1>5, <1>6, <1>7, <1>8 DEF Says
<1> QED BY <1>9 DEF merged

(* A certificate, an answer, the answers of the runs so far.               *)
AllCertificates == [names : Seq(RawNames), before : AllDates, after : AllDates]

AnswersOK == answers \in Seq(Seq(AllCertificates))

LEMMA AnswersTyped == AnswersSpec => []AnswersOK
<1>1. AnswersInit => AnswersOK
  BY DEF AnswersInit, AnswersOK
<1>2. AnswersOK /\ [AnswersNext]_answersVars => AnswersOK'
  <2>1. SUFFICES ASSUME AnswersOK, [AnswersNext]_answersVars PROVE AnswersOK'
    OBVIOUS
  <2>2. CASE RunCrtsh
    BY <2>1, <2>2 DEF RunCrtsh, AnswersOK
  <2>3. CASE CrtshAnswers
    <3>1. PICK c \in Certificates : answers' = [answers EXCEPT ![Len(answers)] = Append(@, c)]
      BY <2>3 DEF CrtshAnswers
    <3>2. c \in AllCertificates
      BY DEF Certificates, AllCertificates, AllDates, BoundedSeq, SeqOf
    <3>3. answers # <<>>
      BY <2>3 DEF CrtshAnswers
    <3>4. Len(answers) \in 1..Len(answers) /\ answers[Len(answers)] \in Seq(AllCertificates)
      BY <2>1, <3>3 DEF AnswersOK
    <3>5. Append(answers[Len(answers)], c) \in Seq(AllCertificates)
      BY <3>2, <3>4
    <3>6. answers' = [answers EXCEPT ![Len(answers)] = Append(answers[Len(answers)], c)]
      BY <3>1
    <3> HIDE DEF AllCertificates
    <3> QED BY <2>1, <3>4, <3>5, <3>6 DEF AnswersOK
  <2>4. CASE UNCHANGED answersVars
    BY <2>1, <2>4 DEF answersVars, AnswersOK
  <2> QED BY <2>1, <2>2, <2>3, <2>4 DEF AnswersNext
<1> QED BY <1>1, <1>2, PTL DEF AnswersSpec

(* What the collector reads off an answer.                                 *)
LEMMA MentionsTyped ==
    ASSUME NEW answer \in Seq(AllCertificates)
    PROVE  Mentions(answer) \in Seq(AllMentions)
<1>1. MentionsKept(answer, 0, <<>>)
  BY DEF MentionsKept
<1>2. ASSUME NEW i \in 1..Len(answer), NEW mentions, MentionsKept(answer, i - 1, mentions)
      PROVE  MentionsKept(answer, i, AddMentions(mentions, answer[i]))
  <2> DEFINE names == answer[i].names
             read == [n \in DOMAIN names |->
                        [name |-> NormalizeName(names[n]), wildcard |-> IsWildcard(names[n]),
                         first |-> answer[i].before, last |-> answer[i].after]]
  <2>1. /\ names \in Seq(RawNames) /\ answer[i].before \in AllDates /\ answer[i].after \in AllDates
    <3>1. answer[i] \in AllCertificates
      OBVIOUS
    <3> QED BY <3>1 DEF AllCertificates
  <2>2. \A n \in DOMAIN names : IsWildcard(names[n]) \in BOOLEAN
    BY DEF IsWildcard
  <2>3. \A n \in DOMAIN names : names[n] \in RawNames
    BY <2>1
  <2>4. \A n \in DOMAIN names : read[n] \in AllMentions
    BY <2>1, <2>2, <2>3 DEF AllMentions
  <2>5. DOMAIN read = 1..Len(names) /\ Len(names) \in Nat
    BY <2>1
  <2>6. AddMentions(mentions, answer[i]) = mentions \o read
    BY DEF AddMentions
  <2>7. read = [n \in 1..Len(names) |-> read[n]]
    BY <2>5
  <2> HIDE DEF read, names
  <2>8. read \in Seq(AllMentions)
    BY <2>4, <2>5, <2>7
  <2> QED BY <1>2, <2>6, <2>8 DEF MentionsKept
<1> HIDE DEF MentionsKept
<1>3. MentionsKept(answer, Len(answer), MentionsLoop!Folded(<<>>, answer))
  BY <1>1, <1>2, MentionsLoop!FoldInvariant
<1>4. Mentions(answer) = MentionsLoop!Folded(<<>>, answer)
  BY DEF Mentions, MentionsLoop!Folded, MentionsLoop!FoldLeft, MentionsLoop!MapThenFoldSet,
         MentionsLoop!Max, FoldLeft, MapThenFoldSet, Max
<1> QED BY <1>3, <1>4 DEF MentionsKept

(* One step of both folds.                                                 *)
LEMMA Gathered ==
    ASSUME NEW g, NEW name, NEW new, NEW M \in SUBSET AllMentions, NEW N \in SUBSET AllMentions,
           Says(Entry(g, name), M), Says(new, N)
    PROVE  /\ DOMAIN Gather(g, name, new) = DOMAIN g \cup {name}
           /\ Says(Gather(g, name, new)[name], M \cup N)
           /\ \A n \in DOMAIN g \ {name} : Gather(g, name, new)[n] = g[n]
<1>1. Says(Merged(Entry(g, name), new), M \cup N)
  BY MergedSays
<1> QED BY <1>1 DEF Gather

(* The findings of one answer: the names of the target among the first k   *)
(* mentions, each with what its mentions say.                              *)
Among(list, k, name) == {list[i] : i \in {j \in 1..k : list[j].name = name}}

FoundSoFar(list, k, found) ==
    /\ DOMAIN found = {list[i].name : i \in {j \in 1..k : IsInScope(list[j].name)}}
    /\ IsFiniteSet(DOMAIN found)
    /\ \A name \in DOMAIN found : Says(found[name], Among(list, k, name))

FoundLoop == INSTANCE LeftFold WITH Op <- AddMention, Holds <- FoundSoFar

(* What one mention says by itself.                                        *)
LEMMA SeenSays == ASSUME NEW m \in AllMentions PROVE Says(SeenIn(m), {m})
<1>1. /\ m.wildcard \in BOOLEAN /\ m.first \in AllDates /\ m.last \in AllDates
  BY DEF AllMentions
<1>2. AllDates \subseteq Nat
  BY DatesAssumption DEF AllDates, None
<1>3. /\ SeenIn(m) \in Values
      /\ SeenIn(m).wildcard = m.wildcard /\ SeenIn(m).first = m.first /\ SeenIn(m).last = m.last
  BY <1>1 DEF SeenIn, Values
<1>4. SeenIn(m).wildcard = (\E x \in {m} : x.wildcard)
  <2>1. (\E x \in {m} : x.wildcard) = m.wildcard
    BY <1>1, Zenon
  <2> QED BY <1>3, <2>1, Zenon
<1>5. ASSUME NEW d \in AllDates
      PROVE  IsEarliest(d, {d} \ {None}) /\ IsLatest(d, {d} \ {None})
  <2>1. CASE d = None
    <3>1. {d} \ {None} = {}
      BY <2>1
    <3> QED BY <2>1, <3>1 DEF IsEarliest, IsLatest
  <2>2. CASE d # None
    <3>1. {d} \ {None} = {d} /\ d \in Nat
      BY <1>2, <2>2
    <3> QED BY <3>1 DEF IsEarliest, IsLatest
  <2> QED BY <2>1, <2>2
<1>6. {x.first : x \in {m}} = {m.first} /\ {x.last : x \in {m}} = {m.last}
  OBVIOUS
<1>7. /\ IsEarliest(SeenIn(m).first, Known({x.first : x \in {m}}))
      /\ IsLatest(SeenIn(m).last, Known({x.last : x \in {m}}))
  BY <1>1, <1>3, <1>5, <1>6 DEF Known
<1> QED BY <1>3, <1>4, <1>7 DEF Says

LEMMA FoundSays ==
    ASSUME NEW list \in Seq(AllMentions)
    PROVE  FoundSoFar(list, Len(list), FoldLeft(AddMention, <<>>, list))
<1>1. FoundSoFar(list, 0, <<>>)
  <2>1. DOMAIN <<>> = {} /\ {j \in 1..0 : IsInScope(list[j].name)} = {}
    OBVIOUS
  <2> QED BY <2>1, FS_EmptySet DEF FoundSoFar
<1>2. ASSUME NEW i \in 1..Len(list), NEW found, FoundSoFar(list, i - 1, found)
      PROVE  FoundSoFar(list, i, AddMention(found, list[i]))
  <2> DEFINE m == list[i]
  <2>1. m \in AllMentions /\ i \in Nat /\ 1..i = (1..(i - 1)) \cup {i} /\ i \notin 1..(i - 1)
    OBVIOUS
  <2>2. \A j \in 1..i : list[j] \in AllMentions
    OBVIOUS
  <2>3. \A name : Among(list, i, name)
                    = Among(list, i - 1, name) \cup (IF m.name = name THEN {m} ELSE {})
    BY <2>1 DEF Among
  <2>4. {list[j].name : j \in {l \in 1..i : IsInScope(list[l].name)}}
          = {list[j].name : j \in {l \in 1..(i - 1) : IsInScope(list[l].name)}}
              \cup (IF IsInScope(m.name) THEN {m.name} ELSE {})
    BY <2>1
  <2>5. CASE ~IsInScope(m.name)
    <3>1. \A name \in DOMAIN found : IsInScope(name)
      BY <1>2 DEF FoundSoFar
    <3>2. AddMention(found, list[i]) = found
      BY <2>5 DEF AddMention
    <3>3. \A name \in DOMAIN found : Among(list, i, name) = Among(list, i - 1, name)
      BY <2>3, <2>5, <3>1
    <3> QED BY <1>2, <2>4, <2>5, <3>2, <3>3 DEF FoundSoFar
  <2>6. CASE IsInScope(m.name)
    <3> DEFINE M == Among(list, i - 1, m.name)  N == {m}  name == m.name  new == SeenIn(m)
    <3>1. M \in SUBSET AllMentions /\ N \in SUBSET AllMentions
      BY <2>1, <2>2 DEF Among
    <3>2. Says(Entry(found, name), M)
      <4>1. CASE m.name \in DOMAIN found
        BY <1>2, <4>1 DEF FoundSoFar, Entry
      <4>2. CASE m.name \notin DOMAIN found
        <5>1. M = {}
          BY <1>2, <2>6, <4>2 DEF FoundSoFar, Among
        <5> QED BY <4>2, <5>1, NothingSays DEF Entry
      <4> QED BY <4>1, <4>2
    <3>3. Says(new, N)
      BY <2>1, SeenSays
    <3>4. AddMention(found, list[i]) = Gather(found, name, new)
      BY <2>6 DEF AddMention
    <3> DEFINE next == Gather(found, name, new)
    <3> HIDE DEF M, N, name, new
    <3>5. /\ DOMAIN next = DOMAIN found \cup {name} /\ Says(next[name], M \cup N)
          /\ \A n \in DOMAIN found \ {name} : next[n] = found[n]
      BY <3>1, <3>2, <3>3, Gathered
    <3> HIDE DEF next
    <3>6. Among(list, i, name) = M \cup N
      BY <2>3 DEF M, N, name
    <3>7. \A n \in DOMAIN found \ {name} : Among(list, i, n) = Among(list, i - 1, n)
      BY <2>3 DEF name
    <3>8. \A n \in DOMAIN next : Says(next[n], Among(list, i, n))
      BY <1>2, <3>5, <3>6, <3>7 DEF FoundSoFar
    <3>9. IsFiniteSet(DOMAIN next)
      BY <1>2, <3>5, FS_AddElement DEF FoundSoFar
    <3> QED BY <1>2, <2>4, <2>6, <3>4, <3>5, <3>8, <3>9 DEF FoundSoFar, name, next
  <2> QED BY <2>5, <2>6
<1> HIDE DEF FoundSoFar
<1>3. FoundSoFar(list, Len(list), FoundLoop!Folded(<<>>, list))
  BY <1>1, <1>2, FoundLoop!FoldInvariant
<1>4. FoldLeft(AddMention, <<>>, list) = FoundLoop!Folded(<<>>, list)
  BY DEF FoundLoop!Folded, FoundLoop!FoldLeft, FoundLoop!MapThenFoldSet, FoundLoop!Max,
         FoldLeft, MapThenFoldSet, Max
<1> QED BY <1>3, <1>4

(* What the finding of a run stands for: its answer's mentions of the name.*)
SpokenOf(answer, name) == {m \in ToSet(Mentions(answer)) : m.name = name}
Source(finding) == SpokenOf(answers[finding.run], finding.name)

LEMMA AnswerFound ==
    ASSUME NEW answer \in Seq(AllCertificates)
    PROVE  /\ DOMAIN Found(answer) = {m.name : m \in {e \in ToSet(Mentions(answer)) : IsInScope(e.name)}}
           /\ IsFiniteSet(DOMAIN Found(answer))
           /\ \A name : SpokenOf(answer, name) \in SUBSET AllMentions
           /\ \A name \in DOMAIN Found(answer) : Says(Found(answer)[name], SpokenOf(answer, name))
<1> DEFINE list == Mentions(answer)
<1>1. list \in Seq(AllMentions)
  BY MentionsTyped
<1>2. Found(answer) = FoldLeft(AddMention, <<>>, list)
  BY DEF Found
<1> HIDE DEF list
<1>3. FoundSoFar(list, Len(list), Found(answer))
  BY <1>1, <1>2, FoundSays
<1>4. ToSet(list) = {list[i] : i \in 1..Len(list)} /\ ToSet(list) \subseteq AllMentions
  BY <1>1 DEF ToSet
<1>5. \A name : Among(list, Len(list), name) = {m \in ToSet(list) : m.name = name}
  BY <1>4 DEF Among
<1>6. {list[i].name : i \in {j \in 1..Len(list) : IsInScope(list[j].name)}}
        = {m.name : m \in {e \in ToSet(list) : IsInScope(e.name)}}
  BY <1>4
<1>7. \A name : SpokenOf(answer, name) = {m \in ToSet(list) : m.name = name}
  BY DEF SpokenOf, list
<1> QED BY <1>3, <1>4, <1>5, <1>6, <1>7 DEF FoundSoFar, list

(* The findings of a run, and of the job.                                  *)
FindingsOf(r) ==
    {[run |-> r, name |-> name, value |-> Found(answers[r])[name]] : name \in DOMAIN Found(answers[r])}

LEMMA FindingsAreFinite == ASSUME AnswersOK PROVE IsFiniteSet(Findings)
<1> DEFINE runs == DOMAIN answers
           all == {FindingsOf(r) : r \in runs}
<1>1. runs = 1..Len(answers) /\ Len(answers) \in Nat
  BY DEF AnswersOK
<1>2. ASSUME NEW r \in runs PROVE IsFiniteSet(FindingsOf(r))
  <2> DEFINE names == DOMAIN Found(answers[r])
             row == [name \in names |-> [run |-> r, name |-> name, value |-> Found(answers[r])[name]]]
  <2>1. answers[r] \in Seq(AllCertificates)
    BY <1>1 DEF AnswersOK
  <2>2. IsFiniteSet(names)
    BY <2>1, AnswerFound
  <2>3. row \in Surjection(names, FindingsOf(r))
    BY DEF Surjection, FindingsOf
  <2> HIDE DEF names, row
  <2> QED BY <2>2, <2>3, FS_Surjection
<1>3. IsFiniteSet(runs)
  BY <1>1, FS_Interval
<1>4. IsFiniteSet(all)
  <2> DEFINE f == [r \in runs |-> FindingsOf(r)]
  <2>1. f \in Surjection(runs, all)
    BY DEF Surjection
  <2> HIDE DEF f, runs, all
  <2> QED BY <1>3, <2>1, FS_Surjection
<1>5. \A F \in all : IsFiniteSet(F)
  BY <1>2
<1>6. Findings = UNION all
  BY DEF Findings, FindingsOf
<1> HIDE DEF all
<1> QED BY <1>4, <1>5, <1>6, FS_UNION

(* A table read in any order is read completely.                           *)
LEMMA OrderedSet ==
    ASSUME NEW S, IsFiniteSet(S), NEW s \in SetToSeqs(S)
    PROVE  s \in Seq(S) /\ ToSet(s) = S
<1> DEFINE n == Cardinality(S)
<1>1. n \in Nat
  BY FS_CardinalityType
<1>2. s \in [1..n -> S] /\ \A i, j \in 1..n : i # j => s[i] # s[j]
  BY DEF SetToSeqs
<1>3. IsFiniteSet(1..n) /\ Cardinality(1..n) = n
  BY <1>1, FS_Interval
<1>4. s \in Injection(1..n, S)
  BY <1>2 DEF Injection, IsInjective
<1> HIDE DEF n
<1>5. s \in Surjection(1..n, S)
  BY <1>3, <1>4, FS_Injection DEF n
<1> QED BY <1>1, <1>2, <1>5 DEF Surjection, ToSet

LEMMA FindingSays ==
    ASSUME AnswersOK, NEW f \in Findings
    PROVE  /\ f.run \in DOMAIN answers /\ f.name \in DOMAIN Found(answers[f.run]) /\ IsInScope(f.name)
           /\ Source(f) \in SUBSET AllMentions /\ Says(f.value, Source(f))
<1>1. PICK r \in DOMAIN answers : \E name \in DOMAIN Found(answers[r]) :
         f = [run |-> r, name |-> name, value |-> Found(answers[r])[name]]
  BY DEF Findings
<1>2. f.run = r /\ f.name \in DOMAIN Found(answers[r]) /\ f.value = Found(answers[r])[f.name]
  BY <1>1
<1>3. answers[r] \in Seq(AllCertificates)
  BY DEF AnswersOK
<1> QED BY <1>2, <1>3, AnswerFound DEF Source

(* The rows after k findings.                                              *)
Sources(list, k, name) == UNION {Source(list[i]) : i \in {j \in 1..k : list[j].name = name}}

RowsSoFar(list, k, rows) ==
    /\ DOMAIN rows = {list[i].name : i \in 1..k}
    /\ \A name \in DOMAIN rows : Says(rows[name], Sources(list, k, name))

RowsLoop == INSTANCE LeftFold WITH Op <- AddFinding, Holds <- RowsSoFar

LEMMA RowsSay ==
    ASSUME AnswersOK, NEW list \in Seq(Findings)
    PROVE  RowsSoFar(list, Len(list), FoldLeft(AddFinding, <<>>, list))
<1>1. RowsSoFar(list, 0, <<>>)
  BY DEF RowsSoFar
<1>2. ASSUME NEW i \in 1..Len(list), NEW rows, RowsSoFar(list, i - 1, rows)
      PROVE  RowsSoFar(list, i, AddFinding(rows, list[i]))
  <2> DEFINE f == list[i]  name == f.name  new == f.value
             M == Sources(list, i - 1, name)  N == Source(f)
             next == Gather(rows, name, new)
  <2>1. f \in Findings /\ i \in Nat /\ 1..i = (1..(i - 1)) \cup {i} /\ i \notin 1..(i - 1)
    OBVIOUS
  <2>2. \A j \in 1..(i - 1) : list[j] \in Findings
    OBVIOUS
  <2>3. M \in SUBSET AllMentions /\ N \in SUBSET AllMentions /\ Says(new, N)
    BY <2>1, <2>2, FindingSays DEF Sources
  <2>4. /\ \A n : n # name => Sources(list, i, n) = Sources(list, i - 1, n)
        /\ Sources(list, i, name) = M \cup N
    <3>1. \A n : {j \in 1..i : list[j].name = n}
                   = {j \in 1..(i - 1) : list[j].name = n} \cup (IF n = name THEN {i} ELSE {})
      BY <2>1
    <3> QED BY <3>1 DEF Sources
  <2>5. {list[j].name : j \in 1..i} = {list[j].name : j \in 1..(i - 1)} \cup {name}
    BY <2>1
  <2>6. Says(Entry(rows, name), M)
    <3>1. CASE name \in DOMAIN rows
      BY <1>2, <3>1 DEF RowsSoFar, Entry
    <3>2. CASE name \notin DOMAIN rows
      <4>1. M = {}
        BY <1>2, <3>2 DEF RowsSoFar, Sources
      <4> QED BY <3>2, <4>1, NothingSays DEF Entry
    <3> QED BY <3>1, <3>2
  <2>7. AddFinding(rows, list[i]) = next
    BY DEF AddFinding
  <2> HIDE DEF f, name, new, M, N
  <2>8. /\ DOMAIN next = DOMAIN rows \cup {name} /\ Says(next[name], M \cup N)
        /\ \A n \in DOMAIN rows \ {name} : next[n] = rows[n]
    BY <2>3, <2>6, Gathered
  <2> HIDE DEF next
  <2>9. \A n \in DOMAIN next : Says(next[n], Sources(list, i, n))
    BY <1>2, <2>4, <2>8 DEF RowsSoFar
  <2> QED BY <1>2, <2>5, <2>7, <2>8, <2>9 DEF RowsSoFar
<1> HIDE DEF RowsSoFar
<1>3. RowsSoFar(list, Len(list), RowsLoop!Folded(<<>>, list))
  BY <1>1, <1>2, RowsLoop!FoldInvariant
<1>4. FoldLeft(AddFinding, <<>>, list) = RowsLoop!Folded(<<>>, list)
  BY DEF RowsLoop!Folded, RowsLoop!FoldLeft, RowsLoop!MapThenFoldSet, RowsLoop!Max,
         FoldLeft, MapThenFoldSet, Max
<1> QED BY <1>3, <1>4

(* All sources of a name in scope are all the evidence of the name.        *)
LEMMA AllSources ==
    ASSUME AnswersOK, NEW list \in SetToSeqs(Findings)
    PROVE  /\ \A name : IsInScope(name) => Sources(list, Len(list), name) = Of(name)
           /\ {list[i].name : i \in 1..Len(list)} = {m.name : m \in {e \in Evidence : IsInScope(e.name)}}
<1>1. list \in Seq(Findings) /\ ToSet(list) = Findings
  BY FindingsAreFinite, OrderedSet
<1>2. Findings = {list[i] : i \in 1..Len(list)}
  BY <1>1 DEF ToSet
<1>3. ASSUME NEW m \in Evidence, IsInScope(m.name)
      PROVE  \E f \in Findings : f.name = m.name /\ m \in Source(f)
  <2>1. PICK r \in DOMAIN answers : m \in ToSet(Mentions(answers[r]))
    BY DEF Evidence
  <2>2. answers[r] \in Seq(AllCertificates)
    BY DEF AnswersOK
  <2>3. m.name \in DOMAIN Found(answers[r])
    BY <1>3, <2>1, <2>2, AnswerFound
  <2> DEFINE f == [run |-> r, name |-> m.name, value |-> Found(answers[r])[m.name]]
  <2>4. f \in Findings
    BY <2>3 DEF Findings
  <2>5. f.name = m.name /\ m \in Source(f)
    BY <2>1 DEF Source, SpokenOf
  <2> QED BY <2>4, <2>5
<1>4. ASSUME NEW f \in Findings
      PROVE  /\ IsInScope(f.name) /\ Source(f) \subseteq Of(f.name)
             /\ \E m \in Evidence : m.name = f.name
  <2>1. /\ f.run \in DOMAIN answers /\ f.name \in DOMAIN Found(answers[f.run]) /\ IsInScope(f.name)
    BY FindingSays
  <2>2. answers[f.run] \in Seq(AllCertificates)
    BY <2>1 DEF AnswersOK
  <2>3. \E m \in ToSet(Mentions(answers[f.run])) : m.name = f.name
    <3>1. DOMAIN Found(answers[f.run])
            = {m.name : m \in {e \in ToSet(Mentions(answers[f.run])) : IsInScope(e.name)}}
      BY <2>2, AnswerFound
    <3> QED BY <2>1, <3>1
  <2>4. ToSet(Mentions(answers[f.run])) \subseteq Evidence
    BY <2>1 DEF Evidence
  <2> QED BY <2>1, <2>3, <2>4 DEF Source, SpokenOf, Of
<1>5. ASSUME NEW name, IsInScope(name) PROVE Sources(list, Len(list), name) = Of(name)
  <2>1. Sources(list, Len(list), name) = UNION {Source(f) : f \in {g \in Findings : g.name = name}}
    BY <1>2 DEF Sources
  <2>2. \A m \in Of(name) : m \in Sources(list, Len(list), name)
    BY <1>3, <1>5, <2>1 DEF Of
  <2>3. \A m \in Sources(list, Len(list), name) : m \in Of(name)
    BY <1>4, <2>1
  <2> QED BY <2>2, <2>3
<1>6. {f.name : f \in Findings} = {m.name : m \in {e \in Evidence : IsInScope(e.name)}}
  <2>1. \A f \in Findings : \E m \in {e \in Evidence : IsInScope(e.name)} : m.name = f.name
    BY <1>4
  <2>2. \A m \in {e \in Evidence : IsInScope(e.name)} : \E f \in Findings : m.name = f.name
    BY <1>3
  <2> QED BY <2>1, <2>2
<1>7. {list[i].name : i \in 1..Len(list)} = {f.name : f \in Findings}
  BY <1>2
<1> QED BY <1>5, <1>6, <1>7

(* Whatever the answers of the runs, and in whatever order the findings    *)
(* table is read, the workspace has one row for every name of the target   *)
(* that a certificate bears, and the row gives the widest range of dates   *)
(* and the wildcard mark of all its mentions (services/subdomains.py:63).  *)
THEOREM RowsAreRight == AnswersSpec => []RowsMatchTheEvidence
<1>1. AnswersOK => RowsMatchTheEvidence
  <2>1. SUFFICES ASSUME AnswersOK, NEW list \in SetToSeqs(Findings)
        PROVE  /\ DOMAIN Aggregate(list) = {m.name : m \in {e \in Evidence : IsInScope(e.name)}}
               /\ \A name \in DOMAIN Aggregate(list) : RowIsTrue(name, Aggregate(list)[name])
    BY Zenon DEF RowsMatchTheEvidence
  <2> DEFINE rows == FoldLeft(AddFinding, <<>>, list)
             names == {m.name : m \in {e \in Evidence : IsInScope(e.name)}}
  <2>2. Aggregate(list) = [name \in {n \in DOMAIN rows : IsInScope(n)} |-> rows[name]]
    BY DEF Aggregate
  <2>3. list \in Seq(Findings)
    BY <2>1, FindingsAreFinite, OrderedSet
  <2>4. RowsSoFar(list, Len(list), rows)
    BY <2>1, <2>3, RowsSay
  <2> HIDE DEF rows
  <2>5. DOMAIN rows = names
    BY <2>1, <2>4, AllSources DEF RowsSoFar
  <2>6. \A name \in names : IsInScope(name)
    OBVIOUS
  <2>7. DOMAIN Aggregate(list) = names /\ \A name \in names : Aggregate(list)[name] = rows[name]
    BY <2>2, <2>5, <2>6
  <2>8. \A name \in names : Says(rows[name], Of(name))
    BY <2>1, <2>4, <2>5, <2>6, AllSources DEF RowsSoFar
  <2> HIDE DEF names
  <2>9. \A name \in names : RowIsTrue(name, rows[name])
    BY <2>8 DEF Says, RowIsTrue
  <2> QED BY <2>7, <2>9 DEF names
<1> QED BY <1>1, AnswersTyped, PTL

-----------------------------------------------------------------------------
(* Texts of the launch form.                                               *)

AddressRecords ==
    [family : {0, 4, 6}, zeroes : {0, 8, 24, 80, 96}, forbidden : BOOLEAN, asPrinted : BOOLEAN]

(* What a text is made of; its length is not needed.                       *)
IsText(t) ==
    /\ t = [address |-> t.address, labels |-> t.labels, slash |-> t.slash,
            mark |-> t.mark, length |-> t.length]
    /\ t.address \in AddressRecords
    /\ t.address.family = 0 => t.address = NoAddress
    /\ t.labels \in Seq(Labels)

LEMMA AddressesTyped ==
    /\ TypedAddresses \subseteq AddressRecords
    /\ NoAddress \in AddressRecords
    /\ \A a \in TypedAddresses : a.family # 0
<1>1. ASSUME NEW z \in {0, 8, 24}, NEW f \in BOOLEAN
      PROVE  [family |-> 4, zeroes |-> z, forbidden |-> f, asPrinted |-> TRUE] \in AddressRecords
  BY DEF AddressRecords
<1>2. ASSUME NEW z \in {0, 80, 96}, NEW f \in BOOLEAN, NEW p \in BOOLEAN
      PROVE  [family |-> 6, zeroes |-> z, forbidden |-> f, asPrinted |-> p] \in AddressRecords
  BY DEF AddressRecords
<1>3. NoAddress \in AddressRecords
  BY DEF NoAddress, AddressRecords
<1>4. ASSUME NEW a \in TypedAddresses
      PROVE  \/ \E z \in {0, 8, 24}, f \in BOOLEAN :
                   a = [family |-> 4, zeroes |-> z, forbidden |-> f, asPrinted |-> TRUE]
             \/ \E z \in {0, 80, 96}, f \in BOOLEAN, p \in BOOLEAN :
                   a = [family |-> 6, zeroes |-> z, forbidden |-> f, asPrinted |-> p]
  BY <1>4 DEF TypedAddresses
<1>5. ASSUME NEW a \in TypedAddresses PROVE a \in AddressRecords /\ a.family # 0
  <2>1. CASE \E z \in {0, 8, 24}, f \in BOOLEAN :
                   a = [family |-> 4, zeroes |-> z, forbidden |-> f, asPrinted |-> TRUE]
    BY <1>1, <2>1
  <2>2. CASE \E z \in {0, 80, 96}, f \in BOOLEAN, p \in BOOLEAN :
                   a = [family |-> 6, zeroes |-> z, forbidden |-> f, asPrinted |-> p]
    BY <1>2, <2>2
  <2> QED BY <1>4, <2>1, <2>2
<1> QED BY <1>3, <1>5

LEMMA TextInvariant == TargetSpec => []IsText(text)
<1>1. TargetInit => IsText(text)
  BY AddressesTyped DEF TargetInit, EmptyText, IsText, NoAddress
<1>2. IsText(text) /\ [TargetNext]_targetVars => IsText(text)'
  <2> SUFFICES ASSUME IsText(text), [TargetNext]_targetVars PROVE IsText(text)'
    OBVIOUS
  <2>1. CASE TypeAddress
    <3>1. PICK a \in TypedAddresses : text' = [text EXCEPT !.address = a, !.length = 2]
      BY <2>1 DEF TypeAddress
    <3>2. a \in AddressRecords /\ a.family # 0
      BY AddressesTyped
    <3> QED BY <3>1, <3>2 DEF IsText
  <2>2. CASE TypeLabel
    <3>1. PICK l \in Labels :
             text' = [text EXCEPT !.labels = Append(text.labels, l),
                                  !.length = LeastLength(Append(text.labels, l))]
      BY <2>2 DEF TypeLabel
    <3>2. Append(text.labels, l) \in Seq(Labels)
      BY AppendProperties DEF IsText
    <3> QED BY <3>1, <3>2 DEF IsText
  <2>3. CASE TypeMore
    BY <2>3 DEF TypeMore, IsText
  <2>4. CASE TypeSlash
    <3>1. PICK n \in PrefixLengths, netmask \in BOOLEAN :
             /\ netmask => text.address.family = 4
             /\ text' = [text EXCEPT !.slash = n,
                                     !.address.asPrinted = @ /\ ~ netmask,
                                     !.length = IF @ < 2 THEN 2 ELSE @]
      BY <2>4 DEF TypeSlash
    <3> DEFINE a == [text.address EXCEPT !.asPrinted = @ /\ ~ netmask]
    <3>2. /\ text'.address = a /\ text'.labels = text.labels /\ text'.slash = n
          /\ text'.mark = text.mark
          /\ text' = [address |-> text'.address, labels |-> text'.labels, slash |-> text'.slash,
                      mark |-> text'.mark, length |-> text'.length]
      BY <3>1 DEF IsText
    <3>3. a \in AddressRecords /\ a.family = text.address.family
      BY DEF IsText, AddressRecords
    <3>4. a.family = 0 => a = NoAddress
      <4>1. SUFFICES ASSUME a.family = 0 PROVE a = NoAddress
        OBVIOUS
      <4>2. text.address = NoAddress /\ ~ netmask
        BY <3>1, <3>3, <4>1 DEF IsText
      <4>3. text.address.asPrinted = TRUE
        BY <4>2 DEF NoAddress
      <4>4. (text.address.asPrinted /\ ~ netmask) = TRUE
        BY <4>2, <4>3, Zenon
      <4>5. a = [text.address EXCEPT !.asPrinted = TRUE]
        BY <4>4
      <4>6. a.zeroes = 0 /\ a.forbidden = FALSE /\ a.asPrinted = TRUE
        BY <4>2, <4>5 DEF NoAddress
      <4>7. a = [family |-> a.family, zeroes |-> a.zeroes,
                 forbidden |-> a.forbidden, asPrinted |-> a.asPrinted]
        BY <3>3 DEF AddressRecords
      <4> HIDE DEF a
      <4> QED BY <4>1, <4>6, <4>7 DEF NoAddress
    <3> HIDE DEF a
    <3> QED BY <3>2, <3>3, <3>4 DEF IsText
  <2>5. CASE TypeMark
    <3>1. PICK m \in Marks :
             text' = [text EXCEPT !.mark = m, !.length = IF @ < 2 THEN 2 ELSE @]
      BY <2>5 DEF TypeMark
    <3> QED BY <3>1 DEF IsText
  <2>6. CASE UNCHANGED targetVars
    BY <2>6 DEF targetVars, IsText
  <2> QED BY <2>1, <2>2, <2>3, <2>4, <2>5, <2>6 DEF TargetNext
<1> QED
  BY <1>1, <1>2, PTL DEF TargetSpec

(* The spelling of an address does not matter.                             *)
LEMMA PrintedAddress ==
    ASSUME NEW t, IsText(t), IsAddress(t)
    PROVE  LET u == [t EXCEPT !.address.asPrinted = TRUE]
           IN  /\ IsAddress(u) /\ u.mark = t.mark /\ u.length = t.length /\ u.slash = t.slash
               /\ u.address.family = t.address.family /\ u.address.zeroes = t.address.zeroes
               /\ u.address.forbidden = t.address.forbidden
               /\ [u EXCEPT !.address.asPrinted = TRUE] = u
<1> DEFINE a == [t.address EXCEPT !.asPrinted = TRUE]
           u == [t EXCEPT !.address.asPrinted = TRUE]
<1>1. /\ a \in AddressRecords /\ a.family = t.address.family /\ a.zeroes = t.address.zeroes
      /\ a.forbidden = t.address.forbidden /\ a.asPrinted = TRUE
  BY DEF IsText, AddressRecords
<1>2. [a EXCEPT !.asPrinted = TRUE] = a
  BY <1>1 DEF AddressRecords
<1>3. u = [t EXCEPT !.address = a]
  BY DEF IsText
<1> HIDE DEF a, u
<1>4. /\ u.address = a /\ u.mark = t.mark /\ u.length = t.length /\ u.slash = t.slash
      /\ u = [address |-> u.address, labels |-> u.labels, slash |-> u.slash,
              mark |-> u.mark, length |-> u.length]
  BY <1>3 DEF IsText
<1>5. [u EXCEPT !.address.asPrinted = TRUE] = u
  BY <1>2, <1>4
<1>6. a # NoAddress
  BY <1>1 DEF IsText, IsAddress, NoAddress
<1>7. IsAddress(u)
  BY <1>4, <1>6 DEF IsAddress
<1> QED BY <1>1, <1>4, <1>5, <1>7 DEF u

(* The last label that is not empty.                                       *)
LEMMA LastLabel ==
    ASSUME NEW labels \in Seq(Labels)
    PROVE  /\ WithoutTrailingDots(labels) \in Seq(Labels)
           /\ LET n == Len(WithoutTrailingDots(labels))
              IN  /\ n \in 0..Len(labels)
                  /\ n > 0 => labels[n] # "empty"
                  /\ \A i \in 1..n : WithoutTrailingDots(labels)[i] = labels[i]
                  /\ \A i \in (n + 1)..Len(labels) : labels[i] = "empty"
<1> DEFINE I == {i \in 1..Len(labels) : labels[i] # "empty"}
           m == IF I # {} THEN Max(I) ELSE 0
<1>1. WithoutTrailingDots(labels) = SubSeq(labels, 1, m)
  BY DEF WithoutTrailingDots, SelectLastInSeq
<1>2. Len(labels) \in Nat
  OBVIOUS
<1>3. /\ m \in 0..Len(labels)
      /\ m > 0 => labels[m] # "empty"
      /\ \A i \in (m + 1)..Len(labels) : labels[i] = "empty"
  <2>1. CASE I = {}
    <3>1. m = 0
      BY <2>1
    <3> HIDE DEF m
    <3>2. \A i \in 1..Len(labels) : labels[i] = "empty"
      BY <2>1
    <3> QED BY <1>2, <3>1, <3>2
  <2>2. CASE I # {}
    <3>1. Max(I) \in I /\ \A i \in I : Max(I) >= i
      <4>1. I \in SUBSET (1..Len(labels))
        OBVIOUS
      <4> HIDE DEF I
      <4> QED BY <1>2, <2>2, <4>1, MentionsLoop!LargestExists DEF MentionsLoop!Max, Max
    <3>2. m = Max(I)
      BY <2>2
    <3>3. m \in I /\ \A i \in I : m >= i
      BY <3>1, <3>2
    <3> HIDE DEF m
    <3> QED BY <1>2, <3>3
  <2> QED BY <2>1, <2>2
<1> HIDE DEF m, I
<1>4. /\ SubSeq(labels, 1, m) \in Seq(Labels)
      /\ Len(SubSeq(labels, 1, m)) = m
      /\ \A i \in 1..m : SubSeq(labels, 1, m)[i] = labels[i]
  <2>1. /\ m \in Int /\ 1 \in Int /\ m >= 0 /\ m - 1 + 1 = m
        /\ \A i \in 1..m : labels[i] \in Labels
    BY <1>2, <1>3
  <2>2. /\ SubSeq(labels, 1, m) \in Seq(Labels)
        /\ Len(SubSeq(labels, 1, m)) = IF 1 <= m THEN m - 1 + 1 ELSE 0
        /\ \A i \in 1..(m - 1 + 1) : SubSeq(labels, 1, m)[i] = labels[1 + i - 1]
    BY <2>1, SubSeqProperties
  <2> QED BY <2>1, <2>2
<1> QED BY <1>1, <1>3, <1>4

LEMMA EncodedTwice ==
    ASSUME NEW l \in Labels
    PROVE  /\ Encoded(l) \in Labels
           /\ Encoded(l) \in {"lower", "xn--", "digits"} => Encoded(Encoded(l)) = Encoded(l)
<1>1. Encoded(l) \in Labels
  BY DEF Encoded, Labels
<1>2. Encoded("lower") = "lower" /\ Encoded("xn--") = "xn--" /\ Encoded("digits") = "digits"
  BY DEF Encoded
<1> QED BY <1>1, <1>2

(* The name that is stored: encoded, without the dots at its end.          *)
NameOf(t) == WithoutTrailingDots([i \in DOMAIN t.labels |-> Encoded(t.labels[i])])

LEMMA NameTyped ==
    ASSUME NEW t, IsText(t)
    PROVE  /\ [i \in DOMAIN t.labels |-> Encoded(t.labels[i])] \in Seq(Labels)
           /\ NameOf(t) \in Seq(Labels)
<1>1. t.labels \in Seq(Labels) /\ DOMAIN t.labels = 1..Len(t.labels) /\ Len(t.labels) \in Nat
  BY DEF IsText
<1>2. \A i \in 1..Len(t.labels) : Encoded(t.labels[i]) \in Labels
  BY <1>1, EncodedTwice
<1>3. [i \in DOMAIN t.labels |-> Encoded(t.labels[i])] \in Seq(Labels)
  BY <1>1, <1>2
<1> QED BY <1>3, LastLabel DEF NameOf

(* A name that is already encoded and has no dot at its end is its own.    *)
LEMMA NameOfName ==
    ASSUME NEW t, IsText(t), ToSet(NameOf(t)) \subseteq {"lower", "xn--", "digits"}
    PROVE  NameOf([t EXCEPT !.labels = NameOf(t)]) = NameOf(t)
<1> DEFINE name == NameOf(t)  u == [t EXCEPT !.labels = name]
           full == [i \in DOMAIN t.labels |-> Encoded(t.labels[i])]
           again == [i \in DOMAIN name |-> Encoded(name[i])]
<1>1. name \in Seq(Labels) /\ full \in Seq(Labels) /\ name = WithoutTrailingDots(full)
  BY NameTyped DEF NameOf
<1>2. u.labels = name
  BY DEF IsText
<1>3. \A i \in DOMAIN name : name[i] \in {"lower", "xn--", "digits"}
  BY DEF ToSet
<1>4. NameOf(u) = WithoutTrailingDots(again)
  BY <1>2 DEF NameOf
<1> HIDE DEF name, u, full
<1>5. again = name
  <2>1. Encoded("lower") = "lower" /\ Encoded("xn--") = "xn--" /\ Encoded("digits") = "digits"
    BY DEF Encoded
  <2>2. \A i \in DOMAIN name : again[i] = name[i]
    BY <1>3, <2>1
  <2>3. DOMAIN again = DOMAIN name
    OBVIOUS
  <2>4. again = [i \in DOMAIN name |-> name[i]] /\ name = [i \in DOMAIN name |-> name[i]]
    BY <1>1, <2>2
  <2> QED BY <2>4
<1> HIDE DEF again
<1> DEFINE n == Len(WithoutTrailingDots(name))
<1>6. /\ WithoutTrailingDots(name) \in Seq(Labels) /\ n \in 0..Len(name) /\ Len(name) \in Nat
      /\ \A i \in 1..n : WithoutTrailingDots(name)[i] = name[i]
      /\ \A i \in (n + 1)..Len(name) : name[i] = "empty"
      /\ DOMAIN name = 1..Len(name)
  BY <1>1, LastLabel
<1>7. n = Len(name)
  <2>1. SUFFICES ASSUME n < Len(name) PROVE FALSE
    BY <1>6
  <2> HIDE DEF n
  <2>2. Len(name) \in (n + 1)..Len(name) /\ Len(name) \in DOMAIN name
    BY <1>6, <2>1
  <2>3. name[Len(name)] = "empty"
    BY <1>6, <2>2
  <2> QED BY <1>3, <2>2, <2>3
<1>8. WithoutTrailingDots(name) = name
  BY <1>1, <1>6, <1>7
<1> QED BY <1>4, <1>5, <1>8 DEF name, u

(* What a domain name is stored as.                                        *)
LEMMA DomainShape ==
    ASSUME NEW t, IsText(t), DomainOrOrganization(t).type = "domain"
    PROVE  /\ DomainOrOrganization(t) = Classified("domain", [t EXCEPT !.labels = NameOf(t)])
           /\ ~(Len(NameOf(t)) < 2)
           /\ ToSet(NameOf(t)) \subseteq {"lower", "xn--", "digits"}
           /\ t.length <= 253 /\ Last(NameOf(t)) # "digits"
  BY DEF DomainOrOrganization, NameOf, Organization, Classified, Rejected

LEMMA ClassificationIsStable ==
    ASSUME NEW t, IsText(t), ClassifyTarget(t).type # "rejected"
    PROVE  ClassifyTarget(ClassifyTarget(t).normalized) = ClassifyTarget(t)
<1>1. ~(t.length = 0 \/ t.length > 512 \/ t.mark = "control")
  BY DEF ClassifyTarget, Rejected
<1> DEFINE u == [t EXCEPT !.address.asPrinted = TRUE]
<1>2. CASE t.slash # NoSlash
  <2>1. ClassifyTarget(t) = CidrOrPath(t)
    BY <1>1, <1>2 DEF ClassifyTarget
  <2>2. /\ IsAddress(t) /\ t.slash <= Bits(t.address)
        /\ Bits(t.address) - t.slash <= t.address.zeroes /\ t.slash >= Widest(t.address)
        /\ CidrOrPath(t) = Classified("cidr", u)
    BY <2>1 DEF CidrOrPath, Rejected
  <2>3. /\ IsAddress(u) /\ u.mark = t.mark /\ u.length = t.length /\ u.slash = t.slash
        /\ u.address.family = t.address.family /\ u.address.zeroes = t.address.zeroes
        /\ [u EXCEPT !.address.asPrinted = TRUE] = u
    BY <2>2, PrintedAddress
  <2> HIDE DEF u
  <2>4. CidrOrPath(u) = Classified("cidr", u)
    BY <2>2, <2>3 DEF CidrOrPath, Bits, Widest
  <2>5. ClassifyTarget(u) = CidrOrPath(u)
    BY <1>1, <1>2, <2>3 DEF ClassifyTarget
  <2>6. ClassifyTarget(t).normalized = u
    BY <2>1, <2>2 DEF Classified
  <2> QED BY <2>1, <2>2, <2>4, <2>5, <2>6
<1>3. CASE t.slash = NoSlash /\ IsAddress(t)
  <2>1. ClassifyTarget(t) = Ip(t)
    BY <1>1, <1>3 DEF ClassifyTarget
  <2>2. ~t.address.forbidden /\ Ip(t) = Classified("ip", u)
    BY <2>1 DEF Ip, Rejected
  <2>3. /\ IsAddress(u) /\ u.mark = t.mark /\ u.length = t.length /\ u.slash = t.slash
        /\ u.address.forbidden = t.address.forbidden
        /\ [u EXCEPT !.address.asPrinted = TRUE] = u
    BY <1>3, PrintedAddress
  <2> HIDE DEF u
  <2>4. Ip(u) = Classified("ip", u)
    BY <2>2, <2>3 DEF Ip
  <2>5. ClassifyTarget(u) = Ip(u)
    BY <1>1, <1>3, <2>3 DEF ClassifyTarget
  <2>6. ClassifyTarget(t).normalized = u
    BY <2>1, <2>2 DEF Classified
  <2> QED BY <2>1, <2>2, <2>4, <2>5, <2>6
<1>4. CASE t.slash = NoSlash /\ ~IsAddress(t)
  <2>1. t.mark = "none" /\ ClassifyTarget(t) = DomainOrOrganization(t)
    BY <1>1, <1>4 DEF ClassifyTarget, Rejected
  <2>2. CASE DomainOrOrganization(t).type = "domain"
    <3> DEFINE d == [t EXCEPT !.labels = NameOf(t)]
    <3>1. DomainOrOrganization(t) = Classified("domain", d)
      BY <2>2, DomainShape
    <3>2. ClassifyTarget(t).normalized = d
      BY <2>1, <3>1 DEF Classified
    <3>3. /\ d.address = t.address /\ d.slash = t.slash /\ d.mark = t.mark
          /\ d.length = t.length /\ d.labels = NameOf(t)
      BY DEF IsText
    <3>4. NameOf(d) = NameOf(t)
      BY <2>2, DomainShape, NameOfName
    <3>5. [d EXCEPT !.labels = NameOf(t)] = d
      BY DEF IsText
    <3> HIDE DEF d
    <3>6. DomainOrOrganization(d) = Classified("domain", [d EXCEPT !.labels = NameOf(d)])
      BY <2>2, <3>3, <3>4, DomainShape DEF DomainOrOrganization, NameOf
    <3>7. ClassifyTarget(d) = DomainOrOrganization(d)
      BY <1>1, <1>4, <2>1, <3>3 DEF ClassifyTarget, IsAddress
    <3> QED BY <2>1, <3>1, <3>2, <3>4, <3>5, <3>6, <3>7
  <2>3. CASE DomainOrOrganization(t).type # "domain"
    <3>1. DomainOrOrganization(t) = Classified("organization", t)
      BY <2>1, <2>3 DEF DomainOrOrganization, Organization, Classified, Rejected
    <3> QED BY <2>1, <3>1 DEF Classified
  <2> QED BY <2>2, <2>3
<1> QED BY <1>2, <1>3, <1>4

(* What create_job stores is its own normal form, for every text.          *)
THEOREM CanonicalFormsAreStable == TargetSpec => []CanonicalIsStable
<1>1. IsText(text) => CanonicalIsStable
  BY ClassificationIsStable DEF CanonicalIsStable
<1> QED
  BY <1>1, TextInvariant, PTL

(* Four labels of digits are never taken for a name.                       *)
LEMMA FourDigits ==
    ASSUME NEW t, IsText(t), t.labels = <<"digits", "digits", "digits", "digits">>
    PROVE  Len(NameOf(t)) >= 2 /\ Last(NameOf(t)) = "digits"
<1> DEFINE full == [i \in DOMAIN t.labels |-> Encoded(t.labels[i])]
           name == WithoutTrailingDots(full)
<1>1. full \in Seq(Labels) /\ NameOf(t) = name
  BY NameTyped DEF NameOf
<1>2. Len(t.labels) = 4 /\ DOMAIN t.labels = 1..4 /\ \A i \in 1..4 : t.labels[i] = "digits"
  OBVIOUS
<1>3. Encoded("digits") = "digits"
  BY DEF Encoded
<1>4. Len(full) = 4 /\ \A i \in 1..4 : full[i] = "digits"
  BY <1>1, <1>2, <1>3
<1> HIDE DEF full
<1>5. /\ name \in Seq(Labels) /\ Len(name) \in 0..4
      /\ \A i \in 1..Len(name) : name[i] = full[i]
      /\ \A i \in (Len(name) + 1)..4 : full[i] = "empty"
  BY <1>1, <1>4, LastLabel
<1> HIDE DEF name
<1>6. Len(name) = 4
  BY <1>4, <1>5
<1>7. Last(name) = "digits"
  BY <1>4, <1>5, <1>6 DEF Last
<1> QED BY <1>1, <1>6, <1>7

LEMMA PreviewAgrees ==
    ASSUME NEW t, IsText(t), CanLaunch(t), Accepted(t)
    PROVE  ClassifyPreview(t) = ClassifyTarget(t).type
<1>1. ~(t.length = 0 \/ t.length > 512 \/ t.mark = "control")
  BY DEF Accepted, ClassifyTarget, Rejected
<1>2. t.mark \notin {"://", "@", "*"}
  BY <1>1 DEF CanLaunch, ClassifyPreview
<1>3. CASE t.slash # NoSlash
  <2>1. ClassifyPreview(t) = "cidr"
    BY <1>1, <1>2, <1>3 DEF ClassifyPreview
  <2>2. ClassifyTarget(t) = CidrOrPath(t)
    BY <1>1, <1>3 DEF ClassifyTarget
  <2>3. CidrOrPath(t).type \in {"cidr", "rejected"}
    BY DEF CidrOrPath, Classified, Rejected
  <2> QED BY <2>1, <2>2, <2>3 DEF Accepted
<1>4. CASE t.slash = NoSlash /\ IsAddress(t)
  <2>1. t.mark = "none" /\ t.address.family \in {4, 6}
    BY <1>4 DEF IsAddress, IsText, AddressRecords
  <2>2. ClassifyPreview(t) = "ip"
    BY <1>1, <1>2, <1>4, <2>1 DEF ClassifyPreview, LooksLikeIPv4
  <2>3. ClassifyTarget(t) = Ip(t)
    BY <1>1, <1>4 DEF ClassifyTarget
  <2>4. Ip(t).type \in {"ip", "rejected"}
    BY DEF Ip, Classified, Rejected
  <2> QED BY <2>2, <2>3, <2>4 DEF Accepted
<1>5. CASE t.slash = NoSlash /\ ~IsAddress(t)
  <2>1. t.mark = "none" /\ ClassifyTarget(t) = DomainOrOrganization(t)
    BY <1>1, <1>5 DEF Accepted, ClassifyTarget, Rejected
  <2>2. DomainOrOrganization(t).type = "domain"
    BY <2>1 DEF Accepted, DomainOrOrganization, Organization, Classified, Rejected
  <2>3. t.address = NoAddress /\ t.address.family = 0
    BY <1>5, <2>1 DEF IsAddress, NoAddress
  <2>4. t.labels # <<"digits", "digits", "digits", "digits">>
    BY <2>2, DomainShape, FourDigits
  <2>5. ClassifyPreview(t) = IF LooksLikeDomain(t) THEN "domain"
                             ELSE IF t.length \notin 2..120 THEN "invalid" ELSE "organization"
    BY <1>1, <1>2, <1>5, <2>1, <2>3, <2>4 DEF ClassifyPreview, LooksLikeIPv4
  <2> QED BY <2>1, <2>2, <2>5 DEF CanLaunch
<1> QED BY <1>3, <1>4, <1>5

(* The two classifications agree on every text that both accept, of any    *)
(* number of labels and of any length.                                     *)
THEOREM PreviewIsRight == TargetSpec => []PreviewTellsTheType
<1>1. IsText(text) => PreviewTellsTheType
  BY PreviewAgrees DEF PreviewTellsTheType
<1> QED
  BY <1>1, TextInvariant, PTL
=============================================================================
