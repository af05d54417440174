------------------------ MODULE OrderPlacementProofs ------------------------
(***************************************************************************)
(* Proofs about OrderPlacement, for any requests, limits, windows and      *)
(* numbers of retries, ticks and faults.                                   *)
(***************************************************************************)
EXTENDS OrderPlacement, FiniteSetTheorems, SequenceTheorems, TLAPS

Waiting == DOMAIN queue
Submitted == {"reconcile", "persist"}

(* The chain of calls: each is in it once, from its call to its answer.    *)
QueueInv ==
  /\ \A m, n \in Waiting : queue[m] = queue[n] => m = n
  /\ \A r \in Request : outcome[r] = "queued" <=> \E n \in Waiting : queue[n] = r

(* The running call: before it has submitted an order it has no uuid; then *)
(* it has a state to record, and looks left while it looks.                *)
JobInv ==
  /\ job.at # "idle" => queue # <<>>
  /\ job.at \in Submitted => job.state # "none"
  /\ job.uuid \in Uuids \union {0} /\ job.asked \in Uuids \union {0}
  /\ job.at \notin Submitted => job.uuid = 0 /\ job.asked = 0
  /\ job.at # "persist" => job.looks < Looks
  /\ faults = 0 /\ job.at \in Submitted => job.asked # 0

(* An order is the request's own, or a lookup took it for that.            *)
Taken(r, placed, i) ==
  exchange[i].origin = r \/ (r \in overlooked /\ LooksAlike(r, placed, i))

(* Where the orders of the exchange come from: calls that are over, and the*)
(* one that is submitting or has submitted.                                *)
SourceInv ==
  /\ \A i \in Uuids :
       LET r == exchange[i].origin
       IN  /\ exchange[i].key \in {r, NoKey}
           /\ outcome[r] # "new"
           /\ outcome[r] = "queued" => job.at \in Submitted \union {"post"} /\ r = Head(queue)
  /\ job.at = "post" => \A i \in Uuids : exchange[i].origin = Head(queue) => ~exchange[i].answered
  /\ job.at \in Submitted =>
       \E i \in Uuids : exchange[i].origin = Head(queue) /\ exchange[i].placed = job.placed
  /\ job.asked # 0 => exchange[job.asked].origin = Head(queue)
  /\ job.uuid # 0 => Taken(Head(queue), job.placed, job.uuid)

(* A request has one record, and only if its call was answered "placed".   *)
RecordInv ==
  /\ IsFiniteSet(orders)
  /\ \A o \in orders : outcome[o.req] = "placed"
  /\ \A o, p \in orders : o.req = p.req => o = p

(* What is known of an order may be old, but is not wrong.                 *)
Agrees(uuid, state, placed) ==
  /\ uuid \in Uuids
  /\ state \in {"WAIT", exchange[uuid].state}
  /\ placed = exchange[uuid].placed

KnownInv ==
  faults = 0 =>
    /\ overlooked = {} /\ job.asked = job.uuid
    /\ job.at \in Submitted => Agrees(job.uuid, job.state, job.placed)
    /\ \A o \in orders : Agrees(o.uuid, o.state, o.placed)

(* A call that has passed the limits on open orders has room for its own.  *)
LiveOnes == {i \in Uuids : Live(i)}
LiveOf(symbol) == {i \in LiveOnes : Asks[exchange[i].origin].symbol = symbol}

RoomInv ==
  faults = 0 /\ job.at \in {"guard", "post"} =>
    /\ Cardinality(LiveOnes) < MaxOpenOrders
    /\ Cardinality(LiveOf(Asks[Head(queue)].symbol)) < MaxOpenPerSymbol

(* If all records are kept, a call that has passed the duplicate guard has *)
(* none like it before it that was not cancelled.                          *)
AllKept == ClosedKept = 0 \/ Cardinality(Request) <= ClosedKept

KeptInv ==
  faults = 0 /\ AllKept =>
    \A i \in Uuids : job.uuid = i \/ \E o \in orders : o.uuid = i

GuardInv ==
  faults = 0 /\ AllKept /\ job.at = "post" =>
    \A i \in Uuids :
      Similar(Head(queue), exchange[i].origin) /\ now - exchange[i].placed <= Window
        => exchange[i].state = "CANCELED"
(* Every step of Next, by name.                                            *)
LEMMA NextSteps ==
  ASSUME [Next]_vars
  PROVE  \/ \E r \in Request :
              \/ Call(r) \/ Run(r) \/ PrepareFails(r) \/ RiskRejects(r) \/ RiskPasses(r)
              \/ GuardRejects(r) \/ GuardPasses(r) \/ PostAnswered(r) \/ PostNotReached(r)
              \/ PostRefused(r) \/ LookSucceeds(r) \/ LookFails(r) \/ Persist(r)
              \/ PostUnreadable(r) \/ PostAnswerLost(r) \/ LookFallsBack(r) \/ PersistFails(r)
         \/ \E i \in Uuids : Close(i)
         \/ OtherUpdate \/ Crash \/ Tick \/ UNCHANGED vars
  BY DEF Next, Step, GoesWrong
-----------------------------------------------------------------------------
(* What the operators that several steps share do to the variables.        *)
JobSet == [at : Steps, path : {1, 2}, key : BOOLEAN, attempt : 0 .. MaxRetries,
           looks : 0 .. Looks, asked : Nat, uuid : Nat, state : OrderStates \union {"none"},
           placed : 0 .. MaxTime]
RecordSet == [req : Request, uuid : Nat, state : OrderStates, placed : 0 .. MaxTime, nth : Nat]
AcceptedSet == [key : Request \union {NoKey}, state : {"WAIT", "DONE", "CANCELED"},
                origin : Request, answered : BOOLEAN, placed : 0 .. MaxTime]

(* An accepted order comes after the others and leaves them as they are.   *)
LEMMA AcceptedGrows ==
  ASSUME TypeOK, NEW r \in Request, NEW state \in {"WAIT", "DONE"}, NEW answered \in BOOLEAN,
         Accepted(r, state, answered)
  PROVE  /\ exchange' \in Seq(AcceptedSet)
         /\ Uuids = 1 .. Len(exchange) /\ Uuids' = 1 .. Len(exchange) + 1
         /\ \A i \in Uuids : exchange'[i] = exchange[i]
         /\ LET new == exchange'[Len(exchange) + 1]
            IN  /\ new.key \in {r, NoKey} /\ new.state = state /\ new.origin = r
                /\ new.answered = answered /\ new.placed = now
<1> DEFINE key == IF job.key THEN r ELSE NoKey
           new == [key |-> key, state |-> state, origin |-> r,
                   answered |-> answered, placed |-> now]
<1>1. key \in {r, NoKey}
  OBVIOUS
<1>2. exchange \in Seq(AcceptedSet) /\ now \in 0 .. MaxTime
  BY DEF TypeOK, AcceptedSet
<1>3. exchange' = Append(exchange, new)
  BY DEF Accepted
<1> HIDE DEF key
<1>4. new \in AcceptedSet
  BY <1>1, <1>2 DEF AcceptedSet
<1>5. /\ new.key \in {r, NoKey} /\ new.state = state /\ new.origin = r
      /\ new.answered = answered /\ new.placed = now
  BY <1>1
<1> HIDE DEF new
<1> QED
  BY <1>2, <1>3, <1>4, <1>5, AppendProperties DEF Uuids

(* The exchange closes an order: all else of it, and the others, stay.     *)
LEMMA CloseOne ==
  ASSUME TypeOK, NEW i \in Uuids, Close(i)
  PROVE  /\ exchange' \in Seq(AcceptedSet) /\ Uuids' = Uuids
         /\ \A k \in Uuids :
              /\ exchange'[k].key = exchange[k].key
              /\ exchange'[k].origin = exchange[k].origin
              /\ exchange'[k].answered = exchange[k].answered
              /\ exchange'[k].placed = exchange[k].placed
              /\ k # i => exchange'[k].state = exchange[k].state
         /\ exchange[i].state = "WAIT" /\ exchange'[i].state \in {"DONE", "CANCELED"}
<1>1. PICK state \in {"DONE", "CANCELED"} : exchange' = [exchange EXCEPT ![i].state = state]
  BY DEF Close
<1>2. exchange \in Seq(AcceptedSet) /\ Uuids = 1 .. Len(exchange) /\ exchange[i].state = "WAIT"
  BY DEF TypeOK, AcceptedSet, Uuids, Close, Live
<1> DEFINE closed == [exchange[i] EXCEPT !.state = state]
<1>3. exchange[i] \in AcceptedSet
  BY <1>2
<1>4. /\ closed \in AcceptedSet /\ closed.key = exchange[i].key
      /\ closed.origin = exchange[i].origin /\ closed.answered = exchange[i].answered
      /\ closed.placed = exchange[i].placed /\ closed.state = state
  BY <1>3 DEF AcceptedSet
<1>5. exchange' = [exchange EXCEPT ![i] = closed]
  BY <1>1
<1> HIDE DEF closed
<1>6. /\ exchange' \in Seq(AcceptedSet) /\ Len(exchange') = Len(exchange)
      /\ \A k \in 1 .. Len(exchange) : exchange'[k] = IF k = i THEN closed ELSE exchange[k]
  BY <1>2, <1>4, <1>5, ExceptSeq
<1> QED
  BY <1>2, <1>4, <1>6 DEF Uuids

(* A call is answered: it leaves the chain, and the others stay in it.     *)
LEMMA AnswerMoves ==
  ASSUME TypeOK, NEW r \in Request, Running(r), NEW result \in Outcomes, Answer(r, result)
  PROVE  /\ outcome' \in [Request -> Outcomes] /\ outcome'[r] = result
         /\ \A q \in Request : q # r => outcome'[q] = outcome[q]
         /\ queue' \in Seq(Request) /\ 1 \in Waiting /\ queue[1] = r
         /\ \A n \in Waiting' : n + 1 \in Waiting /\ queue'[n] = queue[n + 1]
         /\ \A n \in Waiting : n # 1 => n - 1 \in Waiting' /\ queue'[n - 1] = queue[n]
         /\ job' = Idle
<1>1. queue \in Seq(Request) /\ queue # <<>> /\ queue' = Tail(queue) /\ r = Head(queue)
  BY DEF TypeOK, Running, Answer
<1>2. /\ queue' \in Seq(Request) /\ Len(queue) \in Nat /\ Len(queue) # 0
      /\ Len(queue') = Len(queue) - 1
      /\ \A n \in 1 .. Len(queue') : queue'[n] = queue[n + 1]
  BY <1>1, HeadTailProperties, EmptySeq
<1>3. /\ Waiting = 1 .. Len(queue) /\ Waiting' = 1 .. Len(queue')
      /\ queue[1] = r
  BY <1>1, <1>2 DEF Waiting
<1> QED
  BY <1>2, <1>3 DEF Answer, TypeOK

(* The retention only drops records.                                       *)
LEMMA RetainedSubset == ASSUME NEW S PROVE Retained(S) \subseteq S
  BY DEF Retained

(* No call at all is a call of the right type.                             *)
LEMMA IdleType == Idle \in JobSet
  BY LimitAssumption DEF Idle, JobSet, Steps
-----------------------------------------------------------------------------
(* Type correctness.                                                       *)
Types == TypeOK /\ JobInv

(* The types, as sets.                                                     *)
LEMMA TypeSets ==
  TypeOK <=> /\ outcome \in [Request -> Outcomes] /\ queue \in Seq(Request)
             /\ job \in JobSet /\ orders \subseteq RecordSet /\ exchange \in Seq(AcceptedSet)
             /\ now \in 0 .. MaxTime /\ faults \in 0 .. MaxFaults /\ overlooked \subseteq Request
  BY DEF TypeOK, JobSet, RecordSet, AcceptedSet

(* A fault leaves the count of faults in its bounds, and above zero.       *)
LEMMA FaultType == ASSUME TypeOK, Fault PROVE faults' \in 0 .. MaxFaults /\ faults' # 0
  BY LimitAssumption DEF Fault, TypeOK

(* The steps that end a call, apart from Persist.                          *)
LEMMA EndStep ==
  ASSUME Types, NEW r \in Request, Running(r), NEW result \in Outcomes, Answer(r, result),
         orders' \subseteq RecordSet, exchange' \in Seq(AcceptedSet),
         now' = now, faults' \in 0 .. MaxFaults, overlooked' \subseteq Request
  PROVE  Types'
<1>1. TypeOK'
  BY AnswerMoves, IdleType, TypeSets DEF Types, TypeOK, JobSet, RecordSet, AcceptedSet
<1>2. JobInv'
  BY AnswerMoves, LimitAssumption DEF Types, JobInv, Idle, Submitted
<1> QED
  BY <1>1, <1>2 DEF Types

(* The steps of a running call that go on with it.                         *)
LEMMA GoOnStep ==
  ASSUME Types, NEW r \in Request, Running(r), UNCHANGED <<outcome, queue, orders, now>>,
         job' \in JobSet,
         job'.at \in Submitted => job'.state # "none",
         job'.uuid \in Uuids' \union {0}, job'.asked \in Uuids' \union {0},
         job'.at \notin Submitted => job'.uuid = 0 /\ job'.asked = 0,
         job'.at # "persist" => job'.looks < Looks,
         faults' = 0 /\ job'.at \in Submitted => job'.asked # 0,
         exchange' \in Seq(AcceptedSet), faults' \in 0 .. MaxFaults, overlooked' \subseteq Request
  PROVE  Types'
<1>1. TypeOK'
  BY TypeSets DEF Types, TypeOK, JobSet, RecordSet, AcceptedSet
<1>2. JobInv'
  BY DEF Types, JobInv, Running
<1> QED
  BY <1>1, <1>2 DEF Types

(* A POST without an answer keeps the types.                               *)
LEMMA NothingAnswered ==
  ASSUME Types, NEW r \in Request, At(r, "post"), NoAnswer(r), orders' = orders, now' = now,
         exchange' \in Seq(AcceptedSet), faults' \in 0 .. MaxFaults, overlooked' \subseteq Request
  PROVE  Types'
<1>0. job.uuid = 0 /\ job.asked = 0
  BY DEF Types, JobInv, At, Submitted
<1>1. job \in JobSet /\ orders \subseteq RecordSet
  BY TypeSets DEF Types
<1>2. CASE job.attempt < MaxRetries
  <2>1. job' = [job EXCEPT !.attempt = @ + 1] /\ UNCHANGED <<outcome, queue>>
    BY <1>2 DEF NoAnswer
  <2>2. job.attempt + 1 \in 0 .. MaxRetries
    BY <1>1, <1>2, LimitAssumption DEF JobSet
  <2>3. /\ job' \in JobSet /\ job'.at = job.at /\ job'.uuid = job.uuid
        /\ job'.asked = job.asked /\ job'.state = job.state /\ job'.looks = job.looks
    BY <1>1, <2>1, <2>2 DEF JobSet
  <2> QED
    BY <1>0, <2>1, <2>3, GoOnStep DEF At, Types, JobInv, Submitted
<1>3. CASE ~(job.attempt < MaxRetries)
  BY <1>1, <1>3, EndStep DEF NoAnswer, At, Outcomes
<1> QED
  BY <1>2, <1>3

(* What is recorded is a record.                                           *)
LEMMA RecordType ==
  ASSUME Types, NEW r \in Request, At(r, "persist")
  PROVE  Record(r) \in RecordSet
<1>1. job \in JobSet /\ job.state # "none"
  BY TypeSets DEF Types, JobInv, At, Submitted
<1>2. Cardinality({q \in Request : outcome[q] = "placed"}) \in Nat
  BY RequestAssumption, FS_Subset, FS_CardinalityType
<1>3. orders \subseteq RecordSet
  BY TypeSets DEF Types
<1>4. SameOrder # {} => (CHOOSE o \in SameOrder : TRUE).nth \in Nat
  <2>1. SameOrder # {} => (CHOOSE o \in SameOrder : TRUE) \in SameOrder
    OBVIOUS
  <2>2. SameOrder \subseteq RecordSet
    BY <1>3 DEF SameOrder
  <2> QED
    BY <2>1, <2>2 DEF RecordSet
<1> QED
  BY <1>1, <1>2, <1>4 DEF Record, RecordSet, JobSet

(* What the lists give is a row of them: the request's own order if they   *)
(* show it, or else one that looks like it.                                *)
LEMMA MatchType ==
  ASSUME NEW r, NEW rows \in SUBSET Uuids, NEW i \in ListMatch(r, rows)
  PROVE  i \in rows /\ (exchange[i].key = r \/ LooksAlike(r, job.placed, i))
  BY DEF ListMatch, OfKey

(* What a lookup finds is an order of the exchange.                        *)
LEMMA FoundType ==
  ASSUME Types, NEW r \in Request, NEW i \in Found(r)
  PROVE  i \in Uuids
<1>1. job.asked \in Uuids \union {0}
  BY DEF Types, JobInv
<1> QED
  BY <1>1, MatchType DEF Found

(* What a lookup that succeeds does to the call.                           *)
LEMMA RefreshedJob ==
  ASSUME Types, NEW r \in Request, At(r, "reconcile"), NEW i \in Uuids
  PROVE  LET next == Refreshed(i)
         IN  /\ next \in JobSet /\ next.at \in Submitted
             /\ next.uuid = i /\ next.state = exchange[i].state /\ next.state # "none"
             /\ next.asked = job.asked /\ next.placed = job.placed
             /\ next.at # "persist" => next.looks < Looks
<1> DEFINE state == exchange[i].state
           step == IF job.looks + 1 = Looks \/ ~Live(i) THEN "persist" ELSE job.at
<1>1. /\ job \in JobSet /\ exchange \in Seq(AcceptedSet) /\ JobInv
      /\ Looks \in Nat \ {0} /\ i \in Nat
  BY TypeSets, LimitAssumption DEF Types, Uuids
<1>2. exchange[i] \in AcceptedSet
  BY <1>1 DEF Uuids
<1>3. job.at = "reconcile" /\ job.looks < Looks /\ job.looks \in Nat
  BY <1>1 DEF At, JobInv, JobSet
<1>4. /\ state \in OrderStates /\ state # "none" /\ step \in {"reconcile", "persist"}
      /\ step = "reconcile" => job.looks + 1 < Looks
  BY <1>1, <1>2, <1>3 DEF AcceptedSet, OrderStates, OpenStates
<1>5. job.looks + 1 \in 0 .. Looks
  BY <1>1, <1>3
<1> HIDE DEF state, step
<1>6. Refreshed(i) = [job EXCEPT !.uuid = i, !.state = state, !.looks = @ + 1, !.at = step]
  BY DEF Refreshed, state, step
<1>7. LET next == Refreshed(i)
      IN  /\ next \in JobSet /\ next.at = step /\ next.uuid = i /\ next.state = state
          /\ next.asked = job.asked /\ next.placed = job.placed /\ next.looks = job.looks + 1
  BY <1>1, <1>4, <1>5, <1>6 DEF JobSet, Steps
<1> QED
  BY <1>4, <1>7 DEF Submitted, state

(* A lookup takes over an order of the exchange.                           *)
LEMMA LooksUp ==
  ASSUME Types, NEW r \in Request, LookSucceeds(r) \/ LookFallsBack(r)
  PROVE  /\ At(r, "reconcile") /\ UNCHANGED <<outcome, queue, orders, exchange, now>>
         /\ \E i \in Uuids : job' = Refreshed(i)
  BY FoundType, MatchType DEF LookSucceeds, LookFallsBack

(* Every step keeps the types.                                             *)
LEMMA TypesStep == Types /\ [Next]_vars => Types'
<1> SUFFICES ASSUME Types, [Next]_vars PROVE Types'
  OBVIOUS
<1>0. /\ outcome \in [Request -> Outcomes] /\ queue \in Seq(Request)
      /\ job \in JobSet /\ orders \subseteq RecordSet /\ exchange \in Seq(AcceptedSet)
      /\ now \in 0 .. MaxTime /\ faults \in 0 .. MaxFaults /\ overlooked \subseteq Request
      /\ TypeOK /\ JobInv
  BY TypeSets DEF Types
<1>r. Retained(orders) \subseteq RecordSet
  BY <1>0, RetainedSubset
<1>l. Looks \in Nat \ {0} /\ MaxRetries \in Nat /\ MaxTime \in Nat
  BY LimitAssumption
<1>1. ASSUME NEW r \in Request, Call(r) PROVE Types'
  <2>1. /\ outcome' \in [Request -> Outcomes]
        /\ UNCHANGED <<job, orders, exchange, now, faults, overlooked>>
    BY <1>0, <1>1 DEF Call, Outcomes
  <2>2. queue' \in Seq(Request) /\ queue' # <<>>
    BY <1>0, <1>1, AppendProperties, EmptySeq DEF Call
  <2>3. TypeOK'
    BY <1>0, <2>1, <2>2 DEF TypeOK
  <2>4. JobInv'
    BY <1>0, <2>1, <2>2 DEF JobInv, Uuids
  <2> QED
    BY <2>3, <2>4 DEF Types
<1>2. ASSUME NEW r \in Request, Run(r) PROVE Types'
  <2>1. job' = [Idle EXCEPT !.at = "risk"]
    BY <1>2 DEF Run
  <2>2. /\ job' \in JobSet /\ job'.at = "risk" /\ job'.uuid = 0 /\ job'.asked = 0
        /\ job'.looks = 0
    BY <2>1, IdleType DEF Idle, JobSet, Steps
  <2>3. Running(r) /\ UNCHANGED <<outcome, queue, orders, exchange, now, faults, overlooked>>
    BY <1>2 DEF Run, At
  <2>4. job'.at \notin Submitted /\ job'.looks < Looks
    BY <1>l, <2>2 DEF Submitted
  <2>5. job'.uuid \in Uuids' \union {0} /\ job'.asked \in Uuids' \union {0}
    BY <2>2
  <2> QED
    BY <1>0, <2>2, <2>3, <2>4, <2>5, GoOnStep DEF Submitted
<1>3. ASSUME NEW r \in Request, PrepareFails(r) PROVE Types'
  BY <1>0, <1>3, EndStep DEF PrepareFails, At, Outcomes
<1>4. ASSUME NEW r \in Request, RiskRejects(r) PROVE Types'
  BY <1>0, <1>r, <1>4, EndStep DEF RiskRejects, At, Outcomes
<1>5. ASSUME NEW r \in Request, RiskPasses(r) \/ GuardPasses(r) PROVE Types'
  <2>1. PICK step \in {"guard", "post"} : job' = [job EXCEPT !.at = step]
    BY <1>5 DEF RiskPasses, GuardPasses
  <2>2. /\ job' \in JobSet /\ job'.at = step /\ job'.uuid = job.uuid /\ job'.looks = job.looks
        /\ job'.asked = job.asked
    BY <1>0, <2>1 DEF JobSet, Steps
  <2>3. /\ job.uuid = 0 /\ job.asked = 0 /\ job.looks < Looks
        /\ UNCHANGED <<outcome, queue, orders, exchange, now, faults, overlooked>> /\ Running(r)
    BY <1>0, <1>5 DEF JobInv, RiskPasses, GuardPasses, At, Submitted
  <2> QED
    BY <1>0, <2>2, <2>3, GoOnStep DEF Submitted
<1>6. ASSUME NEW r \in Request, GuardRejects(r) PROVE Types'
  BY <1>0, <1>r, <1>6, EndStep DEF GuardRejects, At, Outcomes
<1>7. ASSUME NEW r \in Request, PostAnswered(r) PROVE Types'
  <2>1. PICK state \in {"WAIT", "DONE"} :
          /\ Accepted(r, state, TRUE)
          /\ job' = [job EXCEPT !.at = IF state = "WAIT" THEN "reconcile" ELSE "persist",
                                !.asked = Len(exchange) + 1, !.uuid = Len(exchange) + 1, !.state = state, !.placed = now]
    BY <1>7 DEF PostAnswered
  <2>2. exchange' \in Seq(AcceptedSet) /\ Uuids' = 1 .. Len(exchange) + 1
    BY <1>0, <2>1, AcceptedGrows
  <2>3. Len(exchange) \in Nat
    BY <1>0
  <2> DEFINE step == IF state = "WAIT" THEN "reconcile" ELSE "persist"
             uuid == Len(exchange) + 1
  <2>c. uuid \in Uuids' /\ uuid # 0
    BY <2>2, <2>3
  <2>a. /\ step \in {"reconcile", "persist"} /\ uuid \in Nat /\ uuid \in Uuids' /\ uuid # 0
        /\ state \in OrderStates /\ state # "none"
    BY <2>3, <2>c DEF OrderStates, OpenStates
  <2>b. job' = [job EXCEPT !.at = step, !.asked = uuid, !.uuid = uuid, !.state = state,
                           !.placed = now]
    BY <2>1
  <2> HIDE DEF step, uuid
  <2>4. /\ job' \in JobSet /\ job'.at = step /\ job'.state = state
        /\ job'.looks = job.looks /\ job'.uuid = uuid /\ job'.asked = uuid
    BY <1>0, <2>a, <2>b DEF JobSet, Steps
  <2>5. job.looks < Looks
    BY <1>0, <1>7 DEF JobInv, PostAnswered, At
  <2> QED
    BY <1>0, <1>7, <2>2, <2>a, <2>4, <2>5, GoOnStep DEF PostAnswered, At, Submitted
<1>8. ASSUME NEW r \in Request, PostNotReached(r) PROVE Types'
  BY <1>0, <1>8, NothingAnswered DEF PostNotReached
<1>9. ASSUME NEW r \in Request, PostRefused(r) PROVE Types'
  <2>1. CASE \E p \in {1, 2}, k \in BOOLEAN :
               /\ job' = [job EXCEPT !.path = p, !.key = k, !.attempt = 0]
               /\ UNCHANGED <<outcome, queue>>
    <3>1. PICK p \in {1, 2}, k \in BOOLEAN : job' = [job EXCEPT !.path = p, !.key = k, !.attempt = 0]
      BY <2>1
    <3>2. 0 \in 0 .. MaxRetries
      BY <1>l
    <3>3. job' \in JobSet
      BY <1>0, <3>1, <3>2 DEF JobSet
    <3>4. /\ job'.at = job.at /\ job'.uuid = job.uuid /\ job'.asked = job.asked
          /\ job'.looks = job.looks
      BY <1>0, <3>1 DEF JobSet
    <3> QED
      BY <1>0, <1>9, <2>1, <3>3, <3>4, GoOnStep DEF PostRefused, At, Submitted, JobInv
  <2>2. CASE Answer(r, "failed")
    BY <1>0, <1>9, <2>2, EndStep DEF PostRefused, At, Outcomes
  <2>3. job.path \in {1, 2} /\ job = [job EXCEPT !.path = job.path]
    BY <1>0 DEF JobSet
  <2>4. [job EXCEPT !.key = FALSE, !.attempt = 0]
          = [job EXCEPT !.path = job.path, !.key = FALSE, !.attempt = 0]
    BY <2>3
  <2> QED
    BY <1>9, <2>1, <2>2, <2>3, <2>4 DEF PostRefused
<1>10. ASSUME NEW r \in Request, LookSucceeds(r) \/ LookFallsBack(r) PROVE Types'
  <2>1. PICK i \in Uuids : job' = Refreshed(i)
    BY <1>10, LooksUp
  <2>2. At(r, "reconcile") /\ UNCHANGED <<outcome, queue, orders, exchange, now>>
    BY <1>10, LooksUp
  <2>3. faults' \in 0 .. MaxFaults /\ overlooked' \subseteq Request
    BY <1>0, <1>10, FaultType DEF LookSucceeds, LookFallsBack
  <2>4. /\ job' \in JobSet /\ job'.at \in Submitted /\ job'.uuid = i /\ job'.state # "none"
        /\ job'.asked = job.asked
        /\ job'.at # "persist" => job'.looks < Looks
    BY <2>1, <2>2, RefreshedJob
  <2>5. job'.uuid \in Uuids' \union {0} /\ job'.asked \in Uuids' \union {0}
    BY <1>0, <2>2, <2>4 DEF JobInv, Uuids
  <2>6. exchange' \in Seq(AcceptedSet) /\ Running(r)
    BY <1>0, <2>2 DEF At
  <2>7. faults' = 0 => job'.asked # 0
    <3>1. faults = 0 => job.asked # 0
      BY <1>0, <2>2 DEF JobInv, At, Submitted
    <3> QED
      BY <1>0, <1>10, <2>4, <3>1, FaultType DEF LookSucceeds, LookFallsBack
  <2> QED
    BY <2>2, <2>3, <2>4, <2>5, <2>6, <2>7, GoOnStep
<1>11. ASSUME NEW r \in Request, LookFails(r) PROVE Types'
  <2>0. /\ job.at = "reconcile" /\ job.state # "none" /\ job.looks < Looks /\ Running(r)
        /\ UNCHANGED <<outcome, queue, orders, exchange, now, faults, overlooked>>
    BY <1>0, <1>11 DEF LookFails, At, JobInv, Submitted
  <2>1. CASE job' = [job EXCEPT !.at = "persist"]
    <3>1. /\ job' \in JobSet /\ job'.at = "persist" /\ job'.state = job.state
          /\ job'.uuid = job.uuid /\ job'.asked = job.asked
      BY <1>0, <2>1 DEF JobSet, Steps
    <3> QED
      BY <1>0, <2>0, <3>1, GoOnStep DEF Submitted, Uuids, JobInv
  <2>2. CASE job.looks + 1 < Looks /\ job' = [job EXCEPT !.looks = @ + 1]
    <3>1. job.looks + 1 \in 0 .. Looks
      BY <1>0, <1>l, <2>2 DEF JobSet
    <3>2. /\ job' \in JobSet /\ job'.at = job.at /\ job'.state = job.state
          /\ job'.looks = job.looks + 1 /\ job'.uuid = job.uuid /\ job'.asked = job.asked
      BY <1>0, <2>2, <3>1 DEF JobSet
    <3> QED
      BY <1>0, <2>0, <2>2, <3>2, GoOnStep DEF Submitted, Uuids, JobInv
  <2> QED
    BY <1>11, <2>1, <2>2 DEF LookFails
<1>12. ASSUME NEW r \in Request, Persist(r) PROVE Types'
  <2>1. orders' \subseteq RecordSet
    BY <1>0, <1>12, RecordType, RetainedSubset DEF Persist
  <2> QED
    BY <1>0, <1>12, <2>1, EndStep DEF Persist, At, Outcomes
<1>13. ASSUME NEW r \in Request, PostUnreadable(r) PROVE Types'
  <2>1. exchange' \in Seq(AcceptedSet)
    BY <1>0, <1>13, AcceptedGrows DEF PostUnreadable
  <2>2. job' = [job EXCEPT !.at = "reconcile", !.state = "UNKNOWN_SUBMIT", !.placed = now]
    BY <1>13 DEF PostUnreadable
  <2>s. "UNKNOWN_SUBMIT" \in OrderStates
    BY DEF OrderStates, OpenStates
  <2>3. /\ job' \in JobSet /\ job'.at = "reconcile" /\ job'.state = "UNKNOWN_SUBMIT"
        /\ job'.looks = job.looks /\ job'.uuid = job.uuid /\ job'.asked = job.asked
    BY <1>0, <2>s, <2>2 DEF JobSet, Steps
  <2>4. job.looks < Looks /\ job.uuid = 0 /\ job.asked = 0
    BY <1>0, <1>13 DEF JobInv, PostUnreadable, At, Submitted
  <2> QED
    BY <1>0, <1>13, <2>1, <2>3, <2>4, FaultType, GoOnStep DEF PostUnreadable, At, Submitted
<1>14. ASSUME NEW r \in Request, PostAnswerLost(r) PROVE Types'
  <2>1. exchange' \in Seq(AcceptedSet)
    BY <1>0, <1>14, AcceptedGrows DEF PostAnswerLost
  <2> QED
    BY <1>0, <1>14, <2>1, FaultType, NothingAnswered DEF PostAnswerLost
<1>15. ASSUME NEW r \in Request, PersistFails(r) PROVE Types'
  BY <1>0, <1>15, FaultType, EndStep DEF PersistFails, At, Outcomes
<1>16. ASSUME NEW i \in Uuids, Close(i) PROVE Types'
  <2>1. exchange' \in Seq(AcceptedSet) /\ Uuids' = Uuids
    BY <1>0, <1>16, CloseOne
  <2>2. UNCHANGED <<outcome, queue, job, orders, now, faults, overlooked>>
    BY <1>16 DEF Close
  <2> QED
    BY <1>0, <2>1, <2>2 DEF Types, TypeOK, JobInv, AcceptedSet
<1>17. CASE OtherUpdate
  BY <1>0, <1>r, <1>17 DEF OtherUpdate, Types, TypeOK, JobInv, Uuids, RecordSet
<1>18. CASE Crash
  <2>1. /\ outcome' \in [Request -> Outcomes] /\ queue' = <<>> /\ job' = Idle
        /\ orders' \subseteq RecordSet /\ UNCHANGED <<exchange, now, overlooked>>
        /\ faults' \in 0 .. MaxFaults
    BY <1>0, <1>r, <1>18, FaultType DEF Crash, Outcomes
  <2>2. TypeOK'
    BY <1>0, <2>1, IdleType DEF TypeOK, JobSet, RecordSet
  <2>3. JobInv'
    BY <1>l, <2>1 DEF JobInv, Idle, Submitted
  <2> QED
    BY <2>2, <2>3 DEF Types
<1>19. CASE Tick
  BY <1>0, <1>l, <1>19 DEF Tick, Types, TypeOK, JobInv, Uuids
<1>20. CASE UNCHANGED vars
  BY <1>0, <1>20 DEF vars, Types, TypeOK, JobInv, Uuids
<1> QED
  BY <1>1, <1>2, <1>3, <1>4, <1>5, <1>6, <1>7, <1>8, <1>9, <1>10, <1>11, <1>12, <1>13, <1>14,
     <1>15, <1>16, <1>17, <1>18, <1>19, <1>20, NextSteps


(* The types, at the start.                                                *)
LEMMA TypesInit == Init => Types
<1> SUFFICES ASSUME Init PROVE Types
  OBVIOUS
<1>1. TypeOK
  BY IdleType, LimitAssumption, EmptySeq DEF Init, TypeOK, JobSet, Outcomes
<1>2. JobInv
  BY LimitAssumption DEF Init, JobInv, Idle, Submitted
<1> QED
  BY <1>1, <1>2 DEF Types

(* The records, the orders of the exchange and the locals of placeOrder    *)
(* stay what they should be; a lookup finds an order that exists.          *)
THEOREM TypeCorrect == Spec => []TypeOK
<1>1. Types => TypeOK
  BY DEF Types
<1> QED
  BY <1>1, TypesInit, TypesStep, PTL DEF Spec
-----------------------------------------------------------------------------
(* What a step may do to the calls, to the exchange and to the records.    *)
Over == Outcomes \ {"new", "queued"}

Ends(r) == Running(r) /\ job.at # "idle" /\ \E result \in Over : Answer(r, result)

(* A step begins a call, ends one, ends them all, or none.                 *)
LEMMA CallSteps ==
  ASSUME Types, [Next]_vars
  PROVE  \/ \E r \in Request : Call(r)
         \/ \E r \in Request : Ends(r)
         \/ Crash
         \/ UNCHANGED <<outcome, queue>>
<1>1. ASSUME NEW r \in Request, NoAnswer(r), At(r, "post") PROVE Ends(r) \/ UNCHANGED <<outcome, queue>>
  BY <1>1 DEF NoAnswer, At, Ends, Over, Outcomes
<1>2. ASSUME NEW r \in Request,
             \/ PrepareFails(r) \/ RiskRejects(r) \/ GuardRejects(r) \/ Persist(r) \/ PersistFails(r)
      PROVE  Ends(r)
  BY <1>2 DEF PrepareFails, RiskRejects, GuardRejects, Persist, PersistFails, At, Ends, Over, Outcomes
<1>3. ASSUME NEW r \in Request, PostRefused(r) PROVE Ends(r) \/ UNCHANGED <<outcome, queue>>
  BY <1>3 DEF PostRefused, At, Ends, Over, Outcomes
<1>4. ASSUME NEW r \in Request,
             \/ Run(r) \/ RiskPasses(r) \/ GuardPasses(r) \/ PostAnswered(r) \/ LookSucceeds(r)
             \/ LookFails(r) \/ PostUnreadable(r) \/ LookFallsBack(r)
      PROVE  UNCHANGED <<outcome, queue>>
  BY <1>4 DEF Run, RiskPasses, GuardPasses, PostAnswered, LookSucceeds, LookFails, PostUnreadable,
     LookFallsBack
<1>5. ASSUME (\E i \in Uuids : Close(i)) \/ OtherUpdate \/ Tick \/ UNCHANGED vars
      PROVE  UNCHANGED <<outcome, queue>>
  BY <1>5 DEF Close, OtherUpdate, Tick, vars
<1>6. ASSUME NEW r \in Request, PostNotReached(r) \/ PostAnswerLost(r)
      PROVE  Ends(r) \/ UNCHANGED <<outcome, queue>>
  BY <1>1, <1>6 DEF PostNotReached, PostAnswerLost
<1> QED
  BY <1>2, <1>3, <1>4, <1>5, <1>6, NextSteps

Accepts(r) == /\ At(r, "post")
              /\ \E state \in {"WAIT", "DONE"}, answered \in BOOLEAN : Accepted(r, state, answered)

(* A step adds an order to the exchange, closes one, or neither.           *)
LEMMA ExchangeSteps ==
  ASSUME Types, [Next]_vars
  PROVE  \/ \E r \in Request : Accepts(r)
         \/ \E i \in Uuids : Close(i)
         \/ exchange' = exchange
<1>1. ASSUME NEW r \in Request, PostAnswered(r) \/ PostUnreadable(r) \/ PostAnswerLost(r)
      PROVE  Accepts(r)
  <2>1. TRUE \in BOOLEAN /\ FALSE \in BOOLEAN
    OBVIOUS
  <2> QED
    BY <1>1, <2>1 DEF PostAnswered, PostUnreadable, PostAnswerLost, Accepts
<1>2. ASSUME NEW r \in Request,
             \/ Call(r) \/ Run(r) \/ PrepareFails(r) \/ RiskRejects(r) \/ RiskPasses(r)
             \/ GuardRejects(r) \/ GuardPasses(r) \/ PostNotReached(r)
             \/ PostRefused(r) \/ LookSucceeds(r) \/ LookFails(r) \/ LookFallsBack(r)
             \/ Persist(r) \/ PersistFails(r)
      PROVE  exchange' = exchange
  BY <1>2 DEF Call, Run, PrepareFails, RiskRejects, RiskPasses, GuardRejects, GuardPasses,
     PostNotReached, PostRefused, LookSucceeds, LookFails, LookFallsBack, Persist, PersistFails
<1>3. ASSUME OtherUpdate \/ Crash \/ Tick \/ UNCHANGED vars PROVE exchange' = exchange
  BY <1>3 DEF OtherUpdate, Crash, Tick, vars
<1> QED
  BY <1>1, <1>2, <1>3, NextSteps

(* The exchange forgets no order, and closes one for good.                 *)
LEMMA ExchangeKeeps ==
  ASSUME Types, [Next]_vars
  PROVE  /\ Uuids \subseteq Uuids'
         /\ \A i \in Uuids : /\ exchange'[i].key = exchange[i].key
                             /\ exchange'[i].origin = exchange[i].origin
                             /\ exchange'[i].answered = exchange[i].answered
                             /\ exchange'[i].placed = exchange[i].placed
                             /\ exchange[i].state \in {"WAIT", exchange'[i].state}
<1>1. CASE \E r \in Request : Accepts(r)
  <2>1. Len(exchange) \in Nat
    BY TypeSets DEF Types
  <2> QED
    BY <1>1, <2>1, AcceptedGrows DEF Accepts, Types
<1>2. CASE \E i \in Uuids : Close(i)
  BY <1>2, CloseOne DEF Types
<1>3. CASE exchange' = exchange
  BY <1>3 DEF Uuids
<1> QED
  BY <1>1, <1>2, <1>3, ExchangeSteps

(* A step drops old records, adds one, or leaves them alone.               *)
LEMMA OrderSteps ==
  ASSUME [Next]_vars
  PROVE  orders' \in {orders, Retained(orders)} \/ \E r \in Request : Persist(r)
<1>1. ASSUME NEW r \in Request,
             \/ Call(r) \/ Run(r) \/ PrepareFails(r) \/ RiskRejects(r) \/ RiskPasses(r)
             \/ GuardRejects(r) \/ GuardPasses(r) \/ PostAnswered(r) \/ PostNotReached(r)
             \/ PostRefused(r) \/ LookSucceeds(r) \/ LookFails(r) \/ PersistFails(r)
             \/ PostUnreadable(r) \/ PostAnswerLost(r) \/ LookFallsBack(r)
      PROVE  orders' \in {orders, Retained(orders)}
  BY <1>1 DEF Call, Run, PrepareFails, RiskRejects, RiskPasses, GuardRejects, GuardPasses,
     PostAnswered, PostNotReached, PostRefused, LookSucceeds, LookFails, PersistFails,
     PostUnreadable, PostAnswerLost, LookFallsBack
<1>2. ASSUME (\E i \in Uuids : Close(i)) \/ OtherUpdate \/ Crash \/ Tick \/ UNCHANGED vars
      PROVE  orders' \in {orders, Retained(orders)}
  BY <1>2 DEF Close, OtherUpdate, Crash, Tick, vars
<1> QED
  BY <1>1, <1>2, NextSteps

(* Only a lookup in the lists adds to those that were not shown all.       *)
LEMMA OverlookedSteps ==
  ASSUME [Next]_vars
  PROVE  overlooked' = overlooked \/ \E r \in Request : LookFallsBack(r)
<1>1. ASSUME NEW r \in Request,
             \/ Call(r) \/ Run(r) \/ PrepareFails(r) \/ RiskRejects(r) \/ RiskPasses(r)
             \/ GuardRejects(r) \/ GuardPasses(r) \/ PostAnswered(r) \/ PostNotReached(r)
             \/ PostRefused(r) \/ LookSucceeds(r) \/ LookFails(r) \/ Persist(r)
             \/ PersistFails(r) \/ PostUnreadable(r) \/ PostAnswerLost(r)
      PROVE  overlooked' = overlooked
  BY <1>1 DEF Call, Run, PrepareFails, RiskRejects, RiskPasses, GuardRejects, GuardPasses,
     PostAnswered, PostNotReached, PostRefused, LookSucceeds, LookFails, Persist, PersistFails,
     PostUnreadable, PostAnswerLost
<1>2. ASSUME (\E i \in Uuids : Close(i)) \/ OtherUpdate \/ Crash \/ Tick \/ UNCHANGED vars
      PROVE  overlooked' = overlooked
  BY <1>2 DEF Close, OtherUpdate, Crash, Tick, vars
<1> QED
  BY <1>1, <1>2, NextSteps

(* An order taken for the request's stays one that may be.                 *)
LEMMA TakenStep ==
  ASSUME Types, [Next]_vars, NEW r, NEW placed, NEW i \in Uuids, Taken(r, placed, i)
  PROVE  Taken(r, placed, i)'
<1>1. overlooked \subseteq overlooked'
  BY OverlookedSteps DEF LookFallsBack
<1>2. exchange'[i].origin = exchange[i].origin /\ exchange'[i].placed = exchange[i].placed
  BY ExchangeKeeps
<1>3. LooksAlike(r, placed, i) => LooksAlike(r, placed, i)'
  BY <1>2 DEF LooksAlike
<1> QED
  BY <1>1, <1>2, <1>3 DEF Taken
-----------------------------------------------------------------------------
(* A request is chained once and answered once.                            *)
LEMMA QueueStep == Types /\ QueueInv /\ [Next]_vars => QueueInv'
<1> SUFFICES ASSUME Types, QueueInv, [Next]_vars PROVE QueueInv'
  OBVIOUS
<1>0. /\ outcome \in [Request -> Outcomes] /\ queue \in Seq(Request)
      /\ Waiting = 1 .. Len(queue) /\ Len(queue) \in Nat /\ TypeOK
  BY TypeSets DEF Types, Waiting
<1>1. ASSUME NEW r \in Request, Call(r) PROVE QueueInv'
  <2>1. /\ \A n \in Waiting : queue[n] # r
        /\ \A q \in Request : outcome'[q] = IF q = r THEN "queued" ELSE outcome[q]
    BY <1>0, <1>1 DEF QueueInv, Call
  <2>2. /\ Waiting' = 1 .. Len(queue) + 1 /\ queue'[Len(queue) + 1] = r
        /\ \A n \in Waiting : queue'[n] = queue[n]
    BY <1>0, <1>1, AppendProperties, LenProperties DEF Call, Waiting
  <2>3. \A m, n \in Waiting' : queue'[m] = queue'[n] => m = n
    BY <1>0, <2>1, <2>2 DEF QueueInv
  <2>4. ASSUME NEW q \in Request
        PROVE  outcome'[q] = "queued" <=> \E n \in Waiting' : queue'[n] = q
    <3>1. CASE q = r
      BY <1>0, <2>1, <2>2, <3>1
    <3>2. CASE q # r
      <4>1. (\E n \in Waiting' : queue'[n] = q) <=> (\E n \in Waiting : queue[n] = q)
        BY <1>0, <2>2, <3>2
      <4> QED
        BY <2>1, <3>2, <4>1 DEF QueueInv
    <3> QED
      BY <3>1, <3>2
  <2> QED
    BY <2>3, <2>4 DEF QueueInv
<1>2. ASSUME NEW r \in Request, Ends(r) PROVE QueueInv'
  <2>1. PICK result \in Over : Running(r) /\ Answer(r, result)
    BY <1>2 DEF Ends
  <2>2. /\ outcome'[r] \notin {"new", "queued"}
        /\ \A q \in Request : q # r => outcome'[q] = outcome[q]
        /\ 1 \in Waiting /\ queue[1] = r
        /\ \A n \in Waiting' : n + 1 \in Waiting /\ queue'[n] = queue[n + 1]
        /\ \A n \in Waiting : n # 1 => n - 1 \in Waiting' /\ queue'[n - 1] = queue[n]
    BY <1>0, <2>1, AnswerMoves DEF Over
  <2>3. Waiting' \subseteq Nat \ {0}
    <3>1. queue' \in Seq(Request)
      BY <1>0, <2>1, AnswerMoves DEF Over
    <3> QED
      BY <3>1 DEF Waiting
  <2>4. \A m, n \in Waiting' : queue'[m] = queue'[n] => m = n
    BY <2>2, <2>3 DEF QueueInv
  <2>5. ASSUME NEW q \in Request
        PROVE  outcome'[q] = "queued" <=> \E n \in Waiting' : queue'[n] = q
    <3>1. CASE q = r
      <4>1. \A n \in Waiting' : queue'[n] # r
        BY <2>2, <2>3 DEF QueueInv
      <4> QED
        BY <2>2, <3>1, <4>1
    <3>2. CASE q # r
      <4>1. (\E n \in Waiting' : queue'[n] = q) <=> (\E n \in Waiting : queue[n] = q)
        BY <2>2, <3>2
      <4> QED
        BY <2>2, <3>2, <4>1 DEF QueueInv
    <3> QED
      BY <3>1, <3>2
  <2> QED
    BY <2>4, <2>5 DEF QueueInv
<1>3. CASE Crash
  <2>1. Waiting' = {} /\ \A r \in Request : outcome'[r] # "queued"
    BY <1>3 DEF Crash, Waiting
  <2> QED
    BY <2>1 DEF QueueInv
<1>4. CASE UNCHANGED <<outcome, queue>>
  BY <1>4 DEF QueueInv, Waiting
<1> QED
  BY <1>1, <1>2, <1>3, <1>4, CallSteps
-----------------------------------------------------------------------------
(* Where the orders of the exchange come from.                             *)
LEMMA HeadWaits ==
  ASSUME Types, QueueInv, NEW r \in Request, Running(r)
  PROVE  outcome[r] = "queued"
<1>1. queue \in Seq(Request) /\ queue # <<>> /\ r = Head(queue)
  BY TypeSets DEF Types, Running
<1>2. 1 \in Waiting /\ queue[1] = r
  BY <1>1, EmptySeq DEF Waiting
<1> QED
  BY <1>2 DEF QueueInv

(* There are only so many orders.                                          *)
LEMMA FiniteUuids == ASSUME TypeOK PROVE IsFiniteSet(Uuids)
<1>1. Uuids = 1 .. Len(exchange) /\ 1 \in Int /\ Len(exchange) \in Int
  BY TypeSets DEF Uuids
<1> QED
  BY <1>1, FS_Interval

(* A step that goes on with the running call and submits nothing.          *)
LEMMA SourceGoesOn ==
  ASSUME Types, SourceInv, NEW r \in Request, Running(r), UNCHANGED <<outcome, queue, exchange>>,
         job.at \in Submitted \union {"post"} => job'.at \in Submitted \union {"post"},
         job'.at = "post" => \A i \in Uuids : exchange[i].origin = r => ~exchange[i].answered,
         job'.at \in Submitted =>
           \E i \in Uuids : exchange[i].origin = r /\ exchange[i].placed = job'.placed,
         job'.asked # 0 => exchange[job'.asked].origin = r,
         job'.uuid # 0 => Taken(r, job.placed, job.uuid)'
  PROVE  SourceInv'
  BY DEF SourceInv, Running, Uuids

(* A step that ends the running call, perhaps with an order accepted.      *)
LEMMA SourceEnds ==
  ASSUME Types, QueueInv, SourceInv, [Next]_vars, NEW r \in Request, Ends(r),
         Accepts(r) \/ exchange' = exchange
  PROVE  SourceInv'
<1>1. PICK result \in Over : Running(r) /\ Answer(r, result)
  BY DEF Ends
<1>2. /\ TypeOK /\ exchange \in Seq(AcceptedSet) /\ Len(exchange) \in Nat
      /\ outcome'[r] \notin {"new", "queued"}
      /\ \A q \in Request : q # r => outcome'[q] = outcome[q]
      /\ job' = Idle /\ Head(queue) = r
  BY <1>1, AnswerMoves, TypeSets DEF Types, Over, Running
<1>3. ASSUME NEW i \in Uuids'
      PROVE  \/ exchange'[i].origin = r /\ exchange'[i].key \in {r, NoKey}
             \/ i \in Uuids /\ exchange'[i].origin = exchange[i].origin
                /\ exchange'[i].key = exchange[i].key
  <2>1. CASE Accepts(r)
    BY <1>2, <2>1, AcceptedGrows DEF Accepts
  <2>2. CASE exchange' = exchange
    BY <2>2 DEF Uuids
  <2> QED
    BY <2>1, <2>2
<1>4. ASSUME NEW i \in Uuids' PROVE exchange'[i].origin \in Request
  <2>1. exchange' \in Seq(AcceptedSet)
    BY TypesStep DEF Types, TypeOK, AcceptedSet
  <2>2. exchange'[i] \in AcceptedSet
    BY <2>1, LenProperties, ElementOfSeq DEF Uuids
  <2> QED
    BY <2>2 DEF AcceptedSet
<1>5. ASSUME NEW i \in Uuids'
      PROVE  LET q == exchange'[i].origin
             IN  /\ exchange'[i].key \in {q, NoKey}
                 /\ outcome'[q] \notin {"new", "queued"}
  BY <1>2, <1>3, <1>4 DEF SourceInv
<1> QED
  BY <1>2, <1>5 DEF SourceInv, Idle, Submitted

(* An order accepted while the call goes on.                               *)
LEMMA SourceAccepts ==
  ASSUME Types, SourceInv, NEW r \in Request, Accepts(r), UNCHANGED <<outcome, queue>>,
         outcome[r] = "queued",
         \/ job'.at = "post" /\ job'.uuid = 0 /\ job'.asked = 0 /\ Accepted(r, "WAIT", FALSE)
         \/ /\ job'.at \in Submitted /\ job'.placed = now
            /\ {job'.uuid, job'.asked} \subseteq {0, Len(exchange) + 1}
  PROVE  SourceInv'
<1>1. TypeOK /\ Len(exchange) \in Nat /\ Len(exchange) + 1 # 0 /\ r = Head(queue) /\ job.at = "post"
  BY TypeSets DEF Types, Accepts, At, Running
<1>2. PICK state \in {"WAIT", "DONE"}, answered \in BOOLEAN : Accepted(r, state, answered)
  BY DEF Accepts
<1>3. /\ Uuids = 1 .. Len(exchange) /\ Uuids' = 1 .. Len(exchange) + 1
      /\ \A i \in Uuids : exchange'[i] = exchange[i]
      /\ exchange'[Len(exchange) + 1].key \in {r, NoKey}
      /\ exchange'[Len(exchange) + 1].origin = r /\ exchange'[Len(exchange) + 1].placed = now
  BY <1>1, <1>2, AcceptedGrows
<1>4. job'.at = "post" => ~exchange'[Len(exchange) + 1].answered
  <2>1. CASE Accepted(r, "WAIT", FALSE)
    BY <1>1, <2>1, AcceptedGrows
  <2> QED
    BY <2>1 DEF Submitted
<1>5. \A i \in Uuids' : i \in Uuids \/ i = Len(exchange) + 1
  BY <1>1, <1>3
<1>6. Len(exchange) + 1 \in Uuids'
  BY <1>1, <1>3
<1>7. ASSUME NEW i \in Uuids'
      PROVE  LET q == exchange'[i].origin
             IN  /\ exchange'[i].key \in {q, NoKey} /\ outcome'[q] # "new"
                 /\ outcome'[q] = "queued" =>
                      job'.at \in Submitted \union {"post"} /\ q = Head(queue')
  BY <1>1, <1>3, <1>5 DEF SourceInv
<1>8. job'.at = "post" =>
        \A i \in Uuids' : exchange'[i].origin = Head(queue') => ~exchange'[i].answered
  BY <1>1, <1>3, <1>4, <1>5 DEF SourceInv
<1>9. job'.at \in Submitted =>
        \E i \in Uuids' : exchange'[i].origin = Head(queue') /\ exchange'[i].placed = job'.placed
  BY <1>1, <1>3, <1>6 DEF Submitted
<1>10. /\ job'.asked # 0 => exchange'[job'.asked].origin = Head(queue')
       /\ job'.uuid # 0 => exchange'[job'.uuid].origin = Head(queue')
  BY <1>1, <1>3
<1>11. job'.uuid # 0 => Taken(Head(queue), job.placed, job.uuid)'
  BY <1>10 DEF Taken
<1> QED
  BY <1>7, <1>8, <1>9, <1>10, <1>11 DEF SourceInv

(* The lists show the request's own order of that time: they give an order *)
(* of the request.                                                         *)
LEMMA MatchOwn ==
  ASSUME Types, SourceInv, NEW r \in Request, NEW rows \in SUBSET Uuids, Shown(r, rows),
         NEW i \in ListMatch(r, rows)
  PROVE  exchange[i].origin = r
<1> DEFINE alike == {k \in rows : LooksAlike(r, job.placed, k)}
<1>1. CASE i \in OfKey(r)
  BY <1>1, RequestAssumption DEF SourceInv, OfKey
<1>2. CASE i \notin OfKey(r)
  <2>1. i \in alike /\ Cardinality(alike) = 1
    BY <1>2 DEF ListMatch
  <2>2. PICK own \in rows : exchange[own].origin = r /\ exchange[own].placed = job.placed
    BY DEF Shown
  <2>3. job.placed \in Nat /\ AlikeWithin \in Nat
    BY TypeSets, LimitAssumption DEF Types, JobSet
  <2>4. own \in alike
    BY <2>2, <2>3 DEF LooksAlike
  <2>5. IsFiniteSet(alike)
    BY FiniteUuids, FS_Subset DEF Types
  <2> HIDE DEF alike
  <2>6. own = i
    BY <2>1, <2>4, <2>5, FS_Singleton
  <2> QED
    BY <2>2, <2>6
<1> QED
  BY <1>1, <1>2

(* The order that the running call took for its own stays one that may be. *)
LEMMA TakenStays ==
  ASSUME Types, SourceInv, [Next]_vars,
         job'.uuid = job.uuid, job'.placed = job.placed, Head(queue') = Head(queue)
  PROVE  job'.uuid # 0 => Taken(Head(queue), job.placed, job.uuid)'
<1> SUFFICES ASSUME job.uuid # 0 PROVE Taken(Head(queue), job.placed, job.uuid)'
  OBVIOUS
<1>1. PICK r, placed, i : r = Head(queue) /\ placed = job.placed /\ i = job.uuid
  OBVIOUS
<1>2. i \in Uuids /\ Taken(r, placed, i)
  BY <1>1 DEF SourceInv, Types, JobInv
<1>3. Taken(r, placed, i)'
  BY <1>2, TakenStep
<1> QED
  BY <1>1, <1>3 DEF Taken, LooksAlike

(* Every step keeps the orders of a call with the call.                    *)
LEMMA SourceStep == Types /\ QueueInv /\ SourceInv /\ [Next]_vars => SourceInv'
<1> SUFFICES ASSUME Types, QueueInv, SourceInv, [Next]_vars PROVE SourceInv'
  OBVIOUS
<1>0. /\ TypeOK /\ exchange \in Seq(AcceptedSet) /\ Uuids \subseteq Nat \ {0}
      /\ JobInv /\ job \in JobSet /\ queue \in Seq(Request)
      /\ \A i \in Uuids : exchange[i].origin \in Request
  <2>1. exchange \in Seq(AcceptedSet)
    BY TypeSets DEF Types
  <2>2. \A i \in Uuids : exchange[i] \in AcceptedSet
    BY <2>1 DEF Uuids
  <2> QED
    BY <2>1, <2>2, TypeSets DEF Types, Uuids, AcceptedSet
<1>w. \A r \in Request : Running(r) => outcome[r] = "queued" /\ r = Head(queue)
  BY HeadWaits DEF Running
<1>1. ASSUME NEW r \in Request, Call(r) PROVE SourceInv'
  <2>1. /\ outcome[r] = "new" /\ UNCHANGED <<job, exchange>> /\ queue' = Append(queue, r)
        /\ outcome' = [outcome EXCEPT ![r] = "queued"]
    BY <1>1 DEF Call
  <2>2. queue # <<>> => Head(queue') = Head(queue)
    BY <1>0, <2>1
  <2>3. queue = <<>> => job.at \notin Submitted \union {"post"} /\ job.uuid = 0 /\ job.asked = 0
    BY <1>0 DEF JobInv, Submitted
  <2>4. \A i \in Uuids : /\ outcome'[exchange[i].origin] = outcome[exchange[i].origin]
                         /\ outcome[exchange[i].origin] # "new"
    BY <1>0, <2>1 DEF SourceInv, TypeOK
  <2>5. job'.uuid # 0 => Taken(Head(queue), job.placed, job.uuid)'
    BY <2>1, <2>2, <2>3, TakenStays
  <2> QED
    BY <2>1, <2>2, <2>3, <2>4, <2>5 DEF SourceInv, Uuids
<1>2. ASSUME NEW r \in Request, Run(r) \/ RiskPasses(r) PROVE SourceInv'
  <2>1. /\ job.at \notin Submitted \union {"post"} /\ job'.at \in {"risk", "guard"}
        /\ job'.uuid = 0 /\ job'.asked = 0
        /\ UNCHANGED <<outcome, queue, exchange>> /\ Running(r)
    BY <1>0, <1>2 DEF Run, RiskPasses, At, Idle, JobSet, JobInv, Submitted
  <2> QED
    BY <2>1, SourceGoesOn DEF Submitted
<1>3. ASSUME NEW r \in Request, GuardPasses(r) PROVE SourceInv'
  <2>1. /\ job.at = "guard" /\ job'.at = "post" /\ job'.uuid = 0 /\ job'.asked = 0
        /\ UNCHANGED <<outcome, queue, exchange>> /\ Running(r)
    BY <1>0, <1>3 DEF GuardPasses, At, JobSet, JobInv, Submitted
  <2>2. \A i \in Uuids : exchange[i].origin # r
    BY <1>w, <2>1 DEF SourceInv, Submitted
  <2> QED
    BY <2>1, <2>2, SourceGoesOn DEF Submitted
<1>4. ASSUME NEW r \in Request,
             \/ PrepareFails(r) \/ RiskRejects(r) \/ GuardRejects(r) \/ Persist(r) \/ PersistFails(r)
      PROVE  SourceInv'
  <2>1. Ends(r) /\ exchange' = exchange
    BY <1>4 DEF PrepareFails, RiskRejects, GuardRejects, Persist, PersistFails, At, Ends,
       Over, Outcomes
  <2> QED
    BY <2>1, SourceEnds
<1>5. ASSUME NEW r \in Request, PostAnswered(r) \/ PostUnreadable(r) PROVE SourceInv'
  <2>1. TRUE \in BOOLEAN
    OBVIOUS
  <2>2. Accepts(r) /\ UNCHANGED <<outcome, queue>>
    BY <1>5, <2>1 DEF PostAnswered, PostUnreadable, Accepts
  <2>3. /\ job'.at \in Submitted /\ job'.placed = now
        /\ {job'.uuid, job'.asked} \subseteq {0, Len(exchange) + 1}
    <3>1. CASE PostAnswered(r)
      <4>1. PICK state \in {"WAIT", "DONE"} :
              job' = [job EXCEPT !.at = IF state = "WAIT" THEN "reconcile" ELSE "persist",
                                 !.asked = Len(exchange) + 1, !.uuid = Len(exchange) + 1, !.state = state, !.placed = now]
        BY <3>1 DEF PostAnswered
      <4> QED
        BY <1>0, <4>1 DEF JobSet, Submitted
    <3>2. CASE PostUnreadable(r)
      BY <1>0, <3>2 DEF PostUnreadable, At, JobSet, JobInv, Submitted
    <3> QED
      BY <1>5, <3>1, <3>2
  <2> QED
    BY <1>w, <2>2, <2>3, SourceAccepts DEF Accepts, At
<1>6. ASSUME NEW r \in Request, PostNotReached(r) \/ PostRefused(r) PROVE SourceInv'
  <2>1. /\ exchange' = exchange /\ Running(r) /\ job.at = "post"
        /\ job.uuid = 0 /\ job.asked = 0
    BY <1>0, <1>6 DEF PostNotReached, PostRefused, At, JobInv, Submitted
  <2>2. CASE Ends(r)
    BY <2>1, <2>2, SourceEnds
  <2>3. CASE ~Ends(r)
    <3>1. /\ UNCHANGED <<outcome, queue>> /\ job'.at = job.at
          /\ job'.uuid = job.uuid /\ job'.asked = job.asked
      <4>1. CASE PostNotReached(r)
        BY <1>0, <2>3, <4>1 DEF PostNotReached, NoAnswer, At, JobSet, Ends, Over, Outcomes
      <4>2. CASE PostRefused(r)
        BY <1>0, <2>3, <4>2 DEF PostRefused, At, JobSet, Ends, Over, Outcomes
      <4> QED
        BY <1>6, <4>1, <4>2
    <3> QED
      BY <1>w, <2>1, <3>1, SourceGoesOn DEF SourceInv, Submitted
  <2> QED
    BY <2>2, <2>3
<1>7. ASSUME NEW r \in Request, PostAnswerLost(r) PROVE SourceInv'
  <2>1. FALSE \in BOOLEAN
    OBVIOUS
  <2>2. /\ Accepts(r) /\ Accepted(r, "WAIT", FALSE) /\ Running(r) /\ job.at = "post"
        /\ job.uuid = 0 /\ job.asked = 0
    BY <1>0, <1>7, <2>1 DEF PostAnswerLost, Accepts, At, JobInv, Submitted
  <2>3. CASE Ends(r)
    BY <2>2, <2>3, SourceEnds
  <2>4. CASE ~Ends(r)
    <3>1. /\ UNCHANGED <<outcome, queue>> /\ job'.at = job.at
          /\ job'.uuid = job.uuid /\ job'.asked = job.asked
      BY <1>0, <1>7, <2>4 DEF PostAnswerLost, NoAnswer, At, JobSet, Ends, Over, Outcomes
    <3> QED
      BY <1>w, <2>2, <3>1, SourceAccepts
  <2> QED
    BY <2>3, <2>4
<1>8. ASSUME NEW r \in Request, LookSucceeds(r) \/ LookFallsBack(r) PROVE SourceInv'
  <2>1. At(r, "reconcile") /\ UNCHANGED <<outcome, queue, exchange>>
    BY <1>8, LooksUp
  <2>2. PICK own \in Uuids : exchange[own].origin = r /\ exchange[own].placed = job.placed
    BY <1>w, <2>1 DEF SourceInv, Submitted, At
  <2>3. PICK i \in Uuids : /\ job' = Refreshed(i)
                           /\ \/ exchange[i].origin = r
                              \/ r \in overlooked' /\ LooksAlike(r, job.placed, i)
    <3>1. CASE LookSucceeds(r)
      <4>1. PICK i \in Found(r) : job' = Refreshed(i)
        BY <3>1 DEF LookSucceeds
      <4>2. CASE job.asked # 0
        BY <1>w, <2>1, <4>1, <4>2, FoundType DEF Found, SourceInv, At
      <4>3. CASE job.asked = 0
        <5>1. Shown(r, Uuids) /\ i \in ListMatch(r, Uuids)
          BY <2>2, <4>1, <4>3 DEF Shown, Found
        <5> QED
          BY <4>1, <5>1, MatchOwn, FoundType
      <4> QED
        BY <4>2, <4>3
    <3>2. CASE LookFallsBack(r)
      <4>1. PICK rows \in SUBSET Uuids :
              /\ \E i \in ListMatch(r, rows) : job' = Refreshed(i)
              /\ overlooked' = IF Shown(r, rows) THEN overlooked ELSE overlooked \union {r}
        BY <3>2 DEF LookFallsBack
      <4>2. PICK i \in ListMatch(r, rows) : job' = Refreshed(i)
        BY <4>1
      <4>3. i \in Uuids /\ (exchange[i].key = r \/ LooksAlike(r, job.placed, i))
        BY MatchType
      <4>4. CASE Shown(r, rows)
        BY <4>2, <4>3, <4>4, MatchOwn
      <4>5. CASE ~Shown(r, rows)
        <5>1. exchange[i].key = r => exchange[i].origin = r
          BY <4>3, RequestAssumption DEF SourceInv
        <5> QED
          BY <4>1, <4>2, <4>3, <4>5, <5>1
      <4> QED
        BY <4>4, <4>5
    <3> QED
      BY <1>8, <3>1, <3>2
  <2>4. /\ job'.uuid = i /\ job'.placed = job.placed /\ job'.asked = job.asked
        /\ job'.at \in Submitted
    BY <2>1, <2>3, RefreshedJob
  <2>5. Taken(r, job.placed, job.uuid)'
    BY <2>1, <2>3, <2>4 DEF Taken, LooksAlike
  <2>6. job'.asked # 0 => exchange[job'.asked].origin = r
    BY <1>w, <2>1, <2>4 DEF SourceInv, At
  <2> QED
    BY <2>1, <2>2, <2>4, <2>5, <2>6, SourceGoesOn DEF Submitted, At
<1>9. ASSUME NEW r \in Request, LookFails(r) PROVE SourceInv'
  <2>1. /\ Running(r) /\ job.at = "reconcile" /\ job'.at \in Submitted /\ job'.uuid = job.uuid
        /\ job'.asked = job.asked /\ job'.placed = job.placed
        /\ UNCHANGED <<outcome, queue, exchange>>
    BY <1>0, <1>9 DEF LookFails, At, JobSet, Submitted
  <2>2. job'.uuid # 0 => Taken(Head(queue), job.placed, job.uuid)'
    BY <2>1, TakenStays
  <2>3. job'.uuid # 0 => Taken(r, job.placed, job.uuid)'
    BY <1>w, <2>1, <2>2
  <2> QED
    BY <1>w, <2>1, <2>3, SourceGoesOn DEF SourceInv, Submitted
<1>10. CASE Crash
  BY <1>0, <1>10 DEF Crash, SourceInv, Idle, Submitted, Uuids, TypeOK, Outcomes
<1>11. ASSUME NEW i \in Uuids, Close(i) PROVE SourceInv'
  <2>1. UNCHANGED <<outcome, queue, job>>
    BY <1>11 DEF Close
  <2>2. /\ Uuids' = Uuids
        /\ \A k \in Uuids :
              /\ exchange'[k].key = exchange[k].key
              /\ exchange'[k].origin = exchange[k].origin
              /\ exchange'[k].answered = exchange[k].answered
              /\ exchange'[k].placed = exchange[k].placed
    BY <1>0, <1>11, CloseOne
  <2>3. job'.uuid # 0 => Taken(Head(queue), job.placed, job.uuid)'
    BY <2>1, TakenStays
  <2>4. job.at \in Submitted =>
          \E k \in Uuids : exchange'[k].origin = Head(queue) /\ exchange'[k].placed = job.placed
    BY <2>2 DEF SourceInv
  <2>5. job.asked # 0 => exchange'[job.asked].origin = Head(queue)
    BY <1>0, <2>2 DEF SourceInv, JobInv
  <2>6. \A k \in Uuids :
          LET r == exchange'[k].origin
          IN  /\ exchange'[k].key \in {r, NoKey}
              /\ outcome[r] # "new"
              /\ outcome[r] = "queued" => job.at \in Submitted \union {"post"} /\ r = Head(queue)
    BY <2>2 DEF SourceInv
  <2>7. job.at = "post" =>
          \A k \in Uuids : exchange'[k].origin = Head(queue) => ~exchange'[k].answered
    BY <2>2 DEF SourceInv
  <2> QED
    BY <2>1, <2>2, <2>3, <2>4, <2>5, <2>6, <2>7 DEF SourceInv
<1>12. CASE OtherUpdate \/ Tick \/ UNCHANGED vars
  <2>1. UNCHANGED <<outcome, queue, job, exchange>>
    BY <1>12 DEF OtherUpdate, Tick, vars
  <2>2. job'.uuid # 0 => Taken(Head(queue), job.placed, job.uuid)'
    BY <2>1, TakenStays
  <2> QED
    BY <2>1, <2>2 DEF SourceInv, Uuids
<1> QED
  BY <1>1, <1>2, <1>3, <1>4, <1>5, <1>6, <1>7, <1>8, <1>9, <1>10, <1>11, <1>12, NextSteps
-----------------------------------------------------------------------------
(* A request is submitted again only while nothing was heard of it.        *)
LEMMA ResubmittedStep ==
  Types /\ SourceInv /\ ResubmittedOnlyUnheard /\ [Next]_vars => ResubmittedOnlyUnheard'
<1> SUFFICES ASSUME Types, SourceInv, ResubmittedOnlyUnheard, [Next]_vars,
                    NEW i \in Uuids', NEW j \in Uuids', i < j,
                    exchange'[i].origin = exchange'[j].origin
             PROVE  ~exchange'[i].answered
  BY DEF ResubmittedOnlyUnheard
<1>1. CASE i \in Uuids /\ j \in Uuids
  BY <1>1, ExchangeKeeps DEF ResubmittedOnlyUnheard
<1>2. CASE ~(i \in Uuids /\ j \in Uuids)
  <2>1. PICK r \in Request : Accepts(r)
    BY <1>2, ExchangeSteps, CloseOne DEF Types, Uuids
  <2>2. Len(exchange) \in Nat /\ TypeOK
    BY TypeSets DEF Types
  <2>3. /\ Uuids = 1 .. Len(exchange) /\ Uuids' = 1 .. Len(exchange) + 1
        /\ exchange'[Len(exchange) + 1].origin = r
        /\ \A k \in Uuids : exchange'[k] = exchange[k]
    BY <2>1, <2>2, AcceptedGrows DEF Accepts
  <2>4. j = Len(exchange) + 1 /\ i \in Uuids
    BY <1>2, <2>2, <2>3
  <2>5. job.at = "post" /\ r = Head(queue)
    BY <2>1 DEF Accepts, At, Running
  <2> QED
    BY <2>3, <2>4, <2>5 DEF SourceInv
<1> QED
  BY <1>1, <1>2
-----------------------------------------------------------------------------
(* The records: one of a request, and of the order that it became.         *)
LEMMA RecordStep == Types /\ QueueInv /\ RecordInv /\ [Next]_vars => RecordInv'
<1> SUFFICES ASSUME Types, QueueInv, RecordInv, [Next]_vars PROVE RecordInv'
  OBVIOUS
<1>0. TypeOK /\ outcome \in [Request -> Outcomes] /\ \A o \in orders : o.req \in Request
  BY TypeSets DEF Types, RecordSet
<1>1. \A q \in Request : outcome[q] = "placed" => outcome'[q] = "placed"
  <2>1. ASSUME NEW r \in Request, Call(r), NEW q \in Request, outcome[q] = "placed"
        PROVE  outcome'[q] = "placed"
    BY <1>0, <2>1 DEF Call
  <2>2. ASSUME NEW r \in Request, Ends(r), NEW q \in Request, outcome[q] = "placed"
        PROVE  outcome'[q] = "placed"
    <3>1. outcome[r] = "queued"
      BY <2>2, HeadWaits DEF Ends
    <3> QED
      BY <1>0, <2>2, <3>1, AnswerMoves DEF Ends, Over
  <2>3. CASE Crash
    BY <2>3 DEF Crash
  <2> QED
    BY <2>1, <2>2, <2>3, CallSteps
<1>2. CASE orders' \in {orders, Retained(orders)}
  <2>1. orders' \subseteq orders
    BY <1>2, RetainedSubset
  <2>2. IsFiniteSet(orders')
    BY <2>1, FS_Subset DEF RecordInv
  <2> QED
    BY <1>0, <1>1, <2>1, <2>2 DEF RecordInv
<1>3. ASSUME NEW r \in Request, Persist(r) PROVE RecordInv'
  <2>1. orders' \subseteq orders \union {Record(r)}
    BY <1>3, RetainedSubset DEF Persist
  <2>2. IsFiniteSet(orders \union {Record(r)})
    BY FS_AddElement DEF RecordInv
  <2>3. IsFiniteSet(orders')
    BY <2>1, <2>2, FS_Subset
  <2>4. Record(r).req = r /\ outcome'[r] = "placed" /\ outcome[r] = "queued"
    BY <1>0, <1>3, HeadWaits DEF Record, Persist, Answer, At
  <2>5. \A o \in orders : o.req # r
    BY <2>4 DEF RecordInv
  <2> QED
    BY <1>0, <1>1, <2>1, <2>3, <2>4, <2>5 DEF RecordInv
<1> QED
  BY <1>2, <1>3, OrderSteps

(* No step records an order of another call.                               *)
LEMMA OwnStep ==
  Types /\ SourceInv /\ RecordsOwnOrder /\ [Next]_vars => RecordsOwnOrder'
<1> SUFFICES ASSUME Types, SourceInv, RecordsOwnOrder, [Next]_vars,
                    NEW o \in orders', o.uuid # 0
             PROVE  o.uuid \in Uuids' /\ Taken(o.req, o.placed, o.uuid)'
  BY DEF RecordsOwnOrder, Taken
<1>0. ASSUME o.uuid \in Uuids, Taken(o.req, o.placed, o.uuid)
      PROVE  o.uuid \in Uuids' /\ Taken(o.req, o.placed, o.uuid)'
  BY <1>0, TakenStep, ExchangeKeeps
<1>1. CASE o \in orders
  BY <1>0, <1>1 DEF RecordsOwnOrder, Taken
<1>2. CASE o \notin orders
  <2>1. PICK r \in Request : Persist(r)
    BY <1>2, OrderSteps, RetainedSubset
  <2>2. o = Record(r)
    BY <1>2, <2>1, RetainedSubset DEF Persist
  <2>3. o.uuid = job.uuid /\ o.placed = job.placed /\ o.req = r /\ r = Head(queue)
    BY <2>1, <2>2 DEF Record, Persist, At, Running
  <2>4. o.uuid \in Uuids /\ Taken(o.req, o.placed, o.uuid)
    BY <2>3 DEF SourceInv, Types, JobInv
  <2> QED
    BY <1>0, <2>4
<1> QED
  BY <1>1, <1>2
-----------------------------------------------------------------------------
(* Without faults: what is known of the orders, and that they are known.   *)
LEMMA FaultlessSteps ==
  ASSUME Types, [Next]_vars, faults' = 0
  PROVE  /\ faults = 0 /\ overlooked' = overlooked
         /\ \/ \E r \in Request :
                 \/ Call(r) \/ Run(r) \/ PrepareFails(r) \/ RiskRejects(r) \/ RiskPasses(r)
                 \/ GuardRejects(r) \/ GuardPasses(r) \/ PostAnswered(r) \/ PostNotReached(r)
                 \/ PostRefused(r) \/ LookSucceeds(r) \/ LookFails(r) \/ Persist(r)
            \/ \E i \in Uuids : Close(i)
            \/ OtherUpdate \/ Tick \/ UNCHANGED vars
<1>1. ASSUME NEW r \in Request,
             PostUnreadable(r) \/ PostAnswerLost(r) \/ LookFallsBack(r) \/ PersistFails(r)
      PROVE  FALSE
  <2>1. CASE LookFallsBack(r)
    <3>1. faults = 0 => job.asked # 0
      BY <2>1 DEF Types, JobInv, LookFallsBack, At, Submitted
    <3> QED
      BY <2>1, <3>1, FaultType DEF Types, LookFallsBack
  <2>2. CASE PostUnreadable(r) \/ PostAnswerLost(r) \/ PersistFails(r)
    BY <2>2, FaultType DEF Types, PostUnreadable, PostAnswerLost, PersistFails
  <2> QED
    BY <1>1, <2>1, <2>2
<1>2. ~Crash
  BY FaultType DEF Types, Crash
<1>3. ASSUME NEW r \in Request,
             \/ Call(r) \/ Run(r) \/ PrepareFails(r) \/ RiskRejects(r) \/ RiskPasses(r)
             \/ GuardRejects(r) \/ GuardPasses(r) \/ PostAnswered(r) \/ PostNotReached(r)
             \/ PostRefused(r) \/ LookSucceeds(r) \/ LookFails(r) \/ Persist(r)
      PROVE  faults = 0
  BY <1>3 DEF Call, Run, PrepareFails, RiskRejects, RiskPasses, GuardRejects, GuardPasses,
     PostAnswered, PostNotReached, PostRefused, LookSucceeds, LookFails, Persist
<1>4. ASSUME (\E i \in Uuids : Close(i)) \/ OtherUpdate \/ Tick \/ UNCHANGED vars
      PROVE  faults = 0
  BY <1>4 DEF Close, OtherUpdate, Tick, vars
<1> QED
  BY <1>1, <1>2, <1>3, <1>4, NextSteps, OverlookedSteps

(* What is known of an order stays right, though it may grow old.          *)
LEMMA AgreesStep ==
  ASSUME Types, [Next]_vars, NEW uuid, NEW state, NEW placed, Agrees(uuid, state, placed)
  PROVE  Agrees(uuid, state, placed)'
  BY ExchangeKeeps DEF Agrees

(* What becomes of the uuid of the running call.                           *)
LEMMA UuidSteps ==
  ASSUME Types, KnownInv, [Next]_vars, faults' = 0
  PROVE  \/ \E r \in Request : PostAnswered(r)
         \/ \E r \in Request : Persist(r)
         \/ job.uuid = 0 /\ job'.at \notin Submitted /\ job'.uuid = 0 /\ job'.asked = 0
         \/ /\ job'.uuid = job.uuid /\ job'.placed = job.placed /\ job'.asked = job.asked
            /\ job'.at \in Submitted <=> job.at \in Submitted
            /\ job.at \in Submitted => job'.state \in {job.state, exchange[job.uuid].state}
<1>0. job \in JobSet /\ JobInv /\ faults = 0
  BY TypeSets, FaultlessSteps DEF Types
<1>1. ASSUME NEW r \in Request,
             \/ Run(r) \/ PrepareFails(r) \/ RiskRejects(r) \/ RiskPasses(r)
             \/ GuardRejects(r) \/ GuardPasses(r) \/ PostNotReached(r) \/ PostRefused(r)
      PROVE  job.uuid = 0 /\ job'.at \notin Submitted /\ job'.uuid = 0 /\ job'.asked = 0
  <2>1. job.at \notin Submitted /\ job.uuid = 0 /\ job.asked = 0
    BY <1>0, <1>1 DEF Run, PrepareFails, RiskRejects, RiskPasses, GuardRejects, GuardPasses,
       PostNotReached, PostRefused, At, JobInv, Submitted
  <2>2. CASE Run(r)
    <3>1. job' = [Idle EXCEPT !.at = "risk"]
      BY <2>2 DEF Run
    <3>2. job'.at = "risk" /\ job'.uuid = 0 /\ job'.asked = 0
      BY <3>1, IdleType DEF Idle, JobSet
    <3> QED
      BY <2>1, <3>2 DEF Submitted
  <2>i. ASSUME job' = Idle PROVE job'.at \notin Submitted /\ job'.uuid = 0 /\ job'.asked = 0
    BY <2>i DEF Idle, Submitted
  <2>3. CASE PrepareFails(r) \/ RiskRejects(r) \/ GuardRejects(r)
    <3>1. job' = Idle
      BY <2>3 DEF PrepareFails, RiskRejects, GuardRejects, Answer
    <3> QED
      BY <2>1, <2>i, <3>1
  <2>4. CASE RiskPasses(r) \/ GuardPasses(r)
    BY <1>0, <2>1, <2>4 DEF RiskPasses, GuardPasses, JobSet, Submitted
  <2>5. CASE PostNotReached(r)
    BY <1>0, <2>1, <2>5 DEF PostNotReached, NoAnswer, Answer, Idle, JobSet, Submitted
  <2>6. CASE PostRefused(r)
    <3>1. CASE Answer(r, "failed")
      BY <2>1, <2>i, <3>1 DEF Answer
    <3>2. CASE ~Answer(r, "failed")
      <4>1. job'.at = job.at /\ job'.uuid = job.uuid /\ job'.asked = job.asked
        BY <1>0, <2>6, <3>2 DEF PostRefused, JobSet
      <4> QED
        BY <2>1, <4>1
    <3> QED
      BY <3>1, <3>2
  <2> QED
    BY <1>1, <2>2, <2>3, <2>4, <2>5, <2>6
<1>2. ASSUME NEW r \in Request, LookSucceeds(r)
      PROVE  /\ job'.uuid = job.uuid /\ job'.placed = job.placed /\ job'.asked = job.asked
             /\ job'.at \in Submitted /\ job.at \in Submitted
             /\ job'.state = exchange[job.uuid].state
  <2>1. PICK i \in Found(r) : job' = Refreshed(i)
    BY <1>2 DEF LookSucceeds
  <2>2. At(r, "reconcile") /\ job.at \in Submitted /\ job.uuid \in Uuids /\ job.asked = job.uuid
    BY <1>0, <1>2 DEF LookSucceeds, At, KnownInv, Agrees, Submitted
  <2>3. 0 \notin Uuids
    BY TypeSets DEF Types, Uuids
  <2>4. i = job.uuid
    BY <2>1, <2>2, <2>3 DEF Found
  <2> QED
    BY <2>1, <2>2, <2>4, RefreshedJob
<1>3. ASSUME NEW r \in Request, LookFails(r)
      PROVE  /\ job'.uuid = job.uuid /\ job'.placed = job.placed /\ job'.state = job.state
             /\ job'.asked = job.asked
             /\ job'.at \in Submitted /\ job.at \in Submitted
  BY <1>0, <1>3 DEF LookFails, At, JobSet, Submitted
<1>4. ASSUME \/ \E r \in Request : Call(r)
             \/ \E i \in Uuids : Close(i)
             \/ OtherUpdate \/ Tick \/ UNCHANGED vars
      PROVE  job' = job
  BY <1>4 DEF Call, Close, OtherUpdate, Tick, vars
<1> QED
  BY <1>1, <1>2, <1>3, <1>4, FaultlessSteps

(* Every step keeps what is known right.                                   *)
LEMMA KnownStep == Types /\ KnownInv /\ [Next]_vars => KnownInv'
<1> SUFFICES ASSUME Types, KnownInv, [Next]_vars, faults' = 0
             PROVE  /\ job'.asked = job'.uuid
                    /\ job'.at \in Submitted => Agrees(job.uuid, job.state, job.placed)'
                    /\ \A o \in orders' : Agrees(o.uuid, o.state, o.placed)'
  <2>1. ASSUME Types, [Next]_vars, faults' = 0 PROVE faults = 0 /\ overlooked' = overlooked
    BY <2>1, FaultlessSteps
  <2> QED
    BY <2>1 DEF KnownInv
<1>0. faults = 0 /\ job \in JobSet /\ TypeOK /\ job.asked = job.uuid
  BY FaultlessSteps, TypeSets DEF Types, KnownInv
<1>1. \A o \in orders : Agrees(o.uuid, o.state, o.placed)'
  BY <1>0, AgreesStep DEF KnownInv
<1>2. CASE \E r \in Request : PostAnswered(r)
  <2>1. PICK r \in Request : PostAnswered(r)
    BY <1>2
  <2>2. PICK state \in {"WAIT", "DONE"} :
          /\ Accepted(r, state, TRUE)
          /\ job' = [job EXCEPT !.at = IF state = "WAIT" THEN "reconcile" ELSE "persist",
                                !.asked = Len(exchange) + 1, !.uuid = Len(exchange) + 1, !.state = state, !.placed = now]
    BY <2>1 DEF PostAnswered
  <2>3. /\ job'.uuid = Len(exchange) + 1 /\ job'.asked = job'.uuid
        /\ job'.state = state /\ job'.placed = now
    BY <1>0, <2>2 DEF JobSet
  <2>4. Len(exchange) \in Nat
    BY <1>0, TypeSets
  <2>5. /\ Uuids' = 1 .. Len(exchange) + 1
        /\ exchange'[Len(exchange) + 1].state = state /\ exchange'[Len(exchange) + 1].placed = now
    BY <1>0, <2>2, AcceptedGrows
  <2>6. Agrees(job.uuid, job.state, job.placed)'
    BY <2>3, <2>4, <2>5 DEF Agrees
  <2>7. orders' = orders
    BY <2>1 DEF PostAnswered
  <2> QED
    BY <1>1, <2>3, <2>6, <2>7
<1>3. CASE \E r \in Request : Persist(r)
  <2>1. PICK r \in Request : Persist(r)
    BY <1>3
  <2>2. /\ orders' \subseteq orders \union {Record(r)}
        /\ job'.at = "idle" /\ job'.asked = job'.uuid
    BY <2>1, RetainedSubset DEF Persist, Answer, Idle
  <2>3. Agrees(job.uuid, job.state, job.placed)
    BY <1>0, <2>1 DEF Persist, At, Submitted, KnownInv
  <2>4. Agrees(Record(r).uuid, Record(r).state, Record(r).placed)
    BY <2>3 DEF Record
  <2> DEFINE new == Record(r)
  <2>5. \A o \in orders \union {new} : Agrees(o.uuid, o.state, o.placed)
    BY <1>0, <2>4 DEF KnownInv
  <2> HIDE DEF new
  <2>6. \A o \in orders \union {new} : Agrees(o.uuid, o.state, o.placed)'
    BY <2>5, AgreesStep
  <2> QED
    BY <2>2, <2>6 DEF new, Submitted
<1>4. ASSUME ~(\E r \in Request : PostAnswered(r)), ~(\E r \in Request : Persist(r))
      PROVE  /\ job'.asked = job'.uuid
             /\ job'.at \in Submitted => Agrees(job.uuid, job.state, job.placed)'
             /\ \A o \in orders' : Agrees(o.uuid, o.state, o.placed)'
  <2>1. \A o \in orders' : Agrees(o.uuid, o.state, o.placed)'
    BY <1>1, <1>4, OrderSteps, RetainedSubset
  <2>2. ASSUME job'.at \in Submitted PROVE Agrees(job.uuid, job.state, job.placed)'
    <3>1. /\ job'.uuid = job.uuid /\ job'.placed = job.placed /\ job.at \in Submitted
          /\ job'.state \in {job.state, exchange[job.uuid].state}
      BY <1>4, <2>2, UuidSteps
    <3>2. Agrees(job.uuid, job.state, job.placed)
      BY <1>0, <3>1 DEF KnownInv
    <3>3. Agrees(job.uuid, job'.state, job.placed)
      BY <3>1, <3>2 DEF Agrees
    <3> QED
      BY <3>1, <3>3, ExchangeKeeps DEF Agrees
  <2>3. job'.asked = job'.uuid
    BY <1>0, <1>4, UuidSteps
  <2> QED
    BY <2>1, <2>2, <2>3
<1> QED
  BY <1>2, <1>3, <1>4

(* A record of an order that is open on the exchange is an open record, and*)
(* the retention keeps it.                                                 *)
LEMMA LiveRecordOpen ==
  ASSUME NEW o, Agrees(o.uuid, o.state, o.placed), Live(o.uuid)
  PROVE  /\ o.state = "WAIT" /\ Open(o) /\ ~Stale(o)
         /\ \A S : o \in S => o \in Retained(S)
  BY DEF Agrees, Live, Open, Stale, OpenStates, Retained

(* What is written keeps the open orders known; Known also serves for all  *)
(* orders, where the retention drops no record.                            *)
Known(i) == job.uuid = i \/ \E o \in orders : o.uuid = i

(* An order that is known stays known while its record is kept.            *)
LEMMA KnownStays ==
  ASSUME Types, KnownInv, [Next]_vars, faults' = 0, NEW i \in Uuids, Known(i),
         \A o \in orders : o.uuid = i => o \in Retained(orders),
         \A r \in Request : Persist(r) =>
           /\ job.uuid = i => Record(r) \in orders'
           /\ \A o \in orders : o.uuid = i /\ o.uuid # job.uuid => o \in orders'
  PROVE  Known(i)'
<1>0. i # 0 /\ job \in JobSet /\ TypeOK
  BY TypeSets DEF Types, Uuids
<1>1. CASE \E r \in Request : Persist(r)
  <2>1. PICK r \in Request : Persist(r)
    BY <1>1
  <2>2. Record(r).uuid = job.uuid
    BY DEF Record
  <2> QED
    BY <2>1, <2>2 DEF Known
<1>2. CASE ~\E r \in Request : Persist(r)
  <2>1. \A o \in orders : o.uuid = i => o \in orders'
    BY <1>2, OrderSteps
  <2>2. job.uuid = i => job'.uuid = i
    <3>1. ASSUME NEW r \in Request, PostAnswered(r) PROVE job.uuid = 0
      BY <3>1 DEF PostAnswered, At, Types, JobInv, Submitted
    <3> QED
      BY <1>0, <1>2, <3>1, UuidSteps
  <2> QED
    BY <2>1, <2>2 DEF Known
<1> QED
  BY <1>1, <1>2

(* An order that is accepted without a fault is known to its call.         *)
LEMMA NewIsKnown ==
  ASSUME Types, [Next]_vars, faults' = 0, NEW i \in Uuids', i \notin Uuids
  PROVE  /\ Known(i)'
         /\ \E r \in Request : PostAnswered(r)
<1>0. TypeOK /\ job \in JobSet /\ Len(exchange) \in Nat
  BY TypeSets DEF Types
<1>1. ASSUME NEW r \in Request,
             \/ Call(r) \/ Run(r) \/ PrepareFails(r) \/ RiskRejects(r) \/ RiskPasses(r)
             \/ GuardRejects(r) \/ GuardPasses(r) \/ PostNotReached(r)
             \/ PostRefused(r) \/ LookSucceeds(r) \/ LookFails(r) \/ Persist(r)
      PROVE  Uuids' = Uuids
  BY <1>1 DEF Call, Run, PrepareFails, RiskRejects, RiskPasses, GuardRejects, GuardPasses,
     PostNotReached, PostRefused, LookSucceeds, LookFails, Persist, Uuids
<1>2. ASSUME (\E k \in Uuids : Close(k)) \/ OtherUpdate \/ Tick \/ UNCHANGED vars
      PROVE  Uuids' = Uuids
  BY <1>0, <1>2, CloseOne DEF OtherUpdate, Tick, vars, Uuids
<1>3. PICK r \in Request : PostAnswered(r)
  BY <1>1, <1>2, FaultlessSteps
<1>4. PICK state \in {"WAIT", "DONE"} :
        /\ Accepted(r, state, TRUE)
        /\ job' = [job EXCEPT !.at = IF state = "WAIT" THEN "reconcile" ELSE "persist",
                              !.asked = Len(exchange) + 1, !.uuid = Len(exchange) + 1, !.state = state, !.placed = now]
  BY <1>3 DEF PostAnswered
<1>5. Uuids = 1 .. Len(exchange) /\ Uuids' = 1 .. Len(exchange) + 1
  BY <1>0, <1>4, AcceptedGrows
<1>6. i = Len(exchange) + 1 /\ job'.uuid = Len(exchange) + 1
  BY <1>0, <1>4, <1>5 DEF JobSet
<1> QED
  BY <1>3, <1>6 DEF Known

(* No step forgets an open order.                                          *)
LEMMA LiveStep ==
  Types /\ KnownInv /\ LiveOrdersAreKnown /\ [Next]_vars => LiveOrdersAreKnown'
<1> SUFFICES ASSUME Types, KnownInv, LiveOrdersAreKnown, [Next]_vars, faults' = 0,
                    NEW i \in Uuids', Live(i)'
             PROVE  Known(i)'
  BY DEF LiveOrdersAreKnown, Known
<1>1. CASE i \notin Uuids
  BY <1>1, NewIsKnown
<1>2. CASE i \in Uuids
  <2>1. Live(i) /\ faults = 0
    BY <1>2, ExchangeKeeps, FaultlessSteps DEF Live
  <2>2. Known(i)
    BY <1>2, <2>1 DEF LiveOrdersAreKnown, Known
  <2>3. \A o \in orders : o.uuid = i => \A S : o \in S => o \in Retained(S)
    BY <2>1, LiveRecordOpen DEF KnownInv
  <2>4. ASSUME NEW r \in Request, Persist(r)
        PROVE  /\ job.uuid = i => Record(r) \in orders'
               /\ \A o \in orders : o.uuid = i /\ o.uuid # job.uuid => o \in orders'
    <3>1. orders' = Retained((orders \ SameOrder) \union {Record(r)})
      BY <2>4 DEF Persist
    <3>2. ASSUME job.uuid = i PROVE Record(r) \in orders'
      <4> DEFINE new == Record(r)
      <4>1. Agrees(new.uuid, new.state, new.placed) /\ Live(new.uuid)
        BY <2>1, <2>4, <3>2 DEF KnownInv, Persist, At, Submitted, Record
      <4> HIDE DEF new
      <4>2. \A S : new \in S => new \in Retained(S)
        BY <4>1, LiveRecordOpen
      <4> QED
        BY <3>1, <4>2 DEF new
    <3>3. ASSUME NEW o \in orders, o.uuid = i, o.uuid # job.uuid PROVE o \in orders'
      BY <2>3, <3>1, <3>3 DEF SameOrder
    <3> QED
      BY <3>2, <3>3
  <2> QED
    BY <1>2, <2>2, <2>3, <2>4, KnownStays
<1> QED
  BY <1>1, <1>2
-----------------------------------------------------------------------------
(* The limits on open orders.                                              *)
LEMMA FiniteLive ==
  ASSUME TypeOK
  PROVE  /\ IsFiniteSet(LiveOnes) /\ Cardinality(LiveOnes) \in Nat
         /\ \A s : IsFiniteSet(LiveOf(s)) /\ Cardinality(LiveOf(s)) \in Nat
<1>1. LiveOnes \in SUBSET Uuids /\ \A s : LiveOf(s) \in SUBSET Uuids
  BY DEF LiveOnes, LiveOf
<1> QED
  BY <1>1, FiniteUuids, FS_Subset, FS_CardinalityType

(* Orders known by records of R are no more than those.                    *)
LEMMA AsManyRecords ==
  ASSUME NEW S, NEW R, IsFiniteSet(R), \A i \in S : \E o \in R : o.uuid = i
  PROVE  Cardinality(S) <= Cardinality(R)
<1> DEFINE f == [i \in S |-> CHOOSE o \in R : o.uuid = i]
<1>1. \A i \in S : f[i] \in R /\ f[i].uuid = i
  OBVIOUS
<1>2. f \in [S -> R] /\ \A i, j \in S : f[i] = f[j] => i = j
  <2>1. f \in [S -> R]
    BY <1>1
  <2> HIDE DEF f
  <2> QED
    BY <1>1, <2>1
<1> HIDE DEF f
<1>3. f \in Injection(S, R)
  BY <1>2 DEF Injection, IsInjective
<1> QED
  BY <1>3, FS_Injection

(* The limits on records leave room for one more at the exchange.          *)
LEMMA RoomForOne ==
  ASSUME Types, RecordInv, RecordsOwnOrder, KnownInv, LiveOrdersAreKnown, faults = 0,
         NEW r \in Request, At(r, "risk"), ~AtOpenLimit(r)
  PROVE  /\ Cardinality(LiveOnes) < MaxOpenOrders
         /\ Cardinality(LiveOf(Asks[r].symbol)) < MaxOpenPerSymbol
<1> DEFINE symbol == Asks[r].symbol
<1>0. job.uuid = 0 /\ 0 \notin Uuids /\ TypeOK
  BY TypeSets DEF Types, JobInv, At, Submitted, Uuids
<1>1. ASSUME NEW i \in LiveOnes PROVE \E o \in OpenRecords : o.uuid = i
  <2>1. PICK o \in orders : o.uuid = i
    BY <1>0, <1>1 DEF LiveOnes, LiveOrdersAreKnown
  <2>2. Open(o) /\ ~Stale(o)
    BY <1>1, <2>1, LiveRecordOpen DEF KnownInv, LiveOnes
  <2> QED
    BY <2>1, <2>2 DEF OpenRecords
<1>2. ASSUME NEW i \in LiveOf(symbol) PROVE \E o \in OpenRecordsOf(symbol) : o.uuid = i
  <2>1. PICK o \in OpenRecords : o.uuid = i
    BY <1>1, <1>2 DEF LiveOf
  <2>2. exchange[i].origin = o.req /\ Asks[exchange[i].origin].symbol = symbol
    BY <1>0, <1>2, <2>1 DEF RecordsOwnOrder, KnownInv, OpenRecords, LiveOf, LiveOnes
  <2> QED
    BY <2>1, <2>2 DEF OpenRecordsOf
<1>3. IsFiniteSet(OpenRecords) /\ IsFiniteSet(OpenRecordsOf(symbol))
  <2>1. OpenRecords \in SUBSET orders /\ OpenRecordsOf(symbol) \in SUBSET orders
    BY DEF OpenRecords, OpenRecordsOf
  <2> QED
    BY <2>1, FS_Subset DEF RecordInv
<1>4. /\ Cardinality(LiveOnes) <= Cardinality(OpenRecords)
      /\ Cardinality(LiveOf(symbol)) <= Cardinality(OpenRecordsOf(symbol))
  BY <1>1, <1>2, <1>3, AsManyRecords
<1>5. /\ Cardinality(OpenRecords) \in Nat /\ Cardinality(OpenRecordsOf(symbol)) \in Nat
      /\ Cardinality(LiveOnes) \in Nat /\ Cardinality(LiveOf(symbol)) \in Nat
      /\ MaxOpenOrders \in Nat /\ MaxOpenPerSymbol \in Nat
  BY <1>0, <1>3, FS_CardinalityType, FiniteLive, LimitAssumption
<1>6. ~(Cardinality(OpenRecords) >= MaxOpenOrders)
      /\ ~(Cardinality(OpenRecordsOf(symbol)) >= MaxOpenPerSymbol)
  BY DEF AtOpenLimit
<1> QED
  BY <1>4, <1>5, <1>6

(* Orders become open only when one is accepted.                           *)
LEMMA LiveShrinks ==
  ASSUME Types, [Next]_vars, Uuids' = Uuids
  PROVE  /\ Cardinality(LiveOnes') \in Nat /\ Cardinality(LiveOnes') <= Cardinality(LiveOnes)
         /\ \A s : /\ Cardinality(LiveOf(s)') \in Nat
                   /\ Cardinality(LiveOf(s)') <= Cardinality(LiveOf(s))
<1>1. LiveOnes' \subseteq LiveOnes
  BY ExchangeKeeps DEF LiveOnes, Live
<1>2. \A s : LiveOf(s)' \subseteq LiveOf(s)
  BY <1>1, ExchangeKeeps DEF LiveOf, LiveOnes
<1> QED
  BY <1>1, <1>2, FiniteLive, FS_Subset, FS_CardinalityType DEF Types

(* A running call comes to the guard by passing the limits only.           *)
LEMMA ToTheGuard ==
  ASSUME Types, [Next]_vars, job'.at \in {"guard", "post"}
  PROVE  \/ \E r \in Request : RiskPasses(r)
         \/ job.at \in {"guard", "post"} /\ Head(queue') = Head(queue)
<1>0. job \in JobSet /\ queue \in Seq(Request) /\ JobInv
  BY TypeSets DEF Types
<1>1. ASSUME NEW r \in Request, Call(r) PROVE job.at \in {"guard", "post"} /\ Head(queue') = Head(queue)
  BY <1>0, <1>1 DEF Call, JobInv
<1>2. ASSUME NEW r \in Request, Run(r) PROVE FALSE
  <2>1. job' = [Idle EXCEPT !.at = "risk"]
    BY <1>2 DEF Run
  <2> QED
    BY <2>1, IdleType DEF Idle, JobSet
<1>3. ASSUME NEW r \in Request, Ends(r) PROVE FALSE
  BY <1>3 DEF Ends, Answer, Idle
<1>4. CASE Crash
  BY <1>4 DEF Crash, Idle
<1>5. ASSUME NEW r \in Request,
             \/ PrepareFails(r) \/ RiskRejects(r) \/ GuardRejects(r) \/ Persist(r) \/ PersistFails(r)
      PROVE  FALSE
  BY <1>3, <1>5 DEF PrepareFails, RiskRejects, GuardRejects, Persist, PersistFails, At, Ends,
     Over, Outcomes
<1>6. ASSUME NEW r \in Request,
             \/ GuardPasses(r) \/ PostAnswered(r) \/ PostUnreadable(r)
      PROVE  job.at \in {"guard", "post"} /\ Head(queue') = Head(queue)
  BY <1>6 DEF GuardPasses, PostAnswered, PostUnreadable, At
<1>7. ASSUME NEW r \in Request, LookSucceeds(r) \/ LookFallsBack(r) \/ LookFails(r) PROVE FALSE
  <2>1. CASE LookFails(r)
    BY <1>0, <2>1 DEF LookFails, At, JobSet
  <2>2. CASE LookSucceeds(r) \/ LookFallsBack(r)
    <3>1. At(r, "reconcile") /\ \E i \in Uuids : job' = Refreshed(i)
      BY <2>2, LooksUp
    <3> QED
      BY <3>1, RefreshedJob DEF Submitted
  <2> QED
    BY <1>7, <2>1, <2>2
<1>8. ASSUME NEW r \in Request, PostNotReached(r) \/ PostAnswerLost(r) \/ PostRefused(r)
      PROVE  job.at \in {"guard", "post"} /\ Head(queue') = Head(queue)
  <2>1. At(r, "post")
    BY <1>8 DEF PostNotReached, PostAnswerLost, PostRefused
  <2>2. ~Answer(r, "failed")
    BY <1>3, <2>1 DEF Ends, At, Over, Outcomes
  <2>3. UNCHANGED queue
    BY <1>8, <2>2 DEF PostNotReached, PostAnswerLost, PostRefused, NoAnswer
  <2> QED
    BY <2>1, <2>3 DEF At
<1>9. ASSUME (\E i \in Uuids : Close(i)) \/ OtherUpdate \/ Tick \/ UNCHANGED vars
      PROVE  job.at \in {"guard", "post"} /\ Head(queue') = Head(queue)
  BY <1>9 DEF Close, OtherUpdate, Tick, vars
<1> QED
  BY <1>1, <1>2, <1>4, <1>5, <1>6, <1>7, <1>8, <1>9, NextSteps

(* Every step keeps that room until the order is submitted.                *)
LEMMA RoomStep ==
  /\ Types /\ RecordInv /\ RecordsOwnOrder /\ KnownInv /\ LiveOrdersAreKnown /\ RoomInv
  /\ [Next]_vars
  => RoomInv'
<1> SUFFICES ASSUME Types, RecordInv, RecordsOwnOrder, KnownInv, LiveOrdersAreKnown, RoomInv,
                    [Next]_vars, faults' = 0, job'.at \in {"guard", "post"},
                    NEW symbol, symbol = Asks[Head(queue')].symbol
             PROVE  /\ Cardinality(LiveOnes') < MaxOpenOrders
                    /\ Cardinality(LiveOf(symbol)') < MaxOpenPerSymbol
  BY DEF RoomInv
<1>1. Uuids' = Uuids
  <2>1. ASSUME NEW r \in Request, PostAnswered(r) PROVE FALSE
    <3>1. job \in JobSet
      BY TypeSets DEF Types
    <3>2. PICK state \in {"WAIT", "DONE"} :
            job' = [job EXCEPT !.at = IF state = "WAIT" THEN "reconcile" ELSE "persist",
                               !.asked = Len(exchange) + 1, !.uuid = Len(exchange) + 1, !.state = state, !.placed = now]
      BY <2>1 DEF PostAnswered
    <3> QED
      BY <3>1, <3>2 DEF JobSet
  <2> QED
    BY <2>1, NewIsKnown, ExchangeKeeps
<1>2. Cardinality(LiveOnes) < MaxOpenOrders /\ Cardinality(LiveOf(symbol)) < MaxOpenPerSymbol
  <2>0. faults = 0
    BY FaultlessSteps
  <2>1. ASSUME NEW r \in Request, RiskPasses(r)
        PROVE  Cardinality(LiveOnes) < MaxOpenOrders /\ Cardinality(LiveOf(symbol)) < MaxOpenPerSymbol
    <3>1. At(r, "risk") /\ ~AtOpenLimit(r) /\ Head(queue') = r
      BY <2>1 DEF RiskPasses, At, Running
    <3> QED
      BY <2>0, <3>1, RoomForOne
  <2>2. CASE job.at \in {"guard", "post"} /\ Head(queue') = Head(queue)
    BY <2>0, <2>2 DEF RoomInv
  <2> QED
    BY <2>1, <2>2, ToTheGuard
<1>3. /\ Cardinality(LiveOnes') \in Nat /\ Cardinality(LiveOnes') <= Cardinality(LiveOnes)
      /\ Cardinality(LiveOf(symbol)') \in Nat
      /\ Cardinality(LiveOf(symbol)') <= Cardinality(LiveOf(symbol))
  BY <1>1, LiveShrinks
<1>4. /\ Cardinality(LiveOnes) \in Nat /\ Cardinality(LiveOf(symbol)) \in Nat
      /\ MaxOpenOrders \in Nat /\ MaxOpenPerSymbol \in Nat
  BY FiniteLive, LimitAssumption DEF Types
<1> QED
  BY <1>2, <1>3, <1>4

(* Every step keeps the open orders within the limits.                     *)
LEMMA LimitStep ==
  Types /\ RoomInv /\ OpenOrdersAreLimited /\ [Next]_vars => OpenOrdersAreLimited'
<1> SUFFICES ASSUME Types, RoomInv, OpenOrdersAreLimited, [Next]_vars, faults' = 0
             PROVE  /\ Cardinality(LiveOnes') <= MaxOpenOrders
                    /\ \A r \in Request :
                         Cardinality(LiveOf(Asks[r].symbol)') <= MaxOpenPerSymbol
  <2>1. OpenOrdersAreLimited' <=> (faults' = 0 =>
           /\ Cardinality(LiveOnes') <= MaxOpenOrders
           /\ \A r \in Request : Cardinality(LiveOf(Asks[r].symbol)') <= MaxOpenPerSymbol)
    BY DEF OpenOrdersAreLimited, LiveOf, LiveOnes
  <2> QED
    BY <2>1
<1>0. /\ faults = 0 /\ TypeOK /\ MaxOpenOrders \in Nat /\ MaxOpenPerSymbol \in Nat
      /\ Cardinality(LiveOnes) \in Nat /\ \A s : Cardinality(LiveOf(s)) \in Nat
  BY FaultlessSteps, FiniteLive, LimitAssumption DEF Types
<1>1. /\ Cardinality(LiveOnes) <= MaxOpenOrders
      /\ \A r \in Request : Cardinality(LiveOf(Asks[r].symbol)) <= MaxOpenPerSymbol
  <2>1. OpenOrdersAreLimited <=> (faults = 0 =>
           /\ Cardinality(LiveOnes) <= MaxOpenOrders
           /\ \A r \in Request : Cardinality(LiveOf(Asks[r].symbol)) <= MaxOpenPerSymbol)
    BY DEF OpenOrdersAreLimited, LiveOf, LiveOnes
  <2> QED
    BY <1>0, <2>1
<1>2. CASE Uuids' = Uuids
  BY <1>0, <1>1, <1>2, LiveShrinks
<1>3. CASE Uuids' # Uuids
  <2>1. PICK r \in Request : PostAnswered(r)
    BY <1>3, NewIsKnown, ExchangeKeeps
  <2>2. PICK state \in {"WAIT", "DONE"} : Accepted(r, state, TRUE)
    BY <2>1 DEF PostAnswered
  <2> DEFINE new == Len(exchange) + 1
  <2>3. /\ Uuids' = 1 .. Len(exchange) + 1 /\ Uuids = 1 .. Len(exchange)
        /\ exchange'[new].origin = r /\ \A i \in Uuids : exchange'[i] = exchange[i]
    BY <1>0, <2>2, AcceptedGrows
  <2>4. Len(exchange) \in Nat
    BY <1>0, TypeSets
  <2>5. \A i \in Uuids' : i \in Uuids \/ i = new
    BY <2>3, <2>4
  <2>6. LiveOnes' \subseteq LiveOnes \union {new}
    BY <2>3, <2>5 DEF LiveOnes, Live
  <2>7. ASSUME NEW s
        PROVE  LiveOf(s)' \subseteq LiveOf(s) \union (IF s = Asks[r].symbol THEN {new} ELSE {})
    <3>1. \A i \in LiveOf(s)' : i \in LiveOf(s) \/ (i = new /\ s = Asks[r].symbol)
      BY <2>3, <2>6 DEF LiveOf, LiveOnes
    <3> QED
      BY <3>1
  <2> HIDE DEF new
  <2>8. Cardinality(LiveOnes) < MaxOpenOrders /\ Cardinality(LiveOf(Asks[r].symbol)) < MaxOpenPerSymbol
    BY <1>0, <2>1 DEF RoomInv, PostAnswered, At, Running
  <2>9. ASSUME NEW S, NEW T, IsFiniteSet(S), T \subseteq S \union {new}
        PROVE  Cardinality(T) \in Nat /\ Cardinality(T) <= Cardinality(S) + 1
    <3>0. Cardinality(S) \in Nat
      BY <2>9, FS_CardinalityType
    <3>1. IsFiniteSet(S \union {new}) /\ Cardinality(S \union {new}) \in Nat
          /\ Cardinality(S \union {new}) <= Cardinality(S) + 1
      BY <2>9, <3>0, FS_AddElement
    <3>2. IsFiniteSet(T) /\ Cardinality(T) <= Cardinality(S \union {new})
      BY <2>9, <3>1, FS_Subset
    <3> QED
      BY <3>0, <3>1, <3>2, FS_CardinalityType
  <2>10. Cardinality(LiveOnes') <= MaxOpenOrders
    BY <1>0, <2>6, <2>8, <2>9, FiniteLive
  <2>11. ASSUME NEW q \in Request
         PROVE  Cardinality(LiveOf(Asks[q].symbol)') <= MaxOpenPerSymbol
    <3> DEFINE s == Asks[q].symbol
    <3>1. CASE s = Asks[r].symbol
      <4>1. LiveOf(s)' \subseteq LiveOf(s) \union {new}
        BY <2>7, <3>1
      <4> QED
        BY <1>0, <2>8, <2>9, <3>1, <4>1, FiniteLive
    <3>2. CASE s # Asks[r].symbol
      <4>1. LiveOf(s)' \subseteq LiveOf(s)
        BY <2>7, <3>2
      <4>2. Cardinality(LiveOf(s)') <= Cardinality(LiveOf(s)) /\ Cardinality(LiveOf(s)') \in Nat
        BY <1>0, <4>1, FiniteLive, FS_Subset, FS_CardinalityType
      <4> QED
        BY <1>0, <1>1, <4>2
    <3> QED
      BY <3>1, <3>2
  <2> QED
    BY <2>10, <2>11
<1> QED
  BY <1>2, <1>3
-----------------------------------------------------------------------------
(* The duplicate guard. Where the retention has room for a record of every *)
(* request it drops none, so long as no submission is unclear.             *)
LEMMA RetainsAll ==
  ASSUME NEW S, IsFiniteSet(S), AllKept,
         \A o \in S : o.req \in Request /\ o.nth \in Nat /\ o.state # "UNKNOWN_SUBMIT",
         \A o, p \in S : o.req = p.req => o = p
  PROVE  \A o \in S : o \in Retained(S)
<1> SUFFICES ASSUME NEW o \in S PROVE o \in Retained(S)
  OBVIOUS
<1>1. ~Stale(o)
  BY DEF Stale
<1>2. CASE Open(o)
  BY <1>1, <1>2 DEF Retained
<1>3. CASE ~Open(o)
  <2> DEFINE closed == {p \in S : ~Open(p)}
             later == {c \in closed : c.nth > o.nth}
             f == [p \in S |-> p.req]
  <2>1. CASE ClosedKept = 0
    BY <1>3, <2>1 DEF Retained
  <2>2. CASE Cardinality(Request) <= ClosedKept
    <3>1. f \in [S -> Request] /\ \A p, q \in S : f[p] = f[q] => p = q
      OBVIOUS
    <3>2. f \in Injection(S, Request)
      BY <3>1 DEF Injection, IsInjective
    <3>3. Cardinality(S) <= Cardinality(Request)
      BY <3>2, FS_Injection, RequestAssumption
    <3>4. later \subseteq S \ {o}
      <4>1. ~(o.nth > o.nth)
        OBVIOUS
      <4> QED
        BY <4>1
    <3>5. Cardinality(S \ {o}) = Cardinality(S) - 1 /\ IsFiniteSet(S \ {o})
      BY FS_RemoveElement
    <3>6. IsFiniteSet(later) /\ Cardinality(later) <= Cardinality(S \ {o})
      BY <3>4, <3>5, FS_Subset
    <3>7. /\ Cardinality(S) \in Nat /\ Cardinality(later) \in Nat
          /\ Cardinality(Request) \in Nat /\ ClosedKept \in Nat
      BY <3>6, FS_CardinalityType, RequestAssumption, LimitAssumption
    <3>8. Cardinality(later) < ClosedKept
      BY <2>2, <3>3, <3>5, <3>6, <3>7
    <3> QED
      BY <1>3, <3>8 DEF Retained
  <2> QED
    BY <2>1, <2>2 DEF AllKept
<1> QED
  BY <1>2, <1>3

(* The retention drops nothing if all records are to be kept.              *)
LEMMA RecordsRetained ==
  ASSUME Types, RecordInv, KnownInv, faults = 0, AllKept
  PROVE  \A o \in orders : o \in Retained(orders)
<1>1. \A o \in orders : o.req \in Request /\ o.nth \in Nat
  BY TypeSets DEF Types, RecordSet
<1>2. \A o \in orders : o.state # "UNKNOWN_SUBMIT"
  <2>1. \A i \in Uuids : exchange[i].state # "UNKNOWN_SUBMIT"
    <3>1. \A i \in Uuids : exchange[i] \in AcceptedSet
      BY TypeSets DEF Types, Uuids
    <3> QED
      BY <3>1 DEF AcceptedSet
  <2> QED
    BY <2>1 DEF KnownInv, Agrees
<1> QED
  BY <1>1, <1>2, RetainsAll DEF RecordInv

(* Then every step keeps a record of every order.                          *)
LEMMA KeptStep ==
  Types /\ QueueInv /\ RecordInv /\ KnownInv /\ KeptInv /\ [Next]_vars => KeptInv'
<1> SUFFICES ASSUME Types, QueueInv, RecordInv, KnownInv, KeptInv, [Next]_vars, faults' = 0,
                    AllKept, NEW i \in Uuids'
             PROVE  Known(i)'
  BY DEF KeptInv, Known, AllKept
<1>1. CASE i \notin Uuids
  BY <1>1, NewIsKnown
<1>2. CASE i \in Uuids
  <2>1. faults = 0
    BY FaultlessSteps
  <2>2. Known(i)
    BY <1>2, <2>1 DEF KeptInv, Known
  <2>3. ASSUME NEW r \in Request, Persist(r)
        PROVE  /\ job.uuid = i => Record(r) \in orders'
               /\ \A o \in orders : o.uuid = i /\ o.uuid # job.uuid => o \in orders'
    <3> DEFINE new == Record(r)
               S == (orders \ SameOrder) \union {new}
    <3>1. orders' = Retained(S)
      BY <2>3 DEF Persist
    <3>2. new.req = r /\ new.state = job.state /\ outcome[r] = "queued"
      BY <2>3, HeadWaits DEF Record, Persist, At
    <3>3. Agrees(job.uuid, job.state, job.placed)
      BY <2>1, <2>3 DEF KnownInv, Persist, At, Submitted
    <3>4. \A k \in Uuids : exchange[k].state # "UNKNOWN_SUBMIT"
      <4>1. \A k \in Uuids : exchange[k] \in AcceptedSet
        BY TypeSets DEF Types, Uuids
      <4> QED
        BY <4>1 DEF AcceptedSet
    <3>5. new.state # "UNKNOWN_SUBMIT" /\ \A o \in orders : o.state # "UNKNOWN_SUBMIT"
      BY <2>1, <3>2, <3>3, <3>4 DEF KnownInv, Agrees
    <3>6. \A o \in orders : o.req \in Request /\ o.nth \in Nat /\ o.req # r
      BY <3>2, TypeSets DEF Types, RecordInv, RecordSet
    <3>n. new.nth \in Nat
      BY <2>3, RecordType DEF Persist, RecordSet
    <3> HIDE DEF new
    <3>7. IsFiniteSet(S)
      <4>1. IsFiniteSet(orders \ SameOrder)
        BY FS_Subset DEF RecordInv
      <4> QED
        BY <4>1, FS_AddElement
    <3>8. \A o \in S : o.req \in Request /\ o.nth \in Nat /\ o.state # "UNKNOWN_SUBMIT"
      BY <3>2, <3>5, <3>6, <3>n
    <3>9. \A o, p \in S : o.req = p.req => o = p
      BY <3>2, <3>6 DEF RecordInv
    <3>10. \A o \in S : o \in orders'
      <4> HIDE DEF S
      <4> QED
        BY <3>1, <3>7, <3>8, <3>9, RetainsAll
    <3> QED
      BY <3>10 DEF SameOrder, new
  <2> QED
    BY <1>2, <2>1, <2>2, <2>3, RecordsRetained, KnownStays
<1> QED
  BY <1>1, <1>2

(* A call that passes the guard has no order like it that counts.          *)
LEMMA PassedTheGuard ==
  ASSUME Types, KnownInv, RecordsOwnOrder, KeptInv, faults = 0, AllKept,
         NEW r \in Request, GuardPasses(r), NEW i \in Uuids,
         Similar(r, exchange[i].origin), now - exchange[i].placed <= Window
  PROVE  exchange[i].state = "CANCELED"
<1>1. job.uuid = 0 /\ 0 \notin Uuids
  BY TypeSets DEF Types, JobInv, GuardPasses, At, Submitted, Uuids
<1>2. PICK o \in orders : o.uuid = i
  BY <1>1 DEF KeptInv
<1>3. /\ o.placed = exchange[i].placed /\ o.state \in {"WAIT", exchange[i].state}
      /\ exchange[i].origin = o.req
  BY <1>1, <1>2 DEF KnownInv, Agrees, RecordsOwnOrder
<1>4. o.state \notin OpenStates \union {"DONE"}
  BY <1>3 DEF GuardPasses, Duplicate
<1>5. exchange[i] \in AcceptedSet
  BY TypeSets DEF Types, Uuids
<1> QED
  BY <1>3, <1>4, <1>5 DEF OpenStates, AcceptedSet

(* Every step keeps that until the order is submitted.                     *)
LEMMA GuardStep ==
  Types /\ RecordsOwnOrder /\ KnownInv /\ KeptInv /\ GuardInv /\ [Next]_vars => GuardInv'
<1> SUFFICES ASSUME Types, RecordsOwnOrder, KnownInv, KeptInv, GuardInv, [Next]_vars,
                    faults' = 0, AllKept, job'.at = "post", NEW r, r = Head(queue'),
                    NEW i \in Uuids', Similar(r, exchange'[i].origin),
                    now' - exchange'[i].placed <= Window
             PROVE  exchange'[i].state = "CANCELED"
  BY DEF GuardInv, AllKept, Similar
<1>0. faults = 0 /\ TypeOK /\ job \in JobSet /\ JobInv
  BY FaultlessSteps, TypeSets DEF Types
<1>1. i \in Uuids
  <2>1. ASSUME NEW q \in Request, PostAnswered(q) PROVE FALSE
    <3>1. PICK state \in {"WAIT", "DONE"} :
            job' = [job EXCEPT !.at = IF state = "WAIT" THEN "reconcile" ELSE "persist",
                               !.asked = Len(exchange) + 1, !.uuid = Len(exchange) + 1, !.state = state, !.placed = now]
      BY <2>1 DEF PostAnswered
    <3> QED
      BY <1>0, <3>1 DEF JobSet
  <2> QED
    BY <2>1, NewIsKnown
<1>2. /\ exchange'[i].origin = exchange[i].origin /\ exchange'[i].placed = exchange[i].placed
      /\ exchange[i].state = "CANCELED" => exchange'[i].state = "CANCELED"
  BY <1>1, ExchangeKeeps
<1>3. now - exchange[i].placed <= Window
  <2>1. exchange[i].placed \in Nat /\ now \in Nat /\ Window \in Nat
    <3>1. exchange[i] \in AcceptedSet /\ now \in 0 .. MaxTime
      BY <1>0, <1>1, TypeSets DEF Uuids
    <3> QED
      BY <3>1, LimitAssumption DEF AcceptedSet
  <2>2. now' \in {now, now + 1}
    <3>1. ASSUME NEW q \in Request,
                 \/ Call(q) \/ Run(q) \/ PrepareFails(q) \/ RiskRejects(q) \/ RiskPasses(q)
                 \/ GuardRejects(q) \/ GuardPasses(q) \/ PostAnswered(q) \/ PostNotReached(q)
                 \/ PostRefused(q) \/ LookSucceeds(q) \/ LookFails(q) \/ Persist(q)
          PROVE  now' = now
      BY <3>1 DEF Call, Run, PrepareFails, RiskRejects, RiskPasses, GuardRejects, GuardPasses,
         PostAnswered, PostNotReached, PostRefused, LookSucceeds, LookFails, Persist
    <3>2. ASSUME (\E k \in Uuids : Close(k)) \/ OtherUpdate \/ Tick \/ UNCHANGED vars
          PROVE  now' \in {now, now + 1}
      BY <3>2 DEF Close, OtherUpdate, Tick, vars
    <3> QED
      BY <3>1, <3>2, FaultlessSteps
  <2> QED
    BY <1>2, <2>1, <2>2
<1>4. ASSUME NEW q \in Request, GuardPasses(q) PROVE exchange[i].state = "CANCELED"
  <2>1. q = r
    BY <1>4 DEF GuardPasses, At, Running
  <2> QED
    BY <1>0, <1>1, <1>2, <1>3, <1>4, <2>1, PassedTheGuard
<1>5. ASSUME NEW q \in Request, RiskPasses(q) PROVE FALSE
  BY <1>0, <1>5 DEF RiskPasses, JobSet
<1>6. CASE job.at = "post" /\ Head(queue') = Head(queue)
  BY <1>0, <1>1, <1>2, <1>3, <1>6 DEF GuardInv
<1>7. job.at = "guard" => \E q \in Request : GuardPasses(q)
  <2>1. ASSUME NEW q \in Request,
               \/ Run(q) \/ PrepareFails(q) \/ RiskRejects(q) \/ RiskPasses(q)
               \/ PostAnswered(q) \/ PostNotReached(q)
               \/ PostRefused(q) \/ LookSucceeds(q) \/ LookFails(q) \/ Persist(q)
        PROVE  job.at # "guard"
    BY <2>1 DEF Run, PrepareFails, RiskRejects, RiskPasses, PostAnswered, PostNotReached,
       PostRefused, LookSucceeds, LookFails, Persist, At
  <2>2. ASSUME NEW q \in Request, GuardRejects(q) PROVE FALSE
    BY <2>2 DEF GuardRejects, Answer, Idle
  <2>3. ASSUME \/ \E q \in Request : Call(q)
               \/ \E k \in Uuids : Close(k)
               \/ OtherUpdate \/ Tick \/ UNCHANGED vars
        PROVE  job.at = "post"
    BY <2>3 DEF Call, Close, OtherUpdate, Tick, vars
  <2> QED
    BY <2>1, <2>2, <2>3, FaultlessSteps
<1> QED
  BY <1>2, <1>4, <1>5, <1>6, <1>7, ToTheGuard

(* No step adds a duplicate.                                               *)
LEMMA DuplicateStep ==
  Types /\ GuardInv /\ NoDuplicateOrders /\ [Next]_vars => NoDuplicateOrders'
<1> SUFFICES ASSUME Types, GuardInv, NoDuplicateOrders, [Next]_vars, faults' = 0, AllKept,
                    NEW i \in Uuids', NEW j \in Uuids', i < j,
                    Similar(exchange'[j].origin, exchange'[i].origin),
                    exchange'[j].placed - exchange'[i].placed <= Window
             PROVE  exchange'[i].state = "CANCELED"
  BY DEF NoDuplicateOrders, AllKept, Similar
<1>0. faults = 0 /\ TypeOK /\ Len(exchange) \in Nat
  BY FaultlessSteps, TypeSets DEF Types
<1>1. CASE i \in Uuids /\ j \in Uuids
  <2>1. exchange[i].state = "CANCELED"
    BY <1>0, <1>1, ExchangeKeeps DEF NoDuplicateOrders, AllKept
  <2> QED
    BY <1>1, <2>1, ExchangeKeeps
<1>2. CASE ~(i \in Uuids /\ j \in Uuids)
  <2>1. PICK r \in Request : PostAnswered(r)
    BY <1>2, NewIsKnown
  <2>2. PICK state \in {"WAIT", "DONE"} : Accepted(r, state, TRUE)
    BY <2>1 DEF PostAnswered
  <2>3. /\ Uuids = 1 .. Len(exchange) /\ Uuids' = 1 .. Len(exchange) + 1
        /\ \A k \in Uuids : exchange'[k] = exchange[k]
        /\ exchange'[Len(exchange) + 1].origin = r /\ exchange'[Len(exchange) + 1].placed = now
    BY <1>0, <2>2, AcceptedGrows
  <2>4. i \in Uuids /\ j = Len(exchange) + 1
    BY <1>0, <1>2, <2>3
  <2>5. job.at = "post" /\ r = Head(queue)
    BY <2>1 DEF PostAnswered, At, Running
  <2> QED
    BY <1>0, <2>3, <2>4, <2>5 DEF GuardInv
<1> QED
  BY <1>1, <1>2
-----------------------------------------------------------------------------
(* All of it together, from the start.                                     *)
FlowInv ==
  /\ Types /\ QueueInv /\ SourceInv /\ RecordInv /\ RecordsOwnOrder /\ ResubmittedOnlyUnheard
  /\ KnownInv /\ LiveOrdersAreKnown /\ RoomInv /\ OpenOrdersAreLimited
  /\ KeptInv /\ GuardInv /\ NoDuplicateOrders

(* The invariant, at the start.                                            *)
LEMMA FlowInit == Init => FlowInv
<1> SUFFICES ASSUME Init PROVE FlowInv
  OBVIOUS
<1>1. /\ Uuids = {} /\ Waiting = {} /\ orders = {} /\ job.at = "idle" /\ job.uuid = 0
      /\ job.asked = 0 /\ overlooked = {}
  BY DEF Init, Uuids, Waiting, Idle
<1>2. QueueInv
  BY <1>1 DEF Init, QueueInv
<1>3. SourceInv /\ KnownInv /\ RecordsOwnOrder /\ ResubmittedOnlyUnheard /\ LiveOrdersAreKnown
      /\ RoomInv /\ KeptInv /\ GuardInv /\ NoDuplicateOrders
  BY <1>1 DEF SourceInv, KnownInv, RecordsOwnOrder, ResubmittedOnlyUnheard, LiveOrdersAreKnown,
     RoomInv, KeptInv, GuardInv, NoDuplicateOrders, Submitted
<1>4. RecordInv
  BY <1>1, FS_EmptySet DEF RecordInv
<1>5. OpenOrdersAreLimited
  <2>1. LiveOnes = {} /\ \A s : LiveOf(s) = {}
    BY <1>1 DEF LiveOnes, LiveOf
  <2>2. Cardinality({}) <= MaxOpenOrders /\ Cardinality({}) <= MaxOpenPerSymbol
    BY FS_EmptySet, LimitAssumption
  <2>3. OpenOrdersAreLimited <=> (faults = 0 =>
           /\ Cardinality(LiveOnes) <= MaxOpenOrders
           /\ \A r \in Request : Cardinality(LiveOf(Asks[r].symbol)) <= MaxOpenPerSymbol)
    BY DEF OpenOrdersAreLimited, LiveOf, LiveOnes
  <2> QED
    BY <2>1, <2>2, <2>3
<1> QED
  BY <1>2, <1>3, <1>4, <1>5, TypesInit DEF FlowInv

(* The invariant always holds.                                             *)
LEMMA FlowAlways == Spec => []FlowInv
<1>1. FlowInv /\ [Next]_vars => FlowInv'
  BY TypesStep, QueueStep, SourceStep, RecordStep, OwnStep, ResubmittedStep, KnownStep, LiveStep,
     RoomStep, LimitStep, KeptStep, GuardStep, DuplicateStep DEF FlowInv
<1> QED
  BY <1>1, FlowInit, PTL DEF Spec

(* getOrderStatus, findByFingerprint: whatever the lists show of the orders*)
(* and whenever, a record is of its request's own order, unless the lists  *)
(* searched for it did not show that order; then it is of one alike and    *)
(* from about the same time.                                               *)
THEOREM OwnOrdersOnly == Spec => []RecordsOwnOrder
<1>1. FlowInv => RecordsOwnOrder
  BY DEF FlowInv
<1> QED
  BY <1>1, FlowAlways, PTL

(* submitWithIdentifierRetry, withRetry and the second endpoint: an order  *)
(* is sent again only while none of its call was answered, whatever is     *)
(* lost or refused, and wherever the process ends.                         *)
THEOREM ResubmittedUnheard == Spec => []ResubmittedOnlyUnheard
<1>1. FlowInv => ResubmittedOnlyUnheard
  BY DEF FlowInv
<1> QED
  BY <1>1, FlowAlways, PTL

(* withOrderSequence, persistOrder, applyStateRetention: while nothing is  *)
(* lost, every open order is on record or about to be, and none is dropped.*)
THEOREM LiveOnesKnown == Spec => []LiveOrdersAreKnown
<1>1. FlowInv => LiveOrdersAreKnown
  BY DEF FlowInv
<1> QED
  BY <1>1, FlowAlways, PTL

(* evaluateRiskForOrder: the limits, checked on records that may be old,   *)
(* hold of the exchange.                                                   *)
THEOREM OpenOrdersLimited == Spec => []OpenOrdersAreLimited
<1>1. FlowInv => OpenOrdersAreLimited
  BY DEF FlowInv
<1> QED
  BY <1>1, FlowAlways, PTL

(* The duplicate guard of placeOrder: while nothing is lost, two like      *)
(* orders lie further apart than its window, unless the first was          *)
(* cancelled, for any window, and any retention that keeps the records.    *)
THEOREM NoDuplicates == Spec => []NoDuplicateOrders
<1>1. FlowInv => NoDuplicateOrders
  BY DEF FlowInv
<1> QED
  BY <1>1, FlowAlways, PTL
=============================================================================
