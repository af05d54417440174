------------------------- MODULE TraderServiceProofs -------------------------
(***************************************************************************)
(* Proofs about TraderService, for any markets, lists, holdings and numbers*)
(* of messages and faults.                                                 *)
(***************************************************************************)
EXTENDS TraderService, FiniteSetTheorems, SequenceTheorems, TLAPS

(* The list has no excluded symbol, and neither has what may be entered,   *)
(* unless there is no list.                                                *)
Unlisted == list \in {NoList, {}}

ListInv ==
  /\ Unlisted \/ list \intersect Exclude = {}
  /\ pc = "plan" => target \intersect Exclude = {} \/ Unlisted
  /\ \A n \in DOMAIN plans : plans[n].entry /\ plans[n].symbol \in Exclude => Unlisted

(* One symbol may be entered in a round, after the exits of all others.    *)
EntryInv ==
  /\ \E s \in Symbol : target \subseteq {s}
  /\ pc # "window" => plans = <<>>
  /\ \A n \in DOMAIN plans : plans[n].entry => n = Len(plans)

(* Once a pause was overtaken, no entry is left in the round.              *)
PauseInv ==
  /\ overtaken <= 1
  /\ overtaken # 0 => /\ settings.pause = "on"
                      /\ pc = "plan" => target = {}
                      /\ \A n \in DOMAIN plans : plans[n].entry => open /\ n = 1

(* A stream ends with its socket, but for what was being decoded then, or  *)
(* by the timer; there is no window without a stream that has not ended.   *)
StreamInv ==
  /\ stream.ended => stream.closed
  /\ stream.ended /\ ~stream.forced => ~Alive(stream) /\ (stream.reading > 0 => stream.slow)
  /\ ~open => stream.ended \/ (~Alive(stream) /\ stream.reading = 0)

(* Every step of Next, by name.                                            *)
LEMMA NextSteps ==
  ASSUME [Next]_vars
  PROVE  \/ Start \/ Leave \/ ReadSettings \/ MakePlans \/ OpenWindow \/ Return \/ EndRound
         \/ EndWindow \/ SocketMoves \/ GiveUpClose \/ ReadMessage \/ JobsDone
         \/ Signal \/ Crash \/ StartAgain \/ WriteSettings \/ HoldingsChange \/ UNCHANGED vars
  BY DEF Next, Loop, Window, Outside
-----------------------------------------------------------------------------
(* The lists that can come out of the exchange's answer.                   *)
LEMMA ListsSound ==
  ASSUME NEW l \in Lists
  PROVE  l \subseteq Symbol /\ l \intersect Exclude = {}
<1>1. PICK rows \in Rows : l \in Snapshots(rows)
  BY DEF Lists
<1>2. PICK picked \in SUBSET Candidates(rows) : l = Included(rows) \union picked
  BY <1>1 DEF Snapshots
<1>3. /\ Included(rows) \subseteq Symbol /\ Included(rows) \intersect Exclude = {}
      /\ Candidates(rows) \subseteq Symbol /\ Candidates(rows) \intersect Exclude = {}
  BY UniverseAssumption DEF Included, Candidates
<1> QED
  BY <1>2, <1>3

(* The plans of a round.                                                   *)
PlanSet == [symbol : Symbol, entry : BOOLEAN]

(* A finite set, in some order, is as long as it is large.                 *)
LEMMA SequenceOfSet ==
  ASSUME NEW S, IsFiniteSet(S)
  PROVE  /\ SetToSeq(S) \in Seq(S) /\ Len(SetToSeq(S)) = Cardinality(S)
         /\ Cardinality(S) \in Nat
<1>1. Cardinality(S) \in Nat /\ ExistsBijection(1 .. Cardinality(S), S)
  BY FS_CardinalityType
<1>2. \E f \in [1 .. Cardinality(S) -> S] : IsInjective(f)
  BY <1>1 DEF ExistsBijection, Bijection, Injection
<1>3. SetToSeq(S) \in [1 .. Cardinality(S) -> S]
  BY <1>2 DEF SetToSeq
<1> QED
  BY <1>1, <1>3, SeqDef, LenProperties

(* The plans of a round have one entry at most, at the end.                *)
LEMMA PlansSound ==
  ASSUME NEW protected \in SUBSET Symbol, NEW requested \in SUBSET Symbol,
         NEW s \in Symbol, requested \subseteq {s}
  PROVE  LET made == Plans(protected, requested)
         IN  /\ made \in Seq(PlanSet)
             /\ \A n \in DOMAIN made :
                  made[n].entry => n = Len(made) /\ made[n].symbol \in requested
<1> DEFINE E == {Plan(x, FALSE) : x \in protected \ requested}
           R == {Plan(x, TRUE) : x \in requested}
<1>0. FALSE \in BOOLEAN /\ TRUE \in BOOLEAN
  OBVIOUS
<1>p. \A x \in Symbol, b \in BOOLEAN :
        Plan(x, b) \in PlanSet /\ Plan(x, b).symbol = x /\ Plan(x, b).entry = b
  BY DEF Plan, PlanSet
<1>1. /\ \A p \in E : p \in PlanSet /\ ~p.entry
      /\ \A p \in R : p \in PlanSet /\ p.symbol \in requested
      /\ R \subseteq {Plan(s, TRUE)}
  <2>1. ASSUME NEW p \in E PROVE p \in PlanSet /\ ~p.entry
    BY <1>0, <1>p
  <2>2. ASSUME NEW p \in R PROVE p \in PlanSet /\ p.symbol \in requested
    BY <1>0, <1>p
  <2>3. R \subseteq {Plan(s, TRUE)}
    OBVIOUS
  <2> QED
    BY <2>1, <2>2, <2>3
<1>2. IsFiniteSet(E) /\ IsFiniteSet(R) /\ Cardinality(R) <= 1
  <2>1. IsFiniteSet(protected \ requested)
    BY FS_Subset, UniverseAssumption
  <2>2. IsFiniteSet(E)
    <3> DEFINE f == [x \in protected \ requested |-> Plan(x, FALSE)]
    <3>1. f \in Surjection(protected \ requested, E)
      BY DEF Surjection
    <3> QED
      BY <2>1, <3>1, FS_Surjection
  <2>3. IsFiniteSet({Plan(s, TRUE)}) /\ Cardinality({Plan(s, TRUE)}) = 1
    BY FS_Singleton
  <2> HIDE DEF E, R
  <2>4. IsFiniteSet(R) /\ Cardinality(R) <= Cardinality({Plan(s, TRUE)})
    BY <1>1, <2>3, FS_Subset
  <2> QED
    BY <2>2, <2>3, <2>4
<1> DEFINE e == SetToSeq(E)
           r == SetToSeq(R)
<1>s. /\ e \in Seq(E) /\ r \in Seq(R) /\ Len(e) = Cardinality(E) /\ Len(r) = Cardinality(R)
      /\ Cardinality(E) \in Nat /\ Cardinality(R) \in Nat
  BY <1>2, SequenceOfSet
<1>4. Plans(protected, requested) = e \o r
  BY DEF Plans
<1> HIDE DEF E, R, e, r
<1>3. e \in Seq(E) /\ r \in Seq(R) /\ Len(e) \in Nat /\ Len(r) \in {0, 1}
  BY <1>2, <1>s
<1>5. e \in Seq(PlanSet) /\ r \in Seq(PlanSet)
  BY <1>1, <1>3, SeqMonotonic
<1>6. /\ e \o r \in Seq(PlanSet) /\ Len(e \o r) = Len(e) + Len(r)
      /\ \A n \in 1 .. Len(e) + Len(r) : (e \o r)[n] = IF n <= Len(e) THEN e[n] ELSE r[n - Len(e)]
      /\ DOMAIN (e \o r) = 1 .. Len(e) + Len(r)
  BY <1>5, ConcatProperties, LenProperties
<1>7. ASSUME NEW n \in DOMAIN (e \o r), (e \o r)[n].entry
      PROVE  n = Len(e \o r) /\ (e \o r)[n].symbol \in requested
  <2>1. ~(n <= Len(e))
    <3>1. ASSUME n <= Len(e) PROVE FALSE
      <4>1. (e \o r)[n] = e[n] /\ n \in 1 .. Len(e)
        BY <1>3, <1>6, <3>1
      <4>2. e[n] \in E
        BY <1>3, <4>1, ElementOfSeq
      <4> QED
        BY <1>1, <1>7, <4>1, <4>2
    <3> QED
      BY <3>1
  <2>2. (e \o r)[n] = r[n - Len(e)] /\ n = Len(e) + 1 /\ Len(r) = 1 /\ n - Len(e) = 1
    BY <1>3, <1>6, <2>1
  <2>3. r[n - Len(e)] \in R
    BY <1>3, <2>2, ElementOfSeq
  <2> QED
    BY <1>1, <1>6, <2>2, <2>3
<1> QED
  BY <1>4, <1>6, <1>7

(* The next plan is taken off.                                             *)
LEMMA TailOfPlans ==
  ASSUME plans \in Seq(PlanSet), plans # <<>>
  PROVE  /\ Tail(plans) \in Seq(PlanSet) /\ Len(Tail(plans)) = Len(plans) - 1
         /\ DOMAIN plans = 1 .. Len(plans) /\ DOMAIN Tail(plans) = 1 .. Len(plans) - 1
         /\ Len(plans) \in Nat \ {0} /\ Head(plans) = plans[1]
         /\ \A n \in DOMAIN Tail(plans) : n + 1 \in DOMAIN plans /\ Tail(plans)[n] = plans[n + 1]
<1>1. /\ Tail(plans) \in Seq(PlanSet) /\ Len(Tail(plans)) = Len(plans) - 1
      /\ Len(plans) \in Nat \ {0} /\ Head(plans) = plans[1]
      /\ \A n \in 1 .. Len(Tail(plans)) : Tail(plans)[n] = plans[n + 1]
  BY HeadTailProperties, EmptySeq
<1> QED
  BY <1>1, LenProperties
-----------------------------------------------------------------------------
(* What closing a stream does to it.                                       *)
StreamSet == [socket : {"none", "connecting", "open", "closing", "dead"}, closed : BOOLEAN,
              ended : BOOLEAN, forced : BOOLEAN, slow : BOOLEAN, reading : 0 .. MaxReading]

(* A stream that is new.                                                   *)
LEMMA NewStreams ==
  /\ NoStream \in StreamSet /\ Connecting \in StreamSet
  /\ ~NoStream.ended /\ ~Connecting.ended /\ ~Connecting.closed
  /\ NoStream.socket = "none" /\ NoStream.reading = 0
<1>1. NoStream \in StreamSet
  BY ReadingAssumption DEF NoStream, StreamSet
<1>2. Connecting \in StreamSet /\ Connecting.ended = NoStream.ended
      /\ Connecting.closed = NoStream.closed
  BY <1>1 DEF Connecting, StreamSet
<1> QED
  BY <1>1, <1>2 DEF NoStream

(* Closing a socket ends nothing yet.                                      *)
LEMMA CloseSound ==
  ASSUME NEW s \in StreamSet
  PROVE  LET c == CloseSafely(s)
         IN  /\ c \in StreamSet /\ c.closed
             /\ c.ended = s.ended /\ c.forced = s.forced /\ c.slow = s.slow
             /\ c.reading = s.reading /\ (Alive(c) <=> Alive(s))
<1>1. CASE s.closed
  BY <1>1 DEF CloseSafely
<1>2. CASE ~s.closed
  <2> DEFINE socket == IF Alive(s) THEN "closing" ELSE s.socket
  <2>1. socket \in {"none", "connecting", "open", "closing", "dead"}
        /\ (socket \in {"connecting", "open", "closing"} <=> Alive(s))
    BY DEF StreamSet, Alive
  <2>2. CloseSafely(s) = [s EXCEPT !.closed = TRUE, !.socket = socket]
    BY <1>2 DEF CloseSafely
  <2> HIDE DEF socket
  <2> QED
    BY <2>1, <2>2 DEF StreamSet, Alive
<1> QED
  BY <1>1, <1>2

(* A message that is decoded changes nothing else.                         *)
LEMMA DecodedSound ==
  ASSUME NEW s \in StreamSet, s.reading > 0
  PROVE  LET d == Decoded(s)
         IN  /\ d \in StreamSet /\ d.reading = s.reading - 1
             /\ d.closed = s.closed /\ d.ended = s.ended /\ d.forced = s.forced
             /\ d.slow = s.slow /\ d.socket = s.socket
<1>1. s.reading - 1 \in 0 .. MaxReading
  BY ReadingAssumption DEF StreamSet
<1> QED
  BY <1>1 DEF Decoded, StreamSet
-----------------------------------------------------------------------------
(* Type correctness: of the stream, of the trader and of its windows.      *)
StreamOK == stream \in StreamSet /\ StreamInv

TraderOK ==
  /\ pc \in {"start", "read", "plan", "window", "refresh", "ended"}
  /\ stop \in BOOLEAN /\ settings \in Settings /\ manual \in BOOLEAN
  /\ target \subseteq Symbol /\ plans \in Seq(PlanSet)
  /\ list = NoList \/ list \subseteq Symbol
  /\ held \subseteq Holdable /\ faults \in 0 .. MaxFaults /\ overtaken \in 0 .. 2

WindowOK ==
  /\ open \in BOOLEAN /\ jobs \in BOOLEAN /\ (jobs => open)
  /\ open => pc = "window" /\ plans # <<>>

(* The types of the trader, of its window and of its stream.               *)
LEMMA TypeParts == TypeOK /\ StreamInv <=> TraderOK /\ WindowOK /\ StreamOK
  BY DEF TypeOK, TraderOK, WindowOK, StreamOK, StreamSet, PlanSet

(* A fault leaves the count of faults in its bounds.                       *)
LEMMA FaultType == ASSUME TraderOK, Fault PROVE faults' \in 0 .. MaxFaults
  BY ServiceAssumption DEF TraderOK, Fault

(* Closing the socket of the stream ends nothing yet.                      *)
LEMMA ClosedStream ==
  ASSUME StreamOK
  PROVE  LET c == CloseSafely(stream)
         IN  /\ c \in StreamSet /\ c.closed
             /\ c.ended = stream.ended /\ c.forced = stream.forced /\ c.slow = stream.slow
             /\ c.reading = stream.reading /\ (Alive(c) <=> Alive(stream))
  BY CloseSound DEF StreamOK

(* Closing the stream, or leaving it, changes nothing of what is claimed.  *)
LEMMA StreamKept ==
  ASSUME StreamOK, stream' \in {stream, CloseSafely(stream)}, open' = open
  PROVE  StreamOK'
<1>1. CASE stream' = stream
  BY <1>1 DEF StreamOK, StreamInv
<1>2. CASE stream' = CloseSafely(stream)
  <2>1. /\ stream' \in StreamSet /\ stream'.closed
        /\ stream'.ended = stream.ended /\ stream'.forced = stream.forced
        /\ stream'.slow = stream.slow /\ stream'.reading = stream.reading
        /\ (Alive(stream') <=> Alive(stream))
    BY <1>2, ClosedStream
  <2> QED
    BY <2>1 DEF StreamOK, StreamInv
<1> QED
  BY <1>1, <1>2

(* No stream is a stream that has ended.                                   *)
LEMMA StreamReset ==
  ASSUME stream' = NoStream
  PROVE  StreamOK'
  BY NewStreams DEF StreamOK, StreamInv, Alive

(* Every step keeps the end of a stream where it belongs.                  *)
LEMMA StreamStep ==
  TraderOK /\ WindowOK /\ StreamOK /\ [Next]_vars => StreamOK'
<1> SUFFICES ASSUME TraderOK, WindowOK, StreamOK, [Next]_vars PROVE StreamOK'
  OBVIOUS
<1>0. stream \in StreamSet /\ StreamInv /\ TRUE \in BOOLEAN /\ FALSE \in BOOLEAN
  BY DEF StreamOK
<1>1. CASE \/ Start \/ Leave \/ ReadSettings \/ MakePlans \/ EndRound \/ JobsDone
           \/ WriteSettings \/ HoldingsChange \/ UNCHANGED vars
  <2>1. UNCHANGED <<stream, open>>
    BY <1>1 DEF Start, Leave, ReadSettings, MakePlans, EndRound, JobsDone, WriteSettings,
       HoldingsChange, vars, window, trader
  <2> QED
    BY <2>1, StreamKept
<1>2. CASE OpenWindow
  <2>1. CASE open' = TRUE
    <3>1. stream' = CloseSafely(Connecting) \/ stream' = Connecting
      BY <1>2, <2>1 DEF OpenWindow
    <3>2. stream' \in StreamSet /\ ~stream'.ended
      BY <3>1, NewStreams, CloseSound
    <3> QED
      BY <2>1, <3>2 DEF StreamOK, StreamInv
  <2>2. CASE UNCHANGED <<open, stream>>
    BY <2>2, StreamKept
  <2> QED
    BY <1>2, <2>1, <2>2 DEF OpenWindow
<1>3. CASE Return
  <2>1. stream' = stream /\ stream.ended
    BY <1>3 DEF Return
  <2> QED
    BY <1>0, <2>1 DEF StreamOK, StreamInv
<1>4. CASE EndWindow \/ Signal
  BY <1>4, StreamKept DEF EndWindow, Signal
<1>5. CASE SocketMoves
  <2>0. open' = open
    BY <1>5 DEF SocketMoves
  <2>1. CASE OnOpen
    <3>1. stream.socket = "connecting" /\ stream' = [stream EXCEPT !.socket = "open"]
      BY <2>1 DEF OnOpen
    <3>2. /\ stream' \in StreamSet /\ stream'.ended = stream.ended /\ stream'.closed = stream.closed
          /\ stream'.forced = stream.forced /\ Alive(stream)
      BY <1>0, <3>1 DEF StreamSet, Alive
    <3> QED
      BY <1>0, <2>0, <3>2 DEF StreamOK, StreamInv
  <2>2. CASE Receive
    <3>1. /\ stream.socket \in {"open", "closing"} /\ stream.reading < MaxReading
          /\ stream' = [stream EXCEPT !.reading = @ + 1]
      BY <2>2 DEF Receive
    <3>2. stream.reading + 1 \in 0 .. MaxReading
      BY <1>0, <3>1, ReadingAssumption DEF StreamSet
    <3>3. /\ stream' \in StreamSet /\ stream'.ended = stream.ended /\ stream'.closed = stream.closed
          /\ stream'.forced = stream.forced /\ Alive(stream)
      BY <1>0, <3>1, <3>2 DEF StreamSet, Alive
    <3> QED
      BY <1>0, <2>0, <3>3 DEF StreamOK, StreamInv
  <2>3. CASE OnClose
    <3> DEFINE late == stream.reading > 0
    <3>1. stream' = [stream EXCEPT !.socket = "dead", !.closed = TRUE, !.ended = TRUE, !.slow = late]
      BY <2>3 DEF OnClose
    <3>2. late \in BOOLEAN
      OBVIOUS
    <3>3. late <=> stream.reading > 0
      OBVIOUS
    <3> HIDE DEF late
    <3>4. /\ stream' \in StreamSet /\ stream'.socket = "dead" /\ stream'.closed = TRUE
          /\ stream'.ended = TRUE /\ stream'.slow = late /\ stream'.reading = stream.reading
      BY <1>0, <3>1, <3>2 DEF StreamSet
    <3> QED
      BY <1>0, <3>3, <3>4 DEF StreamOK, StreamInv, Alive
  <2> QED
    BY <1>5, <2>1, <2>2, <2>3 DEF SocketMoves
<1>6. CASE GiveUpClose
  <2>1. stream.closed /\ stream' = [stream EXCEPT !.ended = TRUE, !.forced = TRUE]
    BY <1>6 DEF GiveUpClose, ForcedClose
  <2>2. /\ stream' \in StreamSet /\ stream'.ended = TRUE /\ stream'.forced = TRUE
        /\ stream'.closed = stream.closed
    BY <1>0, <2>1 DEF StreamSet
  <2> QED
    BY <2>1, <2>2 DEF StreamOK, StreamInv
<1>7. CASE ReadMessage
  <2> DEFINE d == Decoded(stream)
  <2>1. /\ d \in StreamSet /\ d.reading = stream.reading - 1
        /\ d.closed = stream.closed /\ d.ended = stream.ended /\ d.forced = stream.forced
        /\ d.slow = stream.slow /\ d.socket = stream.socket
    BY <1>0, <1>7, DecodedSound DEF ReadMessage
  <2>2. stream.reading > 0 /\ stream.reading \in Nat /\ open' = open /\ stream' \in {d, CloseSafely(d)}
    BY <1>0, <1>7 DEF ReadMessage, StreamSet
  <2> HIDE DEF d
  <2>3. /\ stream' \in StreamSet /\ stream'.ended = d.ended /\ stream'.forced = d.forced
        /\ stream'.slow = d.slow /\ stream'.reading = d.reading
        /\ stream'.closed = d.closed \/ stream'.closed
        /\ (Alive(stream') <=> Alive(d))
    BY <2>1, <2>2, CloseSound
  <2>4. Alive(d) <=> Alive(stream)
    BY <2>1 DEF Alive
  <2> QED
    BY <1>0, <2>1, <2>2, <2>3, <2>4 DEF StreamOK, StreamInv
<1>8. CASE Crash \/ StartAgain
  BY <1>8, StreamReset DEF Crash, StartAgain, Reset
<1> QED
  BY <1>1, <1>2, <1>3, <1>4, <1>5, <1>6, <1>7, <1>8, NextSteps
-----------------------------------------------------------------------------
(* The trader and its rounds.                                              *)
RoundInv == TraderOK /\ WindowOK /\ EntryInv /\ ListInv /\ PauseInv

(* Steps that leave the round alone.                                       *)
LEMMA RoundKept ==
  ASSUME RoundInv, stop' \in BOOLEAN, held' \subseteq Holdable,
         jobs' \in BOOLEAN, jobs' => open,
         UNCHANGED <<pc, settings, manual, target, plans, list, open, overtaken, faults>>
  PROVE  RoundInv'
  BY DEF RoundInv, TraderOK, WindowOK, EntryInv, ListInv, Unlisted, PauseInv

(* Between two rounds.                                                     *)
LEMMA BetweenRounds ==
  ASSUME RoundInv, pc' \in {"start", "read"}, stop' \in BOOLEAN, plans' = <<>>,
         target' \in {target, {}},
         list' = NoList \/ list' = list \/ list' \in Lists,
         open' = FALSE, jobs' = FALSE,
         UNCHANGED <<settings, manual, held, overtaken>>, faults' \in 0 .. MaxFaults
  PROVE  RoundInv'
<1>1. list' = NoList \/ (list' \subseteq Symbol /\ list' \intersect Exclude = {}) \/ list' = list
  BY ListsSound
<1>2. plans' \in Seq(PlanSet) /\ DOMAIN plans' = {}
  BY EmptySeq
<1> QED
  BY <1>1, <1>2 DEF RoundInv, TraderOK, WindowOK, EntryInv, ListInv, Unlisted, PauseInv

(* Reading the settings keeps the invariant of the round.                  *)
LEMMA ReadStep ==
  ASSUME RoundInv, ReadSettings
  PROVE  RoundInv'
<1> PICK said \in Read, other \in BOOLEAN :
      LET paused == said.pause = "on" \/ (said.pause = "unsaid" /\ manual)
      IN  /\ manual' = IF said.enabled THEN paused ELSE manual
          /\ pc' = IF said.enabled THEN "plan" ELSE "refresh"
          /\ target' = IF paused \/ other THEN {} ELSE FilterSymbols(list, {said.symbol})
          /\ overtaken' = IF settings.pause = "on" /\ said.pause = "unsaid" THEN 0 ELSE overtaken
  BY DEF ReadSettings
<1> DEFINE paused == said.pause = "on" \/ (said.pause = "unsaid" /\ manual)
<1>1. /\ manual' = IF said.enabled THEN paused ELSE manual
      /\ pc' = IF said.enabled THEN "plan" ELSE "refresh"
      /\ target' = IF paused \/ other THEN {} ELSE FilterSymbols(list, {said.symbol})
      /\ overtaken' = IF settings.pause = "on" /\ said.pause = "unsaid" THEN 0 ELSE overtaken
      /\ paused \in BOOLEAN
      /\ said.pause = "on" => paused
  OBVIOUS
<1>2. said.symbol \in Symbol /\ (said = settings \/ said.pause = "unsaid")
  BY ServiceAssumption DEF RoundInv, TraderOK, Settings, Read, Defaults
<1> HIDE DEF paused
<1>3. UNCHANGED <<stop, settings, held, plans, list, open, jobs, faults>> /\ pc = "read"
  BY DEF ReadSettings, world, window
<1>4. /\ target' \subseteq {said.symbol} /\ target' \subseteq Symbol
      /\ target' \intersect Exclude = {} \/ Unlisted
  <2>1. target' = {} \/ target' = FilterSymbols(list, {said.symbol})
    BY <1>1
  <2>2. target' \subseteq {said.symbol} /\ (target' \subseteq list \/ Unlisted)
    BY <2>1 DEF FilterSymbols, Allowed, Unlisted
  <2>3. list \intersect Exclude = {} \/ Unlisted
    BY DEF RoundInv, ListInv
  <2> HIDE DEF Unlisted
  <2> QED
    BY <1>2, <2>2, <2>3
<1>t. manual' \in BOOLEAN /\ overtaken' \in {overtaken, 0}
      /\ pc' \in {"start", "read", "plan", "window", "refresh", "ended"}
  <2>1. manual' \in {paused, manual} /\ manual \in BOOLEAN
    BY <1>1 DEF RoundInv, TraderOK
  <2> QED
    BY <1>1, <2>1
<1>5. TraderOK'
  <2>1. overtaken' \in 0 .. 2
    BY <1>t DEF RoundInv, TraderOK
  <2>2. /\ stop' \in BOOLEAN /\ settings' \in Settings /\ plans' \in Seq(PlanSet)
        /\ list' = NoList \/ list' \subseteq Symbol
        /\ held' \subseteq Holdable /\ faults' \in 0 .. MaxFaults
    BY <1>3 DEF RoundInv, TraderOK
  <2> QED
    BY <1>4, <1>t, <2>1, <2>2 DEF TraderOK
<1>6. WindowOK'
  BY <1>3 DEF RoundInv, WindowOK
<1>7. EntryInv'
  BY <1>1, <1>2, <1>3, <1>4 DEF RoundInv, EntryInv
<1>8. ListInv'
  BY <1>3, <1>4 DEF RoundInv, ListInv, Unlisted
<1>9. PauseInv'
  BY <1>1, <1>2, <1>3 DEF RoundInv, PauseInv
<1> QED
  BY <1>5, <1>6, <1>7, <1>8, <1>9 DEF RoundInv

(* Making the plans keeps it.                                              *)
LEMMA PlanStep ==
  ASSUME RoundInv, MakePlans
  PROVE  RoundInv'
<1>1. /\ pc = "plan" /\ pc' = "window" /\ target' = {}
      /\ UNCHANGED <<stop, settings, held, manual, list, open, jobs, overtaken>>
  BY DEF MakePlans, world, window
<1>2. PICK protected \in SUBSET Symbol : plans' = Plans(protected, target)
  BY ServiceAssumption DEF MakePlans, RoundInv, TraderOK
<1>3. PICK s \in Symbol : target \subseteq {s}
  BY DEF RoundInv, EntryInv
<1>4. target \in SUBSET Symbol
  BY DEF RoundInv, TraderOK
<1>5. ASSUME NEW made, made = Plans(protected, target)
      PROVE  /\ made \in Seq(PlanSet)
             /\ \A n \in DOMAIN made :
                  made[n].entry => n = Len(made) /\ made[n].symbol \in target
  BY <1>3, <1>4, <1>5, PlansSound
<1>6. /\ plans' \in Seq(PlanSet)
      /\ \A n \in DOMAIN plans' :
           plans'[n].entry => n = Len(plans') /\ plans'[n].symbol \in target
  BY <1>2, <1>5
<1>7. faults' \in 0 .. MaxFaults
  BY FaultType DEF MakePlans, RoundInv, TraderOK
<1>8. TraderOK'
  BY <1>1, <1>6, <1>7 DEF RoundInv, TraderOK
<1>9. WindowOK'
  BY <1>1 DEF RoundInv, WindowOK
<1>10. EntryInv'
  BY <1>1, <1>3, <1>6 DEF EntryInv
<1>11. ListInv'
  BY <1>1, <1>6 DEF RoundInv, ListInv, Unlisted
<1>12. PauseInv'
  BY <1>1, <1>6 DEF RoundInv, PauseInv
<1> QED
  BY <1>8, <1>9, <1>10, <1>11, <1>12 DEF RoundInv

(* The next plan has its turn: it was run, or could not be.                *)
LEMMA NextPlan ==
  ASSUME RoundInv, pc = "window", plans # <<>>, plans' = Tail(plans),
         open' = FALSE, jobs' = FALSE, faults' \in 0 .. MaxFaults,
         UNCHANGED <<pc, stop, settings, held, manual, target, list, overtaken>>
  PROVE  RoundInv'
<1>1. /\ plans' \in Seq(PlanSet) /\ Len(plans') = Len(plans) - 1
      /\ DOMAIN plans = 1 .. Len(plans) /\ DOMAIN plans' = 1 .. Len(plans) - 1
      /\ Len(plans) \in Nat \ {0}
      /\ \A n \in DOMAIN plans' : n + 1 \in DOMAIN plans /\ plans'[n] = plans[n + 1]
  BY TailOfPlans DEF RoundInv, TraderOK
<1>2. TraderOK' /\ WindowOK'
  BY <1>1 DEF RoundInv, TraderOK, WindowOK
<1>3. EntryInv'
  BY <1>1 DEF RoundInv, EntryInv
<1>4. ListInv'
  BY <1>1 DEF RoundInv, ListInv, Unlisted
<1>5. PauseInv'
  BY <1>1 DEF RoundInv, PauseInv
<1> QED
  BY <1>2, <1>3, <1>4, <1>5 DEF RoundInv

(* Opening a window keeps it.                                              *)
LEMMA OpenStep ==
  ASSUME RoundInv, OpenWindow
  PROVE  RoundInv'
<1>1. /\ pc = "window" /\ plans # <<>> /\ ~open
      /\ UNCHANGED <<pc, stop, settings, held, manual, target, list, jobs>>
  BY DEF OpenWindow, world
<1>2. CASE Fault /\ plans' = Tail(plans) /\ UNCHANGED <<open, overtaken>>
  <2>1. open' = FALSE /\ jobs' = FALSE
    BY <1>1, <1>2 DEF RoundInv, WindowOK
  <2>2. faults' \in 0 .. MaxFaults
    BY <1>2, FaultType DEF RoundInv
  <2> QED
    BY <1>1, <1>2, <2>1, <2>2, NextPlan
<1>3. CASE /\ open' = TRUE /\ UNCHANGED <<plans, faults>>
           /\ overtaken' = IF Head(plans).entry /\ settings.pause = "on" /\ overtaken < 2
                             THEN overtaken + 1 ELSE overtaken
  <2>1. /\ DOMAIN plans = 1 .. Len(plans) /\ Len(plans) \in Nat \ {0} /\ Head(plans) = plans[1]
    BY <1>1, TailOfPlans DEF RoundInv, TraderOK
  <2>2. overtaken # 0 => ~plans[1].entry /\ \A n \in DOMAIN plans : ~plans[n].entry
    BY <1>1, <2>1 DEF RoundInv, PauseInv
  <2>3. overtaken \in 0 .. 2 /\ overtaken <= 1
    BY DEF RoundInv, TraderOK, PauseInv
  <2>4. CASE overtaken' = overtaken
    BY <1>1, <1>3, <2>2, <2>4
       DEF RoundInv, TraderOK, WindowOK, EntryInv, ListInv, Unlisted, PauseInv
  <2>5. CASE overtaken' # overtaken
    <3>1. /\ plans[1].entry /\ settings.pause = "on" /\ overtaken = 0 /\ overtaken' = 1
      BY <1>3, <2>1, <2>2, <2>3, <2>5
    <3>2. Len(plans) = 1
      BY <2>1, <3>1 DEF RoundInv, EntryInv
    <3>3. PauseInv'
      BY <1>1, <1>3, <2>1, <3>1, <3>2 DEF PauseInv
    <3> QED
      BY <1>1, <1>3, <3>1, <3>3 DEF RoundInv, TraderOK, WindowOK, EntryInv, ListInv, Unlisted
  <2> QED
    BY <2>4, <2>5
<1> QED
  BY <1>2, <1>3 DEF OpenWindow

(* Every step keeps it.                                                    *)
LEMMA RoundStep ==
  RoundInv /\ [Next]_vars => RoundInv'
<1> SUFFICES ASSUME RoundInv, [Next]_vars PROVE RoundInv'
  OBVIOUS
<1>0. TRUE \in BOOLEAN /\ FALSE \in BOOLEAN /\ TraderOK /\ WindowOK
  BY DEF RoundInv
<1>1. CASE \/ EndWindow \/ SocketMoves \/ GiveUpClose \/ JobsDone
           \/ Signal \/ HoldingsChange \/ UNCHANGED vars
  <2>1. UNCHANGED <<pc, settings, manual, target, plans, list, open, overtaken, faults>>
    BY <1>1 DEF EndWindow, SocketMoves, GiveUpClose, JobsDone, Signal, HoldingsChange,
       vars, trader, round, window, world
  <2>2. /\ stop' \in {stop, TRUE} /\ jobs' \in {jobs, FALSE}
        /\ held' = held \/ held' \subseteq Holdable
    BY <1>1 DEF EndWindow, SocketMoves, GiveUpClose, JobsDone, Signal, HoldingsChange,
       vars, trader, round, window, world
  <2>3. stop \in BOOLEAN /\ held \subseteq Holdable /\ jobs \in BOOLEAN /\ (jobs => open)
    BY <1>0 DEF TraderOK, WindowOK
  <2>4. stop' \in BOOLEAN /\ held' \subseteq Holdable
    BY <1>0, <2>2, <2>3
  <2>5. jobs' \in BOOLEAN /\ (jobs' => open)
    <3>1. CASE jobs' = jobs
      BY <2>3, <3>1
    <3>2. CASE jobs' = FALSE
      BY <3>2
    <3> QED
      BY <2>2, <3>1, <3>2
  <2> QED
    BY <2>1, <2>4, <2>5, RoundKept
<1>2. CASE ReadMessage
  <2>1. UNCHANGED <<pc, stop, settings, held, manual, target, plans, list, open, overtaken, faults>>
    BY <1>2 DEF ReadMessage, trader, round, world
  <2> DEFINE more == jobs \/ (open /\ ~stream.ended)
  <2>2. more \in BOOLEAN /\ (more => open) /\ jobs' \in {jobs, more}
    BY <1>0, <1>2 DEF ReadMessage, WindowOK
  <2> HIDE DEF more
  <2> QED
    BY <1>0, <2>1, <2>2, RoundKept DEF TraderOK, WindowOK
<1>3. CASE Start \/ EndRound \/ Leave
  <2>1. UNCHANGED <<stop, settings, held, manual, target, plans, open, jobs, overtaken, faults>>
    BY <1>3 DEF Start, EndRound, Leave, round, world, window
  <2>2. plans = <<>> /\ open = FALSE /\ jobs = FALSE
    BY <1>0, <1>3 DEF Start, EndRound, Leave, WindowOK, RoundInv, EntryInv
  <2>3. CASE Start \/ EndRound
    <3>1. pc' = "read" /\ list' \in Lists \union {list, NoList}
      BY <2>3 DEF Start, EndRound
    <3> QED
      BY <1>0, <2>1, <2>2, <3>1, BetweenRounds DEF TraderOK
  <2>4. CASE Leave
    <3>1. pc' = "ended" /\ list' = list
      BY <2>4 DEF Leave
    <3> QED
      BY <2>1, <2>2, <3>1
         DEF RoundInv, TraderOK, WindowOK, EntryInv, ListInv, Unlisted, PauseInv
  <2> QED
    BY <1>3, <2>3, <2>4
<1>4. CASE Crash \/ StartAgain
  <2>1. UNCHANGED <<settings, held, manual, overtaken>> /\ Reset
    BY <1>4 DEF Crash, StartAgain, world
  <2>2. faults' \in 0 .. MaxFaults
    BY <1>0, <1>4, FaultType DEF Crash, StartAgain, TraderOK
  <2> QED
    BY <1>0, <2>1, <2>2, BetweenRounds DEF Reset
<1>5. CASE Return
  <2>1. /\ open /\ ~jobs /\ open' = FALSE /\ plans' = Tail(plans)
        /\ UNCHANGED <<pc, stop, settings, held, manual, target, list, jobs, overtaken, faults>>
    BY <1>5 DEF Return, world
  <2> QED
    BY <1>0, <2>1, NextPlan DEF TraderOK, WindowOK
<1>6. CASE WriteSettings
  <2>1. /\ settings' \in Settings /\ overtaken' = 0
        /\ UNCHANGED <<pc, stop, held, manual, target, plans, list, open, jobs, faults>>
    BY <1>6 DEF WriteSettings, trader, round, window
  <2> QED
    BY <2>1 DEF RoundInv, TraderOK, WindowOK, EntryInv, ListInv, Unlisted, PauseInv
<1> QED
  BY <1>1, <1>2, <1>3, <1>4, <1>5, <1>6, ReadStep, PlanStep, OpenStep, NextSteps
-----------------------------------------------------------------------------
(* The invariant, at the start.                                            *)
LEMMA InitRound == Init => RoundInv /\ StreamOK
<1> SUFFICES ASSUME Init PROVE RoundInv /\ StreamOK
  OBVIOUS
<1>1. StreamOK
  BY NewStreams DEF Init, StreamOK, StreamInv, Alive
<1>2. plans \in Seq(PlanSet) /\ DOMAIN plans = {}
  BY EmptySeq DEF Init
<1>0. TRUE \in BOOLEAN /\ FALSE \in BOOLEAN /\ 0 \in 0 .. MaxFaults /\ 0 \in 0 .. 2
  BY ServiceAssumption
<1>3. TraderOK /\ WindowOK
  BY <1>0, <1>2 DEF Init, TraderOK, WindowOK
<1>4. EntryInv /\ ListInv /\ PauseInv
  BY <1>2, ServiceAssumption DEF Init, EntryInv, ListInv, Unlisted, PauseInv
<1> QED
  BY <1>1, <1>3, <1>4 DEF RoundInv

(* The invariant always holds.                                             *)
LEMMA Always == Spec => [](RoundInv /\ StreamOK)
<1>1. RoundInv /\ StreamOK /\ [Next]_vars => (RoundInv /\ StreamOK)'
  BY RoundStep, StreamStep DEF RoundInv
<1> QED
  BY <1>1, InitRound, PTL DEF Spec

(* Every variable keeps its type; no window is open, and no job runs, but  *)
(* in the loop over the plans of a round.                                  *)
THEOREM TypeCorrect == Spec => []TypeOK
<1>1. RoundInv /\ StreamOK => TypeOK
  BY TypeParts DEF RoundInv
<1> QED
  BY <1>1, Always, PTL

(* However long the windows of a round last and whatever becomes of them,  *)
(* a pause that the operator asked for is overtaken by one entry at most,  *)
(* because runExecutionService syncs the pause before it plans a round and *)
(* buildExecutionPlans puts the one entry of the round last.               *)
THEOREM PauseBoundsEntries == Spec => []PauseOvertakenOnce
<1>1. RoundInv /\ StreamOK => PauseOvertakenOnce
  BY DEF RoundInv, PauseInv, PauseOvertakenOnce
<1> QED
  BY <1>1, Always, PTL

(* For all lists that can come of the exchange's answers, an excluded      *)
(* market is planned for entry only while there is no list: the list does  *)
(* not change between filterSymbols and the last window of the round.      *)
THEOREM ExcludedStayOut == Spec => []ExcludedNotEntered
<1>1. RoundInv /\ StreamOK => ExcludedNotEntered
  BY DEF RoundInv, ListInv, Unlisted, ExcludedNotEntered
<1> QED
  BY <1>1, Always, PTL

(* runStrategyRealtime returns when the stream has ended: a job that comes *)
(* later is of a peer that did not answer close(), or of a message that    *)
(* was being decoded, for any number of messages read at once.             *)
THEOREM JobsStayInWindow == Spec => []JobsEndWithTheirWindow
<1>1. RoundInv /\ StreamOK => JobsEndWithTheirWindow
  BY DEF StreamOK, StreamInv, JobsEndWithTheirWindow
<1> QED
  BY <1>1, Always, PTL
=============================================================================
