------------------------ MODULE RealtimeWindowProofs ------------------------
(***************************************************************************)
(* Proofs about RealtimeWindow, for any cap, queue and number of faults,   *)
(* whether or not windows start without candles and streams fail.          *)
(***************************************************************************)
EXTENDS RealtimeWindow, SequenceTheorems, TLAPS

Jobs == TickJob \union {PollJob}

(* Every step of Next, by name.                                            *)
LEMMA Steps ==
  ASSUME [Next]_vars
  PROVE  \/ OpenWindow \/ Tick \/ Poll \/ Close \/ StreamFails \/ PostCheck \/ Return
         \/ DecideTick \/ DecidePoll \/ PrepareSell \/ PrepareBuy
         \/ OrderPlaced \/ OrderNotReached \/ OrderAnswerLost \/ OrderRefused
         \/ JobFails \/ Crash \/ PriceMoves \/ CacheExpires
         \/ CooldownEnds \/ BackoffEnds \/ ExitCooldownEnds
         \/ UNCHANGED vars
  BY DEF Next, Work, Ends, Timers, Faults
-----------------------------------------------------------------------------
(* Type correctness.                                                       *)
LEMMA ClosedType == Closed \in Windows
  BY BoundsAssumption DEF Closed, Windows

(* A window whose job is done is a window.                                 *)
LEMMA DoneType ==
  ASSUME NEW w \in Windows, w.chain # <<>>
  PROVE  /\ Done(w) \in Windows
         /\ Done(w).at = "start" /\ Done(w).side = "none" /\ ~Done(w).forced
         /\ Done(w).phase = w.phase
         /\ Done(w).bought = w.bought /\ Done(w).successes = w.successes
<1> DEFINE c == Tail(w.chain)
<1>1. c \in Seq(Jobs)
  BY DEF Windows, Jobs
<1> HIDE DEF c
<1>2. Done(w) = [w EXCEPT !.chain = c, !.at = "start", !.side = "none",
                          !.forced = FALSE, !.blind = FALSE]
  BY DEF Done, c
<1> QED
  BY <1>1, <1>2 DEF Windows, Jobs

WinOK ==
  /\ win \in Windows
  /\ win.at # "start" => win.chain # <<>> /\ win.side # "none"
  /\ win.phase = "closed" => win.chain = <<>>

RestOK ==
  /\ held \in BOOLEAN /\ {cache, snapshot} \subseteq {"none", "held", "flat"}
  /\ cache # "none" => snapshot = cache
  /\ exitEvent \in BOOLEAN /\ exitRecent \in BOOLEAN
  /\ falling \in BOOLEAN /\ unheard \in BOOLEAN
  /\ faults \in 0 .. MaxFaults

(* The steps of a job end it, or leave its place in the chain alone.       *)
LEMMA WinStep == WinOK /\ [Next]_vars => WinOK'
<1> SUFFICES ASSUME WinOK, [Next]_vars PROVE WinOK'
  OBVIOUS
<1> USE BoundsAssumption, ChoiceAssumption
<1>0. win \in Windows
  BY DEF WinOK
<1>c. ASSUME win' = Closed PROVE WinOK'
  BY <1>c, ClosedType DEF WinOK, Closed
<1>d. ASSUME NEW w \in Windows, w.chain # <<>>, w.phase # "closed", win' = Done(w)
      PROVE  WinOK'
  BY <1>d, DoneType DEF WinOK
<1>u. ASSUME UNCHANGED win PROVE WinOK'
  BY <1>u DEF WinOK
<1>1. CASE OpenWindow
  <2>1. PICK allowBuy \in BOOLEAN, warm \in {TRUE, ~PreloadMayFail} :
          win' = [Closed EXCEPT !.phase = "open", !.allowBuy = allowBuy, !.warm = warm]
    BY <1>1 DEF OpenWindow
  <2>2. warm \in BOOLEAN
    OBVIOUS
  <2>3. win' \in Windows
    BY <2>1, <2>2, ClosedType DEF Windows
  <2>4. win'.at = "start" /\ win'.phase = "open"
    BY <2>1 DEF Closed
  <2> QED
    BY <2>3, <2>4 DEF WinOK
<1>2. CASE Tick
  <2>1. PICK j \in TickJob :
          win' = [win EXCEPT !.chain = Append(@, j), !.ticked = TRUE] /\ win.phase = "open"
    BY <1>2 DEF Tick
  <2> DEFINE c == Append(win.chain, j)
  <2>2. c \in Seq(Jobs) /\ c # <<>>
    BY <1>0 DEF Windows, Jobs
  <2>3. win' = [win EXCEPT !.chain = c, !.ticked = TRUE]
    BY <2>1
  <2> HIDE DEF c
  <2> QED
    BY <1>0, <2>1, <2>2, <2>3 DEF WinOK, Windows, Jobs
<1>3. CASE Poll
  <2> DEFINE c == Append(win.chain, PollJob)
  <2>1. win.chain \in Seq(Jobs)
    BY <1>0 DEF Windows, Jobs
  <2>4. PollJob \in Jobs
    BY DEF Jobs
  <2>2. c \in Seq(Jobs) /\ c # <<>>
    BY <2>1, <2>4, AppendProperties
  <2>3. win' = [win EXCEPT !.chain = c] /\ win.phase = "open"
    BY <1>3 DEF Poll
  <2> HIDE DEF c
  <2> QED
    BY <1>0, <2>2, <2>3 DEF WinOK, Windows, Jobs
<1>4. CASE Close \/ StreamFails
  BY <1>4, <1>0 DEF Close, StreamFails, Closing, WinOK, Windows
<1>5. CASE PostCheck
  <2>1. <<PollJob>> \in Seq(Jobs) /\ <<PollJob>> # <<>>
    BY DEF Jobs
  <2>2. win' = [win EXCEPT !.phase = "post", !.chain = <<PollJob>>]
    BY <1>5 DEF PostCheck
  <2> QED
    BY <1>0, <2>1, <2>2 DEF WinOK, Windows, Jobs
<1>6. CASE Return \/ Crash
  BY <1>6, <1>c DEF Return, Crash
<1>7. CASE DecideTick
  <2>1. win.chain # <<>> /\ win.phase # "closed"
    BY <1>7 DEF DecideTick, Starting, WinOK
  <2>2. CASE win' = Done(win)
    BY <2>1, <2>2, <1>0, <1>d
  <2>3. CASE \E side \in {"buy", "sell"}, forced \in BOOLEAN :
               win' = [win EXCEPT !.at = "prepare", !.side = side, !.forced = forced]
    BY <2>1, <2>3, <1>0 DEF WinOK, Windows
  <2> QED
    BY <1>0, <1>7, <2>2, <2>3 DEF DecideTick, TickJob, Windows
<1>8. CASE DecidePoll
  <2>1. win.chain # <<>> /\ win.phase # "closed"
    BY <1>8 DEF DecidePoll, Starting, WinOK
  <2>2. CASE win' = Done(win)
    BY <2>1, <2>2, <1>0, <1>d
  <2>3. CASE win' = [win EXCEPT !.at = "prepare", !.side = "sell", !.forced = TRUE]
    BY <2>1, <2>3, <1>0 DEF WinOK, Windows
  <2> QED
    BY <1>8, <2>2, <2>3 DEF DecidePoll
<1>9. CASE PrepareSell \/ PrepareBuy
  <2>1. win.chain # <<>> /\ win.phase # "closed" /\ win.side # "none"
    BY <1>9 DEF PrepareSell, PrepareBuy, WinOK
  <2>2. CASE win' = Done(win)
    BY <2>1, <2>2, <1>0, <1>d
  <2>3. CASE \E blind \in BOOLEAN : win' = [win EXCEPT !.at = "order", !.blind = blind]
    BY <2>1, <2>3, <1>0 DEF WinOK, Windows
  <2> QED
    BY <1>9, <2>2, <2>3 DEF PrepareSell, PrepareBuy
<1>10. CASE OrderPlaced
  <2> DEFINE w == [win EXCEPT !.successes = IF @ < OrderCap THEN @ + 1 ELSE @,
                              !.cooling = win.allowBuy, !.backoff = IsPoll /\ @,
                              !.bought = IF Ordering("buy") THEN @ + 1 ELSE @]
         n == IF win.successes < OrderCap THEN win.successes + 1 ELSE win.successes
         m == IF Ordering("buy") THEN win.bought + 1 ELSE win.bought
         b == IsPoll /\ win.backoff
  <2>3. n \in 0 .. OrderCap /\ m \in Nat /\ win.cooling \in BOOLEAN
    BY <1>0 DEF Windows
  <2>4. b \in BOOLEAN /\ win.allowBuy \in BOOLEAN
    BY <1>0 DEF Windows
  <2>5. w = [win EXCEPT !.successes = n, !.cooling = win.allowBuy, !.backoff = b, !.bought = m]
    OBVIOUS
  <2> HIDE DEF n, m, b, w
  <2>1. w \in Windows /\ w.chain = win.chain /\ w.phase = win.phase
    BY <1>0, <2>3, <2>4, <2>5 DEF Windows
  <2> USE DEF w
  <2>2. win' = Done(w) /\ win.chain # <<>> /\ win.phase # "closed"
    BY <1>10 DEF OrderPlaced, WinOK
  <2> QED
    BY <2>1, <2>2, <1>d
<1>11. CASE OrderNotReached \/ OrderAnswerLost
  <2> DEFINE w == [win EXCEPT !.backoff = @ \/ (win.allowBuy /\ ~IsPoll)]
  <2>1. w \in Windows /\ w.chain = win.chain /\ w.phase = win.phase
    BY <1>0 DEF Windows
  <2>2. win' = Done(w) /\ win.chain # <<>> /\ win.phase # "closed"
    BY <1>11 DEF OrderNotReached, OrderAnswerLost, AfterRetryable, Accepts, WinOK
  <2> QED
    BY <2>1, <2>2, <1>d
<1>12. CASE OrderRefused
  <2> DEFINE w == [win EXCEPT !.blocked = @ \/ ~IsPoll]
  <2>1. w \in Windows /\ w.chain = win.chain /\ w.phase = win.phase
    BY <1>0 DEF Windows
  <2>2. win' = Done(w) /\ win.chain # <<>> /\ win.phase # "closed"
    BY <1>12 DEF OrderRefused, WinOK
  <2> QED
    BY <2>1, <2>2, <1>d
<1>13. CASE JobFails
  <2> DEFINE w == IF IsPoll THEN win ELSE [Closing(win) EXCEPT !.failed = TRUE]
  <2>1. w \in Windows /\ w.chain = win.chain /\ (w.phase = "closed" => win.phase = "closed")
    <3>1. CASE IsPoll
      BY <3>1, <1>0
    <3>2. CASE ~IsPoll
      <4> DEFINE v == Closing(win)
      <4>1. v \in Windows /\ v.chain = win.chain /\ (v.phase = "closed" => win.phase = "closed")
        BY <1>0 DEF Windows, Closing
      <4>2. w = [v EXCEPT !.failed = TRUE]
        BY <3>2
      <4> HIDE DEF v, w
      <4> QED
        BY <4>1, <4>2 DEF Windows
    <3> QED
      BY <3>1, <3>2
  <2>2. win' = Done(w) /\ win.chain # <<>> /\ win.phase # "closed"
    BY <1>13 DEF JobFails, WinOK
  <2> QED
    BY <2>1, <2>2, <1>d
<1>14. CASE CooldownEnds \/ BackoffEnds
  BY <1>14, <1>0 DEF CooldownEnds, BackoffEnds, WinOK, Windows
<1>15. CASE PriceMoves \/ CacheExpires \/ ExitCooldownEnds \/ UNCHANGED vars
  BY <1>15, <1>u DEF PriceMoves, CacheExpires, ExitCooldownEnds, vars
<1> QED
  BY <1>1, <1>2, <1>3, <1>4, <1>5, <1>6, <1>7, <1>8, <1>9, <1>10, <1>11, <1>12, <1>13,
     <1>14, <1>15, Steps

(* The saved account is the cached one, and faults are counted.            *)
LEMMA RestStep == WinOK /\ RestOK /\ [Next]_vars => RestOK'
<1> SUFFICES ASSUME WinOK, RestOK, [Next]_vars PROVE RestOK'
  OBVIOUS
<1> USE BoundsAssumption DEF RestOK
<1>f. Fault => faults' \in 0 .. MaxFaults
  BY DEF Fault
<1>r. ASSUME NEW view \in BOOLEAN, NEW blind \in BOOLEAN, Read(view, blind)
      PROVE  /\ {cache', snapshot'} \subseteq {"none", "held", "flat"}
             /\ cache' # "none" => snapshot' = cache'
  BY <1>r DEF Read, Says, saved
<1>l. LoadsAccount => /\ {cache', snapshot'} \subseteq {"none", "held", "flat"}
                      /\ cache' # "none" => snapshot' = cache'
                      /\ faults' \in 0 .. MaxFaults
  BY <1>r, <1>f DEF LoadsAccount, LoadAccount
<1>a. Accepts => held' \in BOOLEAN /\ exitRecent' \in BOOLEAN
  BY DEF Accepts, Ordering, Windows, WinOK
<1>1. CASE OpenWindow \/ Tick \/ Poll \/ Close \/ StreamFails \/ PostCheck \/ Return
  BY <1>1 DEF OpenWindow, Tick, Poll, Close, StreamFails, PostCheck, Return,
              account, saved, exits
<1>2. CASE PriceMoves \/ CacheExpires \/ CooldownEnds \/ BackoffEnds \/ ExitCooldownEnds
  BY <1>2 DEF PriceMoves, CacheExpires, CooldownEnds, BackoffEnds, ExitCooldownEnds,
              account, saved, exits
<1>3. CASE UNCHANGED vars
  BY <1>3 DEF vars
<1>4. CASE DecideTick
  <2>1. UNCHANGED <<held, exits, falling, unheard>>
    BY <1>4 DEF DecideTick
  <2>2. LoadsAccount \/ UNCHANGED <<saved, faults>>
    BY <1>4 DEF DecideTick, LoadsAccount
  <2> QED
    BY <2>1, <2>2, <1>l DEF exits, saved
<1>5. CASE DecidePoll
  <2>1. UNCHANGED <<held, exits, falling, unheard>> /\ LoadsAccount
    BY <1>5 DEF DecidePoll, LoadsAccount
  <2> QED
    BY <2>1, <1>l DEF exits
<1>6. CASE PrepareSell
  <2>1. LoadsAccount /\ UNCHANGED <<held, exitRecent, falling, unheard>>
    BY <1>6 DEF PrepareSell, LoadsAccount
  <2>2. PICK view \in BOOLEAN : exitEvent' = (exitEvent \/ (win.forced /\ (view \/ ~IsPoll)))
    BY <1>6 DEF PrepareSell
  <2>3. exitEvent' \in BOOLEAN
    BY <2>2
  <2> QED
    BY <2>1, <2>3, <1>l
<1>7. CASE PrepareBuy
  <2>1. LoadsAccount /\ UNCHANGED <<held, exits, falling, unheard>>
    BY <1>7 DEF PrepareBuy, LoadsAccount
  <2> QED
    BY <2>1, <1>l DEF exits
<1>8. CASE OrderPlaced
  <2>1. Accepts /\ UNCHANGED <<exitEvent, falling, unheard>> /\ cache' = "none"
    BY <1>8 DEF OrderPlaced
  <2>2. snapshot' \in {"none", "held", "flat"} /\ faults' \in 0 .. MaxFaults
    BY <1>8, <1>f DEF OrderPlaced, Says
  <2> QED
    BY <2>1, <2>2, <1>a
<1>9. CASE OrderAnswerLost
  <2>1. Accepts /\ Fault /\ UNCHANGED <<exitEvent, falling>>
    BY <1>9 DEF OrderAnswerLost
  <2>2. \E view \in BOOLEAN : Read(view, FALSE)
    BY <1>9 DEF OrderAnswerLost
  <2>3. unheard' \in BOOLEAN
    BY <1>9 DEF OrderAnswerLost
  <2> QED
    BY <2>1, <2>2, <2>3, <1>a, <1>f, <1>r
<1>10. CASE OrderNotReached \/ OrderRefused
  <2>1. LoadsAccount /\ UNCHANGED <<held, exits, falling, unheard>>
    BY <1>10 DEF OrderNotReached, OrderRefused
  <2> QED
    BY <2>1, <1>l DEF exits
<1>11. CASE JobFails
  <2>1. Fault /\ UNCHANGED <<account, exits, falling, unheard>>
    BY <1>11 DEF JobFails
  <2> QED
    BY <2>1, <1>f DEF account, saved, exits
<1>12. CASE Crash
  <2>1. Fault /\ cache' = "none" /\ UNCHANGED <<held, snapshot, exits, falling, unheard>>
    BY <1>12 DEF Crash
  <2> QED
    BY <2>1, <1>f DEF exits
<1> QED
  BY <1>1, <1>2, <1>3, <1>4, <1>5, <1>6, <1>7, <1>8, <1>9, <1>10, <1>11, <1>12, Steps

(* The types, at the start.                                                *)
LEMMA InitOK == Init => WinOK /\ RestOK
<1> SUFFICES ASSUME Init PROVE WinOK /\ RestOK
  OBVIOUS
<1>1. WinOK
  BY ClosedType DEF Init, WinOK, Closed
<1>2. {cache, snapshot} \subseteq {"none"} /\ faults \in 0 .. MaxFaults
  BY BoundsAssumption DEF Init
<1>3. /\ held \in BOOLEAN /\ exitEvent \in BOOLEAN /\ exitRecent \in BOOLEAN
      /\ falling \in BOOLEAN /\ unheard \in BOOLEAN
  BY DEF Init
<1>4. RestOK
  BY <1>2, <1>3 DEF Init, RestOK
<1> QED
  BY <1>1, <1>4

(* The window, the account and the record of exits stay well formed.       *)
THEOREM TypeCorrect == Spec => []TypeOK
<1>1. TypeOK <=> WinOK /\ RestOK
  BY DEF TypeOK, WinOK, RestOK
<1> QED
  BY <1>1, InitOK, WinStep, RestStep, PTL DEF Spec
-----------------------------------------------------------------------------
(* What a job knows when it comes to its order, and what the cached account*)
(* and the record of exits say: an accepted exit is on record, a BUY was   *)
(* decided below the cap and with no exit on record, which only a SELL may *)
(* add to, and an account cached as flat is flat.                          *)
EntryInv == win.bought <= win.successes /\ (win.side = "buy" => win.successes < OrderCap)

ExitInv ==
  /\ exitRecent => exitEvent
  /\ Ordering("sell") /\ win.forced => exitEvent
  /\ win.side = "buy" => ~win.forced /\ ~exitEvent

PositionInv ==
  /\ cache = "flat" /\ held => unheard
  /\ Ordering("buy") /\ held => unheard \/ win.blind

JobInv == EntryInv /\ ExitInv /\ PositionInv

(* A step that leaves account and exits alone, and the job that runs too,  *)
(* or has none run.                                                        *)
JobKept ==
  /\ win'.bought = win.bought /\ win'.successes = win.successes
  /\ \/ win'.at = win.at /\ win'.side = win.side /\ win'.forced = win.forced
        /\ win'.blind = win.blind
     \/ win'.side = "none"

NoJob == win'.bought = 0 /\ win'.successes = 0 /\ win'.side = "none"

(* Steps that leave the job and the account alone keep what it knows.      *)
LEMMA Kept ==
  ASSUME JobInv, WinOK, JobKept \/ NoJob, UNCHANGED <<held, exits, unheard>>,
         cache' = cache \/ (cache' = "flat" => ~held \/ unheard)
  PROVE  JobInv'
<1>1. OrderCap \in Nat \ {0} /\ win.bought \in Nat
  BY BoundsAssumption DEF WinOK, Windows
<1>2. EntryInv'
  BY <1>1 DEF JobInv, EntryInv, JobKept, NoJob
<1>3. ExitInv'
  BY DEF JobInv, ExitInv, JobKept, NoJob, Ordering, exits
<1>4. PositionInv'
  BY DEF JobInv, PositionInv, JobKept, NoJob, Ordering
<1> QED
  BY <1>2, <1>3, <1>4 DEF JobInv

(* A read of the account leaves the cache right, and a job that was told   *)
(* that there is no position is right too, if the exchange said so.        *)
LEMMA ReadIsRight ==
  ASSUME JobInv, NEW view \in BOOLEAN, NEW blind \in BOOLEAN, held \in BOOLEAN,
         Read(view, blind)
  PROVE  /\ cache' = cache \/ (cache' = "flat" => ~held \/ unheard)
         /\ ~view /\ ~blind => ~held \/ unheard
  BY DEF JobInv, PositionInv, Read, Says, saved

(* Every step keeps what a job knows.                                      *)
LEMMA JobStep == WinOK /\ RestOK /\ JobInv /\ [Next]_vars => JobInv'
<1> SUFFICES ASSUME WinOK, RestOK, JobInv, [Next]_vars PROVE JobInv'
  OBVIOUS
<1>0. win \in Windows /\ held \in BOOLEAN
  BY DEF WinOK, RestOK
<1>l. LoadsAccount => cache' = cache \/ (cache' = "flat" => ~held \/ unheard)
  BY <1>0, ReadIsRight DEF LoadsAccount, LoadAccount
<1>d. ASSUME NEW w \in Windows, w.chain # <<>>, win' = Done(w),
             w.bought = win.bought, w.successes = win.successes
      PROVE  JobKept
  BY <1>d, DoneType DEF JobKept
<1>1. CASE OpenWindow
  <2>1. NoJob
    BY <1>1 DEF OpenWindow, NoJob, Closed
  <2> QED
    BY <1>1, <2>1, Kept DEF OpenWindow, account, saved
<1>2. CASE Tick \/ Poll \/ Close \/ StreamFails \/ PostCheck
  <2>1. JobKept
    BY <1>2, <1>0 DEF Tick, Poll, Close, StreamFails, PostCheck, Closing, JobKept, Windows
  <2>2. UNCHANGED <<account, exits, unheard>>
    BY <1>2 DEF Tick, Poll, Close, StreamFails, PostCheck
  <2> QED
    BY <2>1, <2>2, Kept DEF account, saved
<1>3. CASE Return \/ Crash
  <2>1. NoJob
    BY <1>3 DEF Return, Crash, NoJob, Closed
  <2> QED
    BY <1>3, <2>1, Kept DEF Return, Crash, account, saved
<1>4. CASE DecideTick
  <2>1. UNCHANGED <<held, exits, falling, unheard>> /\ win.chain # <<>> /\ win.at = "start"
    BY <1>4 DEF DecideTick, Starting
  <2>2. CASE win' = Done(win)
    <3>1. cache' = cache \/ (cache' = "flat" => ~held \/ unheard)
      BY <1>4, <1>l DEF DecideTick, LoadsAccount, saved
    <3> QED
      BY <1>0, <2>1, <2>2, <3>1, <1>d, Kept
  <2>3. CASE win' # Done(win)
    <3>1. LoadsAccount
      BY <1>4, <2>3 DEF DecideTick, LoadsAccount
    <3>2. PICK side \in {"buy", "sell"}, forced \in BOOLEAN :
            /\ win' = [win EXCEPT !.at = "prepare", !.side = side, !.forced = forced]
            /\ side = "buy" => ~forced /\ ~exitEvent
            /\ ~HeldBack(win, forced)
      BY <1>4, <2>3 DEF DecideTick, TickJob
    <3>3. /\ win'.at = "prepare" /\ win'.side = side /\ win'.forced = forced
          /\ win'.successes = win.successes /\ win'.bought = win.bought
      BY <1>0, <3>2 DEF Windows
    <3>4. side = "buy" => win.successes < OrderCap
      BY <1>0, <3>2, BoundsAssumption DEF HeldBack, Windows
    <3>5. EntryInv'
      BY <3>3, <3>4 DEF JobInv, EntryInv
    <3>6. ExitInv'
      BY <2>1, <3>2, <3>3 DEF JobInv, ExitInv, Ordering, exits
    <3>7. PositionInv'
      BY <2>1, <3>1, <3>3, <1>l DEF JobInv, PositionInv, Ordering
    <3> QED
      BY <3>5, <3>6, <3>7 DEF JobInv
  <2> QED
    BY <2>2, <2>3
<1>5. CASE DecidePoll
  <2>1. UNCHANGED <<held, exits, falling, unheard>> /\ win.chain # <<>> /\ LoadsAccount
    BY <1>5 DEF DecidePoll, Starting, LoadsAccount
  <2>2. CASE win' = Done(win)
    BY <1>0, <2>1, <2>2, <1>l, <1>d, Kept
  <2>3. CASE win' = [win EXCEPT !.at = "prepare", !.side = "sell", !.forced = TRUE]
    <3>1. /\ win'.at = "prepare" /\ win'.side = "sell"
          /\ win'.successes = win.successes /\ win'.bought = win.bought
      BY <1>0, <2>3 DEF Windows
    <3> QED
      BY <2>1, <3>1, <1>l
         DEF JobInv, EntryInv, ExitInv, PositionInv, Ordering, exits
  <2> QED
    BY <1>5, <2>2, <2>3 DEF DecidePoll
<1>6. CASE PrepareSell
  <2>1. /\ UNCHANGED <<held, exitRecent, falling, unheard>> /\ win.chain # <<>>
        /\ win.side = "sell" /\ LoadsAccount
    BY <1>6 DEF PrepareSell, LoadsAccount, WinOK
  <2>2. PICK view \in BOOLEAN, blind \in BOOLEAN :
          /\ exitEvent' = (exitEvent \/ (win.forced /\ (view \/ ~IsPoll)))
          /\ win' = IF view THEN [win EXCEPT !.at = "order", !.blind = blind] ELSE Done(win)
    BY <1>6 DEF PrepareSell
  <2>3. CASE view
    <3>1. /\ win'.side = "sell" /\ win'.forced = win.forced
          /\ win'.successes = win.successes /\ win'.bought = win.bought
      BY <1>0, <2>1, <2>2, <2>3 DEF Windows
    <3>2. exitEvent' = (exitEvent \/ win.forced)
      BY <2>2, <2>3
    <3>3. EntryInv'
      BY <3>1 DEF JobInv, EntryInv
    <3>4. ExitInv'
      BY <2>1, <3>1, <3>2 DEF JobInv, ExitInv, Ordering
    <3>5. PositionInv'
      BY <2>1, <3>1, <1>l DEF JobInv, PositionInv, Ordering
    <3> QED
      BY <3>3, <3>4, <3>5 DEF JobInv
  <2>4. CASE ~view
    <3>1. win'.side = "none" /\ win'.successes = win.successes /\ win'.bought = win.bought
      BY <1>0, <2>1, <2>2, <2>4, DoneType
    <3>2. exitEvent => exitEvent'
      BY <2>2
    <3>3. EntryInv'
      BY <3>1 DEF JobInv, EntryInv
    <3>4. ExitInv'
      BY <2>1, <3>1, <3>2 DEF JobInv, ExitInv, Ordering
    <3>5. PositionInv'
      BY <2>1, <3>1, <1>l DEF JobInv, PositionInv, Ordering
    <3> QED
      BY <3>3, <3>4, <3>5 DEF JobInv
  <2> QED
    BY <2>3, <2>4
<1>7. CASE PrepareBuy
  <2>1. UNCHANGED <<held, exits, falling, unheard>> /\ win.chain # <<>> /\ win.side = "buy"
    BY <1>7 DEF PrepareBuy, WinOK
  <2>2. PICK view \in BOOLEAN, blind \in BOOLEAN :
          /\ Read(view, blind)
          /\ \/ ~view /\ win' = [win EXCEPT !.at = "order", !.blind = blind]
             \/ win' = Done(win)
    BY <1>7 DEF PrepareBuy, LoadAccount
  <2>3. /\ cache' = cache \/ (cache' = "flat" => ~held \/ unheard)
        /\ ~view /\ ~blind => ~held \/ unheard
    BY <1>0, <2>2, ReadIsRight
  <2>4. CASE win' = Done(win)
    BY <1>0, <2>1, <2>3, <2>4, <1>d, Kept
  <2>5. CASE ~view /\ win' = [win EXCEPT !.at = "order", !.blind = blind]
    <3>1. /\ win'.side = "buy" /\ win'.forced = win.forced /\ win'.blind = blind
          /\ win'.successes = win.successes /\ win'.bought = win.bought
      BY <1>0, <2>1, <2>5 DEF Windows
    <3>2. EntryInv'
      BY <2>1, <3>1 DEF JobInv, EntryInv
    <3>3. ExitInv'
      BY <2>1, <3>1 DEF JobInv, ExitInv, Ordering, exits
    <3>4. PositionInv'
      BY <2>1, <2>3, <2>5, <3>1 DEF JobInv, PositionInv, Ordering
    <3> QED
      BY <3>2, <3>3, <3>4 DEF JobInv
  <2> QED
    BY <2>2, <2>4, <2>5
<1>8. CASE OrderPlaced
  <2> DEFINE w == [win EXCEPT !.successes = IF @ < OrderCap THEN @ + 1 ELSE @,
                              !.cooling = win.allowBuy, !.backoff = IsPoll /\ @,
                              !.bought = IF Ordering("buy") THEN @ + 1 ELSE @]
  <2>1. /\ Accepts /\ UNCHANGED <<exitEvent, unheard>> /\ cache' = "none"
        /\ win.at = "order" /\ win' = Done(w)
    BY <1>8 DEF OrderPlaced
  <2>2. /\ win'.side = "none"
        /\ win'.successes = IF win.successes < OrderCap THEN win.successes + 1
                            ELSE win.successes
        /\ win'.bought = IF Ordering("buy") THEN win.bought + 1 ELSE win.bought
    BY <1>0, <2>1 DEF Done, Windows
  <2>3. win.successes \in Nat /\ win.bought \in Nat /\ OrderCap \in Nat
    BY <1>0, BoundsAssumption DEF Windows
  <2>4. EntryInv'
    BY <2>2, <2>3 DEF JobInv, EntryInv, Ordering
  <2>5. ExitInv'
    BY <2>1, <2>2, <1>0 DEF JobInv, ExitInv, Ordering, Accepts, WinOK, Windows
  <2>6. PositionInv'
    BY <2>1, <2>2 DEF PositionInv, Ordering
  <2> QED
    BY <2>4, <2>5, <2>6 DEF JobInv
<1>9. CASE OrderAnswerLost
  <2> DEFINE w == [win EXCEPT !.backoff = @ \/ (win.allowBuy /\ ~IsPoll)]
  <2>1. /\ Accepts /\ UNCHANGED exitEvent /\ win.at = "order" /\ win' = Done(w)
        /\ unheard' = (unheard \/ Ordering("buy"))
    BY <1>9 DEF OrderAnswerLost, AfterRetryable, Accepts
  <2>2. win'.side = "none" /\ win'.successes = win.successes /\ win'.bought = win.bought
    BY <1>0, <2>1 DEF Done, Windows
  <2>3. EntryInv'
    BY <2>2 DEF JobInv, EntryInv
  <2>4. ExitInv'
    BY <2>1, <2>2, <1>0 DEF JobInv, ExitInv, Ordering, Accepts, WinOK, Windows
  <2>5. PositionInv'
    BY <2>1, <2>2 DEF PositionInv, Ordering, Accepts
  <2> QED
    BY <2>3, <2>4, <2>5 DEF JobInv
<1>10. CASE OrderNotReached \/ OrderRefused
  <2>1. UNCHANGED <<held, exits, falling, unheard>> /\ LoadsAccount
    BY <1>10 DEF OrderNotReached, OrderRefused
  <2>2. win'.side = "none" /\ win'.successes = win.successes /\ win'.bought = win.bought
    BY <1>0, <1>10 DEF OrderNotReached, OrderRefused, AfterRetryable, Done, Windows
  <2>3. JobKept
    BY <2>2 DEF JobKept
  <2> QED
    BY <2>1, <2>3, <1>l, Kept
<1>11. CASE JobFails
  <2>1. UNCHANGED <<account, exits, falling, unheard>>
    BY <1>11 DEF JobFails
  <2>2. win'.side = "none" /\ win'.successes = win.successes /\ win'.bought = win.bought
    BY <1>0, <1>11 DEF JobFails, Closing, Done, Windows
  <2>3. JobKept
    BY <2>2 DEF JobKept
  <2> QED
    BY <2>1, <2>3, Kept DEF account, saved
<1>12. CASE PriceMoves \/ CacheExpires \/ CooldownEnds \/ BackoffEnds \/ UNCHANGED vars
  <2>1. JobKept
    BY <1>0, <1>12
       DEF PriceMoves, CacheExpires, CooldownEnds, BackoffEnds, vars, JobKept, Windows
  <2>2. UNCHANGED <<held, exits, unheard>> /\ (cache' = cache \/ cache' = "none")
    BY <1>12
       DEF PriceMoves, CacheExpires, CooldownEnds, BackoffEnds, vars, account, saved, exits
  <2> QED
    BY <2>1, <2>2, Kept
<1>13. CASE ExitCooldownEnds
  BY <1>13
     DEF ExitCooldownEnds, JobInv, EntryInv, ExitInv, PositionInv, Ordering, account, saved
<1> QED
  BY <1>1, <1>2, <1>3, <1>4, <1>5, <1>6, <1>7, <1>8, <1>9, <1>10, <1>11, <1>12, <1>13,
     Steps

(* The invariant always holds.                                             *)
LEMMA JobAlways == Spec => [](WinOK /\ RestOK /\ JobInv)
<1>1. Init => JobInv
  BY BoundsAssumption
     DEF Init, JobInv, EntryInv, ExitInv, PositionInv, Ordering, Closed
<1> QED
  BY <1>1, InitOK, WinStep, RestStep, JobStep, PTL DEF Spec

(* However ticks, polls, failures and cooldowns interleave, a window hears *)
(* of at most maxOrderAttemptsPerWindow BUYs.                              *)
THEOREM EntriesAreCapped == Spec => []EntriesPerWindow
<1>1. WinOK /\ EntryInv => EntriesPerWindow
  BY BoundsAssumption DEF WinOK, Windows, EntryInv, EntriesPerWindow
<1> QED
  BY <1>1, JobAlways, PTL DEF JobInv

(* No BUY follows an accepted protective exit within its cooldown, in      *)
(* whichever window, after a crash or a lost answer.                       *)
THEOREM NoReentry == Spec => []NoReentryAfterExit
<1>1. ExitInv => NoReentryAfterExit
  BY DEF ExitInv, NoReentryAfterExit, Ordering
<1> QED
  BY <1>1, JobAlways, PTL DEF JobInv

(* The BUY of a symbol that is held follows a lost answer or an account    *)
(* that could not be read.                                                 *)
THEOREM SinglePosition == Spec => []OnePosition
<1>1. PositionInv => OnePosition
  BY DEF PositionInv, OnePosition
<1> QED
  BY <1>1, JobAlways, PTL DEF JobInv
=============================================================================
