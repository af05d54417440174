--------------------------- MODULE OrderPlacement ---------------------------
(***************************************************************************)
(* Placing an order: TradingSystem.placeOrder with everything it calls     *)
(* (src/core/trading-system.js), the submission of src/engine/             *)
(* execution-engine.js and the retries, identifier and fallback endpoint   *)
(* of src/exchange/bithumb-client.js, against an exchange that answers,    *)
(* refuses, or accepts an order whose answer is lost.                      *)
(*                                                                         *)
(* placeOrder may be called while another call is under way, and           *)
(* withOrderSequence lets one run at a time. A call is a request with a    *)
(* symbol, a side and an amount; two amounts are near when the duplicate   *)
(* guard would say so. The verdict of the rules on money and holdings is   *)
(* left open; the rules that count open orders are not. Time is a counter  *)
(* of coarse ticks.                                                        *)
(***************************************************************************)
EXTENDS Naturals, FiniteSets, Sequences

CONSTANTS
  Request,           \* the calls of placeOrder
  Asks,              \* Asks[r]: the symbol, side and amount of a request
  Near,              \* the pairs of amounts that count as the same
  MaxOpenOrders,     \* risk.maxOpenOrders
  MaxOpenPerSymbol,  \* risk.maxOpenOrdersPerSymbol
  Window,            \* runtime.duplicateOrderWindowMs, in ticks
  PruneAfter,        \* retention.pruneUnknownSubmitMs, in ticks (0 would turn it off)
  ClosedKept,        \* retention.closedOrders (0: all are kept)
  MaxRetries,        \* exchange.maxRetries
  Looks,             \* status lookups after a submission
  AlikeWithin,       \* the ten minutes of findByFingerprint, in ticks
  RowsShow,          \* what a row of an order list shows besides symbol and side
  KeysAreUnique,     \* does the exchange refuse an identifier used before?
  MaxTime,           \* bound: ticks
  MaxFaults,         \* bound: lost answers, unreadable answers, failed writes, crashes
  NoKey              \* the identifier of an order submitted without one

ASSUME RequestAssumption ==
  /\ IsFiniteSet(Request) /\ NoKey \notin Request
  /\ \A r \in Request : /\ DOMAIN Asks[r] = {"symbol", "side", "amount"}
                         /\ Asks[r].side \in {"buy", "sell"}
                         /\ <<Asks[r].amount, Asks[r].amount>> \in Near

ASSUME LimitAssumption ==
  /\ {MaxOpenOrders, MaxOpenPerSymbol, Looks, PruneAfter} \subseteq Nat \ {0}
  /\ {Window, ClosedKept, MaxRetries, AlikeWithin, MaxTime, MaxFaults} \subseteq Nat
  /\ RowsShow \subseteq {"amount", "time"}
  /\ KeysAreUnique \in BOOLEAN

VARIABLES
  outcome,   \* outcome[r]: what came of the call so far
  queue,     \* the calls chained on orderSequence; the first one runs
  job,       \* the program counter and locals of the running call
  orders,    \* state.orders: what the program knows, numbered as it was pushed
  exchange,  \* the orders the exchange accepted; an order's uuid is its index
  now,       \* the clock
  faults,    \* faults so far
  overlooked \* history: the calls a lookup of which was not shown their order

vars == <<outcome, queue, job, orders, exchange, now, faults, overlooked>>

Idle == [at |-> "idle", path |-> 1, key |-> TRUE, attempt |-> 0, looks |-> 0,
         asked |-> 0, uuid |-> 0, state |-> "none", placed |-> 0]

OpenStates == {"WAIT", "UNKNOWN_SUBMIT"}
Live(i) == exchange[i].state = "WAIT"
Uuids == DOMAIN exchange

Similar(r, q) == /\ Asks[r].symbol = Asks[q].symbol
                 /\ Asks[r].side = Asks[q].side
                 /\ <<Asks[q].amount, Asks[r].amount>> \in Near

Running(r) == queue # <<>> /\ Head(queue) = r
At(r, step) == Running(r) /\ job.at = step
Fault == faults < MaxFaults /\ faults' = faults + 1

Init ==
  /\ outcome = [r \in Request |-> "new"]
  /\ queue = <<>>
  /\ job = Idle
  /\ orders = {}
  /\ exchange = <<>>
  /\ now = 0
  /\ faults = 0
  /\ overlooked = {}
-----------------------------------------------------------------------------
(* applyStateRetention, part of every write: open orders stay, except those*)
(* whose submission has been unclear for too long, then the latest closed. *)
Open(o) == o.state \in OpenStates
Stale(o) == o.state = "UNKNOWN_SUBMIT" /\ now - o.placed > PruneAfter

Retained(S) ==
  LET closed == {o \in S : ~Open(o)}
  IN  {o \in S : Open(o) /\ ~Stale(o)} \union
      {o \in closed : \/ ClosedKept = 0
                     \/ Cardinality({c \in closed : c.nth > o.nth}) < ClosedKept}

(* A write of the state for any other purpose applies it too.              *)
OtherUpdate ==
  /\ orders' = Retained(orders)
  /\ UNCHANGED <<outcome, queue, job, exchange, now, faults, overlooked>>

(* getOpenOrdersCount, over all symbols or for one.                        *)
OpenRecords == {o \in orders : Open(o) /\ ~Stale(o)}
OpenRecordsOf(symbol) == {o \in OpenRecords : Asks[o.req].symbol = symbol}

(* Mutant: one order over the limit gets through.                          *)
OverOpenLimit(r) ==
  \/ Cardinality(OpenRecords) > MaxOpenOrders
  \/ Cardinality(OpenRecordsOf(Asks[r].symbol)) > MaxOpenPerSymbol

AtOpenLimit(r) ==
  \/ Cardinality(OpenRecords) >= MaxOpenOrders
  \/ Cardinality(OpenRecordsOf(Asks[r].symbol)) >= MaxOpenPerSymbol
-----------------------------------------------------------------------------
(* placeOrder is called; withOrderSequence chains it after the others.     *)
Call(r) ==
  /\ outcome[r] = "new"
  /\ outcome' = [outcome EXCEPT ![r] = "queued"]
  /\ queue' = Append(queue, r)
  /\ UNCHANGED <<job, orders, exchange, now, faults, overlooked>>

(* The call that is next in the chain starts.                              *)
Run(r) ==
  /\ At(r, "idle")
  /\ job' = [Idle EXCEPT !.at = "risk"]
  /\ UNCHANGED <<outcome, queue, orders, exchange, now, faults, overlooked>>

(* The call returns (the catch block included) and the next one may start. *)
Answer(r, result) ==
  /\ outcome' = [outcome EXCEPT ![r] = result]
  /\ queue' = Tail(queue)
  /\ job' = Idle

(* getOrderChance or another read fails: nothing was submitted.            *)
PrepareFails(r) ==
  /\ At(r, "risk")
  /\ Answer(r, "failed")
  /\ UNCHANGED <<orders, exchange, now, faults, overlooked>>

(* evaluateRiskForOrder refuses: an open-order limit is reached, or (unfit)*)
(* amount, cash, holding, exposure or the entry block forbid the order.    *)
RiskRejects(r) ==
  /\ At(r, "risk")
  /\ \/ AtOpenLimit(r) /\ Answer(r, "open_limit")
     \/ ~AtOpenLimit(r) /\ Answer(r, "unfit")
  /\ orders' = Retained(orders)
  /\ UNCHANGED <<exchange, now, faults, overlooked>>

RiskPasses(r) ==
  /\ At(r, "risk") /\ ~AtOpenLimit(r)
  /\ job' = [job EXCEPT !.at = "guard"]
  /\ UNCHANGED <<outcome, queue, orders, exchange, now, faults, overlooked>>

(* Mutant: the guard looks at open orders only.                            *)
DuplicateOpen(r, o) ==
  /\ Similar(r, o.req)
  /\ now - o.placed <= Window
  /\ o.state \in OpenStates

(* The duplicate order guard: a near record, placed within the window,     *)
(* that is open or done.                                                   *)
Duplicate(r, o) ==
  /\ Similar(r, o.req)
  /\ now - o.placed <= Window
  /\ o.state \in OpenStates \union {"DONE"}

GuardRejects(r) ==
  /\ At(r, "guard")
  /\ \E o \in orders : Duplicate(r, o)
  /\ Answer(r, "duplicate")
  /\ orders' = Retained(orders)
  /\ UNCHANGED <<exchange, now, faults, overlooked>>

GuardPasses(r) ==
  /\ At(r, "guard")
  /\ \A o \in orders : ~Duplicate(r, o)
  /\ job' = [job EXCEPT !.at = "post"]
  /\ UNCHANGED <<outcome, queue, orders, exchange, now, faults, overlooked>>
-----------------------------------------------------------------------------
(* The exchange accepts the POST under way, with or without an identifier. *)
KeyTaken(r) == \E i \in Uuids : exchange[i].key = r
Acceptable(r) == ~(KeysAreUnique /\ job.key /\ KeyTaken(r))

Accepted(r, state, answered) ==
  exchange' = Append(exchange, [key    |-> IF job.key THEN r ELSE NoKey,
                                state  |-> state,
                                origin |-> r, answered |-> answered, placed |-> now])

(* The answer arrives: submit() makes a record of it.                      *)
PostAnswered(r) ==
  /\ At(r, "post") /\ Acceptable(r)
  /\ \E state \in {"WAIT", "DONE"} :
       /\ Accepted(r, state, TRUE)
       /\ job' = [job EXCEPT !.at = IF state = "WAIT" THEN "reconcile" ELSE "persist",
                             !.asked = Len(exchange) + 1, !.uuid = Len(exchange) + 1,
                             !.state = state, !.placed = now]
  /\ UNCHANGED <<outcome, queue, orders, now, faults, overlooked>>

(* Mutant: an unreadable answer is taken for a failure and retried.        *)
PostUnreadableRetried(r) ==
  /\ At(r, "post") /\ Acceptable(r) /\ Fault
  /\ Accepted(r, "WAIT", TRUE)
  /\ job' = [job EXCEPT !.key = FALSE]
  /\ UNCHANGED <<outcome, queue, orders, now, overlooked>>

(* The answer arrives without a uuid or a state (an empty or unreadable    *)
(* body counts as a success).                                              *)
PostUnreadable(r) ==
  /\ At(r, "post") /\ Acceptable(r) /\ Fault
  /\ Accepted(r, "WAIT", TRUE)
  /\ job' = [job EXCEPT !.at = "reconcile", !.state = "UNKNOWN_SUBMIT", !.placed = now]
  /\ UNCHANGED <<outcome, queue, orders, now, overlooked>>

(* Mutant: one retry too many.                                             *)
NoAnswerOnceMore(r) ==
  IF job.attempt <= MaxRetries
    THEN job' = [job EXCEPT !.attempt = @ + 1] /\ UNCHANGED <<outcome, queue>>
    ELSE Answer(r, "failed")

(* withRetry: no answer, or a 429 or 5xx. The same POST again, or an error *)
(* that has no fallback: the call fails and leaves no record.              *)
NoAnswer(r) ==
  IF job.attempt < MaxRetries
    THEN job' = [job EXCEPT !.attempt = @ + 1] /\ UNCHANGED <<outcome, queue>>
    ELSE Answer(r, "failed")

PostNotReached(r) ==
  /\ At(r, "post")
  /\ NoAnswer(r)
  /\ UNCHANGED <<orders, exchange, now, faults, overlooked>>

PostAnswerLost(r) ==
  /\ At(r, "post") /\ Acceptable(r) /\ Fault
  /\ Accepted(r, "WAIT", FALSE)
  /\ NoAnswer(r)
  /\ UNCHANGED <<orders, now, overlooked>>

(* Mutant: after the last path comes the first again.                      *)
PostRefusedInTurn(r) ==
  /\ At(r, "post")
  /\ \/ job' = [job EXCEPT !.path = 3 - @, !.key = TRUE, !.attempt = 0] /\ UNCHANGED <<outcome, queue>>
     \/ Answer(r, "failed")
  /\ UNCHANGED <<orders, exchange, now, faults, overlooked>>

(* The exchange refuses. An invalid request (400, 422) with an identifier  *)
(* is sent again without one; then, as after a missing endpoint (404, 405),*)
(* the second path is tried from the start. Any other refusal is final.    *)
PostRefused(r) ==
  /\ At(r, "post")
  /\ \E why \in {"invalid", "no_endpoint", "fatal"} :
       CASE why = "invalid" /\ job.key ->
              job' = [job EXCEPT !.key = FALSE, !.attempt = 0] /\ UNCHANGED <<outcome, queue>>
         [] why # "fatal" /\ ~(why = "invalid" /\ job.key) /\ job.path = 1 ->
              /\ job' = [job EXCEPT !.path = 2, !.key = TRUE, !.attempt = 0]
              /\ UNCHANGED <<outcome, queue>>
         [] OTHER -> Answer(r, "failed")
  /\ UNCHANGED <<orders, exchange, now, faults, overlooked>>
-----------------------------------------------------------------------------
(* findByFingerprint: order i looks like the request, as far as its row    *)
(* shows, and is from about the time the request was placed.               *)
LooksAlike(r, placed, i) ==
  LET order == exchange[i]
  IN  /\ Asks[order.origin].symbol = Asks[r].symbol
      /\ Asks[order.origin].side = Asks[r].side
      /\ "amount" \in RowsShow => Asks[order.origin].amount = Asks[r].amount
      /\ "time" \in RowsShow => /\ order.placed <= placed + AlikeWithin
                                /\ placed <= order.placed + AlikeWithin

OfKey(r) == {i \in Uuids : exchange[i].key = r}

(* Mutant: any order that looks like it will do.                           *)
ListMatchAny(r, rows) ==
  LET alike == {i \in rows : LooksAlike(r, job.placed, i)}
  IN  IF rows \intersect OfKey(r) # {} THEN rows \intersect OfKey(r) ELSE alike

(* findOrderByClientOrderKey, over the rows its pages show: the order with *)
(* this identifier, or else the only one that looks like the request.      *)
ListMatch(r, rows) ==
  LET alike == {i \in rows : LooksAlike(r, job.placed, i)}
  IN  IF rows \intersect OfKey(r) # {} THEN rows \intersect OfKey(r)
      ELSE IF Cardinality(alike) = 1 THEN alike ELSE {}

(* getOrderStatus: by the uuid that the POST's answer named, or else in    *)
(* the lists.                                                              *)
Found(r) == IF job.asked # 0 THEN {job.asked} ELSE ListMatch(r, Uuids)

(* reconcileOrder: a lookup that succeeds refreshes the record, its        *)
(* exchangeOrderId included; a closed state, the last lookup, or a lookup  *)
(* that fails for good ends the loop.                                      *)
Refreshed(i) ==
  [job EXCEPT !.uuid = i, !.state = exchange[i].state, !.looks = @ + 1,
              !.at = IF job.looks + 1 = Looks \/ ~Live(i) THEN "persist" ELSE @]

LookSucceeds(r) ==
  /\ At(r, "reconcile")
  /\ \E i \in Found(r) : job' = Refreshed(i)
  /\ UNCHANGED <<outcome, queue, orders, exchange, now, faults, overlooked>>

(* The order the last POST created is among the rows.                      *)
Shown(r, rows) == \E i \in rows : exchange[i].origin = r /\ exchange[i].placed = job.placed

(* There is no uuid, or the lookups by uuid and identifier are refused (a  *)
(* fault), and the lists that are searched instead show only some orders:  *)
(* a page that is refused is passed over, and a fresh order may not be     *)
(* listed yet.                                                             *)
LookFallsBack(r) ==
  /\ At(r, "reconcile")
  /\ IF job.asked # 0 THEN Fault ELSE UNCHANGED faults
  /\ \E rows \in SUBSET Uuids :
       /\ \E i \in ListMatch(r, rows) : job' = Refreshed(i)
       /\ overlooked' = IF Shown(r, rows) THEN overlooked ELSE overlooked \union {r}
  /\ UNCHANGED <<outcome, queue, orders, exchange, now>>

(* Mutant: the failed lookup makes the whole call fail.                    *)
LookFailsTheCall(r) ==
  /\ At(r, "reconcile")
  /\ Answer(r, "failed")
  /\ UNCHANGED <<orders, exchange, now, faults, overlooked>>

LookFails(r) ==
  /\ At(r, "reconcile")
  /\ \/ job' = [job EXCEPT !.at = "persist"]
     \/ job.looks + 1 < Looks /\ job' = [job EXCEPT !.looks = @ + 1]
  /\ UNCHANGED <<outcome, queue, orders, exchange, now, faults, overlooked>>

(* persistOrder: the record takes the place of one of the same exchange    *)
(* order, or is pushed (its clientOrderKey is new); the retention follows. *)
SameOrder == {o \in orders : o.uuid # 0 /\ o.uuid = job.uuid}

Record(r) ==
  [req |-> r, uuid |-> job.uuid, state |-> job.state, placed |-> job.placed,
   nth |-> IF SameOrder # {} THEN (CHOOSE o \in SameOrder : TRUE).nth
           ELSE Cardinality({q \in Request : outcome[q] = "placed"})]

Persist(r) ==
  /\ At(r, "persist")
  /\ orders' = Retained((orders \ SameOrder) \union {Record(r)})
  /\ Answer(r, "placed")
  /\ UNCHANGED <<exchange, now, faults, overlooked>>

(* The state file cannot be written: the call reports a failure.           *)
PersistFails(r) ==
  /\ At(r, "persist") /\ Fault
  /\ Answer(r, "failed")
  /\ UNCHANGED <<orders, exchange, now, overlooked>>

(* The process is killed and started again: the records are on disk, the   *)
(* calls that were queued or running are gone.                             *)
Crash ==
  /\ Fault
  /\ outcome' = [r \in Request |-> IF outcome[r] = "queued" THEN "lost" ELSE outcome[r]]
  /\ queue' = <<>>
  /\ job' = Idle
  /\ orders' = Retained(orders)
  /\ UNCHANGED <<exchange, now, overlooked>>
-----------------------------------------------------------------------------
(* The exchange fills or cancels an order; time passes.                    *)
Close(i) ==
  /\ Live(i)
  /\ \E state \in {"DONE", "CANCELED"} : exchange' = [exchange EXCEPT ![i].state = state]
  /\ UNCHANGED <<outcome, queue, job, orders, now, faults, overlooked>>

Tick ==
  /\ now < MaxTime
  /\ now' = now + 1
  /\ UNCHANGED <<outcome, queue, job, orders, exchange, faults, overlooked>>

Step(r) ==
  \/ Run(r) \/ PrepareFails(r) \/ RiskRejects(r) \/ RiskPasses(r)
  \/ GuardRejects(r) \/ GuardPasses(r)
  \/ PostAnswered(r) \/ PostNotReached(r) \/ PostRefused(r)
  \/ LookSucceeds(r) \/ LookFails(r) \/ Persist(r)

GoesWrong(r) ==
  PostUnreadable(r) \/ PostAnswerLost(r) \/ LookFallsBack(r) \/ PersistFails(r)

Next ==
  \/ \E r \in Request : Call(r) \/ Step(r) \/ GoesWrong(r)
  \/ \E i \in Uuids : Close(i)
  \/ OtherUpdate \/ Crash \/ Tick

Spec == Init /\ [][Next]_vars

(* Every call the program waits for returns: requests have a timeout.      *)
FairSpec == Spec /\ \A r \in Request : WF_vars(Step(r))
-----------------------------------------------------------------------------
Outcomes == {"new", "queued", "placed", "unfit", "open_limit", "duplicate", "failed", "lost"}
Steps == {"idle", "risk", "guard", "post", "reconcile", "persist"}
OrderStates == OpenStates \union {"DONE", "CANCELED"}

TypeOK ==
  /\ outcome \in [Request -> Outcomes]
  /\ queue \in Seq(Request)
  /\ job \in [at : Steps, path : {1, 2}, key : BOOLEAN, attempt : 0 .. MaxRetries,
              looks : 0 .. Looks, asked : Nat, uuid : Nat, state : OrderStates \union {"none"},
              placed : 0 .. MaxTime]
  /\ orders \subseteq [req : Request, uuid : Nat, state : OrderStates,
                       placed : 0 .. MaxTime, nth : Nat]
  /\ exchange \in Seq([key : Request \union {NoKey}, state : {"WAIT", "DONE", "CANCELED"},
                       origin : Request, answered : BOOLEAN, placed : 0 .. MaxTime])
  /\ now \in 0 .. MaxTime
  /\ faults \in 0 .. MaxFaults
  /\ overlooked \subseteq Request

(* withOrderSequence, placeOrder, applyStateRetention: without lost answers*)
(* and crashes every order open on the exchange is on record, or belongs   *)
(* to the call that is running.                                            *)
LiveOrdersAreKnown ==
  faults = 0 => \A i \in Uuids : Live(i) => job.uuid = i \/ \E o \in orders : o.uuid = i

(* evaluateRiskForOrder: the limits on open orders hold of the exchange    *)
(* itself, although they are checked long before the order is submitted    *)
(* and against records that may be out of date.                            *)
OpenOrdersAreLimited ==
  faults = 0 =>
    /\ Cardinality({i \in Uuids : Live(i)}) <= MaxOpenOrders
    /\ \A r \in Request :
         Cardinality({i \in Uuids : Live(i) /\ Asks[exchange[i].origin].symbol = Asks[r].symbol})
           <= MaxOpenPerSymbol

(* The duplicate guard: two near orders are accepted within the window only*)
(* if the first was cancelled, as long as the records are kept.            *)
NoDuplicateOrders ==
  faults = 0 /\ (ClosedKept = 0 \/ Cardinality(Request) <= ClosedKept) =>
    \A i, j \in Uuids :
      /\ i < j /\ Similar(exchange[j].origin, exchange[i].origin)
      /\ exchange[j].placed - exchange[i].placed <= Window
      => exchange[i].state = "CANCELED"

(* submitWithIdentifierRetry, withRetry and the second endpoint: a request *)
(* is submitted again only when the answer to an accepted POST was lost.   *)
ResubmittedOnlyUnheard ==
  \A i, j \in Uuids : i < j /\ exchange[i].origin = exchange[j].origin => ~exchange[i].answered

(* getOrderStatus, findByFingerprint: a record takes over another order    *)
(* than its own only if the lists searched for it did not show its own, and*)
(* then one that looks like it and is from about the same time.            *)
RecordsOwnOrder ==
  \A o \in orders : o.uuid # 0 =>
    /\ o.uuid \in Uuids
    /\ \/ exchange[o.uuid].origin = o.req
       \/ o.req \in overlooked /\ LooksAlike(o.req, o.placed, o.uuid)

(* Every call of placeOrder returns, through all retries and fallbacks.    *)
EveryCallReturns == \A r \in Request : outcome[r] = "queued" ~> outcome[r] # "queued"

(* README: the risk policy stops entries only, a SELL stays allowed. So a  *)
(* SELL may at most wait for an order that is open on the exchange.        *)
SellRefusedOnlyWhileOrderOpen ==
  \A r \in Request : Asks[r].side = "sell" /\ At(r, "risk") /\ AtOpenLimit(r) =>
    \E i \in Uuids : Live(i)
=============================================================================
