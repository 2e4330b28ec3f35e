----------------------------- MODULE PriceMatch -----------------------------
(***************************************************************************)
(* Market data and the prices of calls in callscore-web: the candle        *)
(* refresh (src/scripts/refresh-candles.ts), the bulk load of old candles  *)
(* (src/scripts/backfill-candles-data-vision.ts), the price repair         *)
(* (src/scripts/repair-price-at-call.ts), the price matcher, which runs    *)
(* both as a script and inside a long-lived Hermes worker                  *)
(* (src/scripts/match-prices.ts), and its one-statement variant            *)
(* (src/scripts/match-prices-set-based.ts).                                *)
(*                                                                         *)
(* A price is modelled by the open time of the candle it was read from, so *)
(* that a property can ask where it comes from.  One symbol stands for     *)
(* all: no code relates the candles of two symbols, and the benchmark's    *)
(* columns of a row are quotes like the others.                            *)
(*                                                                         *)
(* Matchers exclude each other with a PostgreSQL advisory lock, which      *)
(* belongs to the connection that took it.  The code takes and releases it *)
(* through query(), that is on whatever connection of the process's pool   *)
(* is at hand, and the pool closes connections that stand idle.            *)
(*                                                                         *)
(* Two scripts run by hand change under a price what it was looked up for: *)
(* backfill-publication-dates.ts and backfill-dates.ts correct the date of *)
(* a call, once its video's date is known, and the second one, like        *)
(* backfill-public-integrity.ts, takes recorded prices back.               *)
(***************************************************************************)
EXTENDS Integers, FiniteSets

CONSTANTS
    Calls,          \* ids of the rows of calls, in the order of the cursor
    Date,           \* call_date of each call as it was inserted, in ticks
    Published,      \* published_at of its video, which may come later
    Quotes,         \* the price columns of a call: at call, 7d, 30d, 90d
    Offset,         \* ticks from call_date to the instant of each quote
    Entry,          \* the quote price_at_call
    Procs,          \* processes that match prices
    Workers,        \* those of them that are Hermes workers
    Conns,          \* connections
    Pool,           \* those that the pool of each process uses for the lock
    ModesOf,        \* the options the schedule, or a job, starts each with
    JobTimes,       \* bound: the ticks at which jobs are queued for a worker
    ByHand,         \* the options a script may be started with by hand
    Traded,         \* the ticks for which the exchange has a candle
    MaxTime,        \* bound: the last tick
    Stale,          \* MAX_STALENESS_MS, in ticks
    Tolerance,      \* binanceToleranceMinutes, in ticks
    Grain,          \* ROUND_MS, in ticks: instants that share a cache entry
    StartDates,     \* --start-date of a refresh
    BatchSize,      \* --batch-size, at most MATCH_CONCURRENCY
    MaxRequests,    \* --max-requests-per-symbol
    MaxHeld,        \* bound: locks one connection may hold
    MaxFaults,      \* bound: faults, repairs and steps by hand in a behaviour
    Hazards         \* which of AllHazards the environment may produce

AllHazards == {"fail",    \* the exchange or a statement fails for good
               "lost",    \* the reply of the lock statement is lost
               "idle",    \* the lock's connection is closed during the work
               "crash",   \* a matching process dies
               "repair",  \* repair-price-at-call.ts is run
               "hand",    \* a matching script is started by hand
               "redate",  \* the date of a call is corrected
               "reset",   \* recorded prices are taken back
              "bulk"}    \* a file of old candles is loaded

\* Options: --all, --fetch-binance, --limit, and the set-based script.
Mode == [all : BOOLEAN, fetch : BOOLEAN, set : BOOLEAN, limit : Nat \ {0}]
NoOptions == [all |-> FALSE, fetch |-> FALSE, set |-> FALSE, limit |-> 1]

Times == 1..MaxTime
Null  == 0      \* SQL NULL, or no candle
Unread == -1    \* not read yet, not cached

ASSUME CallsAssumption ==
    /\ Calls \subseteq Nat /\ IsFiniteSet(Calls)
    /\ Entry \in Quotes
    /\ Offset \in [Quotes -> Nat] /\ Offset[Entry] = 0
    /\ Date \in [Calls -> Times] /\ Published \in [Calls -> Times]

ASSUME BoundsAssumption ==
    /\ Workers \subseteq Procs
    /\ Pool \in [Procs -> SUBSET Conns] /\ JobTimes \subseteq Times
    /\ ModesOf \in [Procs -> SUBSET Mode] /\ ByHand \subseteq Mode
    /\ MaxTime \in Nat \ {0} /\ Traded \subseteq Times
    /\ Stale \in Nat /\ Tolerance \in 0..Stale /\ Grain \in Nat \ {0}
    /\ StartDates \subseteq Times
    /\ BatchSize \in Nat \ {0} /\ MaxRequests \in Nat \ {0}
    /\ MaxHeld \in Nat /\ MaxFaults \in Nat
    /\ Hazards \subseteq AllHazards

VARIABLES
    now,            \* the clock, in ticks
    candles,        \* open_time of the rows of candles
    date,           \* call_date
    price,          \* the price columns of calls
    held,           \* how often each connection holds the advisory lock
    pc, mode,       \* what each matching process does, and its options
    last, seen,     \* lastId, its cursor, and totalSeen
    open,           \* the calls of its batch, with what was read for each
    cache,          \* its priceCache
    ref,            \* the candle refresh: next window, requests left, start date
    fix,            \* the repair: its call and the candle it has found
    faults,
    \* history, read by properties only
    basis,          \* the call date that the recorded prices are for
    misses,         \* entries a process knew as gaps when it started
    vain,           \* instants it has searched for since, and not found
    cut             \* processes whose lock was dropped while they matched

vars == <<now, candles, date, price, held, pc, mode, last, seen, open, cache,
          ref, fix, faults, basis, misses, vain, cut>>

rows    == <<date, price, basis>>
locks   == <<held, cut>>
matcher == <<pc, mode, last, seen, open, cache, misses, vain>>
others  == <<ref, fix>>

\* Where the price columns of a call look.
At(d, q) == d + Offset[q]
Instant(c, q) == At(date[c], q)
Redated(c) == date[c] # Date[c]
Elapsed(c, q) == Instant(c, q) <= now

-----------------------------------------------------------------------------
(* Candles *)

Newest(S) == IF S = {} THEN Null ELSE CHOOSE k \in S : \A j \in S : j <= k

Apart(i, j) == IF i < j THEN j - i ELSE i - j

\* ORDER BY distance, the later one first.
Nearest(S, t) ==
    IF S = {} THEN Null
    ELSE CHOOSE k \in S : \A j \in S :
            \/ Apart(k, t) < Apart(j, t)
            \/ Apart(k, t) = Apart(j, t) /\ j <= k

Near(S, t) == {k \in S : Apart(k, t) <= Tolerance}

\* Seeded faults: the newest candle counts, however old; only the candle of
\* the minute itself counts.
LocalAnyAge(t) == Newest({k \in candles : k <= t})
LocalExact(t) == Newest({k \in candles : k = t})

\* getCandleAt on the table: the newest candle not after the instant, unless
\* it is older than MAX_STALENESS_MS.
Local(t) == Newest({k \in candles : k <= t /\ t - k <= Stale})

\* fetchNearestBinanceCandle: what the exchange has by now.
Exchange == {k \in Traded : k <= now}
Fetch(t) == Nearest(Near(Exchange, t), t)

\* refreshSymbol reads the newest open_time and plans its windows, each one tick
\* long, up to --end-date or the request limit.
NoWindows == [next |-> 1, left |-> 0, start |-> Null]
Refreshing == ref.left > 0
Remaining == IF ref.left = 1 THEN NoWindows
             ELSE [ref EXCEPT !.next = @ + 1, !.left = @ - 1]

\* Seeded fault: the request limit is taken the wrong way round.
Greater(a, b) == IF a < b THEN b ELSE a

Lesser(a, b) == IF a < b THEN a ELSE b

\* buildFetchWindows begins after the newest candle or at the start date,
\* whichever is later.
From(start) == IF candles = {} \/ Newest(candles) < start THEN start
               ELSE Newest(candles) + 1

\* Seeded fault: of all the windows the last ones are kept.
RefreshStartAtEnd(start, end) ==
    /\ ~Refreshing
    /\ From(start) <= end /\ end <= now
    /\ ref' = [next |-> Greater(From(start), end - MaxRequests + 1),
               left |-> Lesser(MaxRequests, end - From(start) + 1),
               start |-> start]
    /\ UNCHANGED <<now, candles, rows, locks, matcher, fix, faults>>

RefreshStart(start, end) ==
    /\ ~Refreshing
    /\ From(start) <= end /\ end <= now
    /\ ref' = [next |-> From(start),
               left |-> Lesser(MaxRequests, end - From(start) + 1),
               start |-> start]
    /\ UNCHANGED <<now, candles, rows, locks, matcher, fix, faults>>

\* One window: fetchKlines and insertCandles, ON CONFLICT DO NOTHING.
RefreshWindow ==
    /\ Refreshing
    /\ candles' = candles \cup ({ref.next} \cap Exchange)
    /\ ref' = Remaining
    /\ UNCHANGED <<now, rows, locks, matcher, fix, faults>>

\* A window throws, or the process dies: the windows after it are given up.
RefreshFails ==
    /\ Refreshing
    /\ "fail" \in Hazards /\ faults < MaxFaults
    /\ ref' = NoWindows
    /\ faults' = faults + 1
    /\ UNCHANGED <<now, candles, rows, locks, matcher, fix>>

\* backfill-candles-data-vision.ts, run by hand, loads the file of one month,
\* whatever the table has.
BulkFile(first, final) ==
    /\ "bulk" \in Hazards /\ faults < MaxFaults
    /\ candles' = candles \cup {k \in Exchange : first <= k /\ k <= final}
    /\ faults' = faults + 1
    /\ UNCHANGED <<now, rows, locks, matcher, others>>

-----------------------------------------------------------------------------
(* Repair of price_at_call: no lock, one call after the other *)

NoRepair  == [call |-> Null, candle |-> Null, date |-> Null]
Repairing == fix # NoRepair

\* repairCall up to its candle: the nearest one of the table, else the
\* nearest one of the exchange, which is stored (insertFetchedCandle).  The
\* batch the call is from may have been read when its price was still missing.
RepairFind(c) ==
    /\ "repair" \in Hazards /\ faults < MaxFaults
    /\ ~Repairing
    /\ date[c] <= now
    /\ LET mine == Nearest(Near(candles, date[c]), date[c])
       IN  \/ /\ mine # Null
              /\ fix' = [call |-> c, candle |-> mine, date |-> date[c]]
              /\ UNCHANGED candles
           \/ /\ mine = Null
              /\ Fetch(date[c]) # Null
              /\ fix' = [call |-> c, candle |-> Fetch(date[c]), date |-> date[c]]
              /\ candles' = candles \cup {Fetch(date[c])}
    /\ faults' = faults + 1
    /\ UNCHANGED <<now, rows, locks, matcher, ref>>

\* UPDATE calls ... WHERE id = $8 AND price_at_call IS NULL.
RepairWrite ==
    /\ Repairing
    /\ IF price[fix.call][Entry] = Null
         THEN /\ price' = [price EXCEPT ![fix.call][Entry] = fix.candle]
              /\ basis' = [basis EXCEPT ![fix.call] = fix.date]
         ELSE UNCHANGED <<price, basis>>
    /\ fix' = NoRepair
    /\ UNCHANGED <<now, candles, date, locks, matcher, ref, faults>>

-----------------------------------------------------------------------------
(* What is done by hand to the rows of calls, with no regard to the matchers *)

Blank == [c \in Calls |-> [q \in Quotes |-> Null]]

\* The publication date of a video is found, and its calls, of which the model
\* has one, get it; prices that are there stay.
Redate(c) ==
    /\ "redate" \in Hazards /\ faults < MaxFaults
    /\ date[c] # Published[c]
    /\ Published[c] <= now
    /\ date' = [date EXCEPT ![c] = Published[c]]
    /\ faults' = faults + 1
    /\ UNCHANGED <<now, candles, price, basis, locks, matcher, others>>

\* UPDATE calls SET price_at_call = NULL, ... without a condition.
Reset ==
    /\ "reset" \in Hazards /\ faults < MaxFaults
    /\ price' = Blank
    /\ faults' = faults + 1
    /\ UNCHANGED <<now, candles, date, basis, locks, matcher, others>>

\* clearPrematureHorizons: prices of horizons that have not elapsed.
ClearPremature ==
    /\ "reset" \in Hazards
    /\ price' = [c \in Calls |-> [q \in Quotes |->
                    IF q # Entry /\ ~Elapsed(c, q) THEN Null ELSE price[c][q]]]
    /\ UNCHANGED <<now, candles, date, basis, locks, matcher, others, faults>>

-----------------------------------------------------------------------------
(* The advisory lock *)

\* Seeded fault: everyone who asks gets the lock.
GrantsAll(p, s) == held[p][s] = 0

\* pg_try_advisory_lock on connection s: granted unless another connection,
\* of this process or of another one, holds the lock.
Grants(p, s) ==
    \A q \in Procs, r \in Conns : held[q][r] > 0 => q = p /\ r = s

\* cacheKey: an instant is rounded down to five minutes.
Key(t) == t - (t % Grain)
Keys == {Key(t) : t \in Times}

\* Every connection of a process that ends is closed.
Unheld == [s \in Conns |-> 0]
Clear  == [k \in Keys |-> Unread]
Closed == [c \in {} |-> 0]

\* The schedule may start a script at any time, a worker only finds a job now
\* and then.
MayStart(p) ==
    /\ pc[p] = "idle"
    /\ p \in Workers => now \in JobTimes

Take(p, s) ==
    /\ Grants(p, s)
    /\ held[p][s] < MaxHeld
    /\ held' = [held EXCEPT ![p][s] = @ + 1]

\* withMatchPricesAdvisoryLock gets the lock and runMatchPrices begins:
\* --all empties the caches.  A busy lock ends the job without a trace.
Start(p, s, m) ==
    /\ MayStart(p)
    /\ Take(p, s)
    /\ pc' = [pc EXCEPT ![p] = "matching"]
    /\ mode' = [mode EXCEPT ![p] = m]
    /\ cache' = [cache EXCEPT ![p] = IF m.all /\ ~m.set THEN Clear ELSE @]
    /\ misses' = [misses EXCEPT ![p] = {k \in Keys : cache'[p][k] = Null}]
    /\ UNCHANGED <<now, candles, rows, cut, last, seen, open, vain, others>>

Begin(p) == \E s \in Pool[p], m \in ModesOf[p] : Start(p, s, m) /\ UNCHANGED faults

\* Somebody starts a script with options of their own (--all, or no limit), or
\* the set-based one, which nothing schedules.
BeginByHand(p) ==
    /\ "hand" \in Hazards /\ faults < MaxFaults
    /\ p \notin Workers
    /\ \E s \in Pool[p], m \in ByHand : Start(p, s, m)
    /\ faults' = faults + 1

\* The reply to pg_try_advisory_lock is lost: query() asks again on another
\* connection, which the first one keeps from the lock; the job ends without
\* work and the first connection goes on holding the lock.
StartLost(p, s) ==
    /\ "lost" \in Hazards /\ faults < MaxFaults
    /\ MayStart(p)
    /\ p \in Workers
    /\ Take(p, s)
    /\ faults' = faults + 1
    /\ UNCHANGED <<now, candles, rows, cut, matcher, others>>

Ends(p) ==
    /\ pc' = [pc EXCEPT ![p] = "idle"]
    /\ last' = [last EXCEPT ![p] = Null]
    /\ seen' = [seen EXCEPT ![p] = 0]
    /\ misses' = [misses EXCEPT ![p] = {}]
    /\ vain' = [vain EXCEPT ![p] = {}]
    /\ mode' = [mode EXCEPT ![p] = NoOptions]
    /\ cut' = IF \A q \in Procs \ {p} : pc[q] = "idle" THEN {} ELSE cut

\* pg_advisory_unlock on whatever connection s is at hand: on one that does
\* not hold the lock it releases nothing and only warns.  A worker keeps its
\* connections and its cache; a script's process ends.
Leave(p, s) ==
    /\ Ends(p)
    /\ IF p \in Workers
         THEN /\ held' = [held EXCEPT ![p][s] = IF @ > 0 THEN @ - 1 ELSE 0]
              /\ UNCHANGED cache
         ELSE /\ held' = [held EXCEPT ![p] = Unheld]
              /\ cache' = [cache EXCEPT ![p] = Clear]

\* A connection that stood idle is closed (idleTimeoutMillis of the pool),
\* and the server lets go of its locks.
Close(p, s) ==
    /\ held[p][s] > 0
    /\ held' = [held EXCEPT ![p][s] = 0]
    /\ \/ /\ pc[p] = "idle"
          /\ UNCHANGED <<cut, faults>>
       \/ /\ pc[p] = "matching"
          /\ "idle" \in Hazards /\ faults < MaxFaults
          /\ cut' = cut \cup {p}
          /\ faults' = faults + 1
    /\ UNCHANGED <<now, candles, rows, matcher, others>>

\* A matching process dies.
Crash(p) ==
    /\ "crash" \in Hazards /\ faults < MaxFaults
    /\ pc[p] = "matching"
    /\ Ends(p)
    /\ open' = [open EXCEPT ![p] = Closed]
    /\ held' = [held EXCEPT ![p] = Unheld]
    /\ cache' = [cache EXCEPT ![p] = Clear]
    /\ faults' = faults + 1
    /\ UNCHANGED <<now, candles, rows, others>>

-----------------------------------------------------------------------------
(* Matching *)

\* Seeded fault: the horizons are left out of the selection.
NeedsEntry(p, c) ==
    /\ c > last[p]
    /\ date[c] <= now
    /\ mode[p].all \/ price[c][Entry] = Null

\* getCallSelectionPredicate: the price at the call is missing, or that of a
\* horizon that has elapsed; with --all every row.
Needs(p, c) ==
    /\ c > last[p]
    /\ date[c] <= now
    /\ \/ mode[p].all
       \/ \E q \in Quotes : Elapsed(c, q) /\ price[c][q] = Null

\* ORDER BY id LIMIT n
First(p, n) ==
    {c \in Calls : /\ Needs(p, c)
                   /\ Cardinality({b \in Calls : b < c /\ Needs(p, b)}) < n}

\* The batch size, or what is left of the limit.
NextBatch(p) == First(p, Lesser(BatchSize, mode[p].limit - seen[p]))

Working(p) == pc[p] = "matching" /\ ~mode[p].set
Between(p) == Working(p) /\ DOMAIN open[p] = {}

\* The instants that processCall looks up for these calls: a horizon that has
\* not elapsed is left out.
Read(c, q) == q = Entry \/ Elapsed(c, q)

\* getCandleAt answers from the cache, a remembered gap included and whatever
\* instant of the five minutes it is for, then from the table, then, with
\* --fetch-binance, from the exchange.
Searches(p, t) == cache[p][Key(t)] = Unread
Asks(p, t) == Searches(p, t) /\ Local(t) = Null /\ mode[p].fetch
Answer(p, t) ==
    IF ~Searches(p, t) THEN cache[p][Key(t)]
    ELSE IF Asks(p, t) THEN Fetch(t) ELSE Local(t)

\* The instants the calls of a batch ask for.
Lookups(B) == {t \in Times : \E c \in B, q \in Quotes : Read(c, q) /\ t = Instant(c, q)}

\* The next batch and the reads of its calls, which all go out together; what
\* the exchange has answered is stored, and for each five minutes the answer
\* that came last, to the instant late[k], is remembered.
Batch(p) ==
    /\ Between(p)
    /\ \E B \in {NextBatch(p)} : \E T \in {Lookups(B)} :
        /\ B # {}
        /\ last' = [last EXCEPT ![p] = Newest(B)]
        /\ seen' = [seen EXCEPT ![p] = @ + Cardinality(B)]
        /\ open' = [open EXCEPT ![p] = [c \in B |->
                [date |-> date[c],
                 row |-> [q \in Quotes |->
                    IF Read(c, q) THEN Answer(p, Instant(c, q)) ELSE Null]]]]
        /\ \E late \in [{Key(t) : t \in T} -> T] :
              /\ \A k \in DOMAIN late : Key(late[k]) = k
              /\ cache' = [cache EXCEPT ![p] =
                    [k \in Keys |-> IF k \in DOMAIN late THEN Answer(p, late[k])
                                    ELSE @[k]]]
        /\ candles' = candles \cup
                ({Fetch(t) : t \in {i \in T : Asks(p, i)}} \ {Null})
        /\ vain' = [vain EXCEPT ![p] =
                @ \cup {t \in T : Searches(p, t) /\ Answer(p, t) = Null}]
    /\ UNCHANGED <<now, rows, locks, pc, mode, others, misses, faults>>

\* if (!coinNow) return false.
Writes(row) == row[Entry] # Null

Without(p, c) ==
    [open EXCEPT ![p] = [b \in DOMAIN open[p] \ {c} |-> open[p][b]]]

\* processCall ends with one UPDATE of all columns, by id alone.
Write(p, c) ==
    /\ Working(p)
    /\ c \in DOMAIN open[p]
    /\ IF Writes(open[p][c].row)
         THEN /\ price' = [price EXCEPT ![c] = open[p][c].row]
              /\ basis' = [basis EXCEPT ![c] = open[p][c].date]
         ELSE UNCHANGED <<price, basis>>
    /\ open' = Without(p, c)
    /\ UNCHANGED <<now, candles, date, locks, pc, mode, last, seen, cache, others,
                   misses, vain, faults>>

\* A read or the UPDATE throws: the call is skipped.
CallFails(p, c) ==
    /\ "fail" \in Hazards /\ faults < MaxFaults
    /\ Working(p)
    /\ c \in DOMAIN open[p]
    /\ open' = Without(p, c)
    /\ faults' = faults + 1
    /\ UNCHANGED <<now, candles, rows, locks, pc, mode, last, seen, cache, others,
                   misses, vain>>

\* No row is left, or nothing of the limit: the lock is released.
Finish(p, s) ==
    /\ Between(p)
    /\ NextBatch(p) = {}
    /\ Leave(p, s)
    /\ UNCHANGED <<now, candles, rows, open, others, faults>>

\* buildSetBasedMatchSql: one statement, from the table alone.
SetBased(p, s) ==
    LET row(c) == [q \in Quotes |-> IF Read(c, q) THEN Local(Instant(c, q)) ELSE Null]
    IN  /\ pc[p] = "matching" /\ mode[p].set
        /\ \E D \in {{c \in First(p, mode[p].limit) : Writes(row(c))}} :
              /\ price' = [c \in Calls |-> IF c \in D THEN row(c) ELSE price[c]]
              /\ basis' = [c \in Calls |-> IF c \in D THEN date[c] ELSE basis[c]]
        /\ Leave(p, s)
        /\ UNCHANGED <<now, candles, date, open, others, faults>>

-----------------------------------------------------------------------------
Tick ==
    /\ now < MaxTime
    /\ now' = now + 1
    /\ UNCHANGED <<candles, rows, locks, matcher, others, faults>>

Init ==
    /\ now = 1
    /\ candles = {}
    /\ date = Date
    /\ price = Blank
    /\ held = [p \in Procs |-> Unheld]
    /\ pc = [p \in Procs |-> "idle"]
    /\ mode = [p \in Procs |-> NoOptions]
    /\ last = [p \in Procs |-> Null]
    /\ seen = [p \in Procs |-> 0]
    /\ open = [p \in Procs |-> Closed]
    /\ cache = [p \in Procs |-> Clear]
    /\ ref = NoWindows
    /\ fix = NoRepair
    /\ faults = 0
    /\ basis = Date
    /\ misses = [p \in Procs |-> {}]
    /\ vain = [p \in Procs |-> {}]
    /\ cut = {}

\* What a matching process does once it has started.
Step(p) ==
    \/ Batch(p)
    \/ \E c \in Calls : Write(p, c)
    \/ \E s \in Pool[p] : Finish(p, s) \/ SetBased(p, s)

\* What comes by itself: a started process goes on, the pool closes an idle
\* connection, and the schedule starts a script again.
Goes(p) ==
    \/ Step(p)
    \/ pc[p] = "idle" /\ \E s \in Pool[p] : Close(p, s)
    \/ p \notin Workers /\ Begin(p)

Refresh ==
    \/ \E start \in StartDates, end \in Times : RefreshStart(start, end)
    \/ RefreshWindow

Next ==
    \/ Tick
    \/ Refresh \/ RefreshFails
    \/ \E first, final \in Times : BulkFile(first, final)
    \/ \E c \in Calls : RepairFind(c)
    \/ RepairWrite
    \/ \E c \in Calls : Redate(c)
    \/ Reset \/ ClearPremature
    \/ \E p \in Procs : Begin(p) \/ BeginByHand(p) \/ Step(p) \/ Crash(p)
    \/ \E p \in Procs : \E s \in Pool[p] : StartLost(p, s) \/ Close(p, s)
    \/ \E p \in Procs, c \in Calls : CallFails(p, c)

Spec == Init /\ [][Next]_vars

Fairness ==
    /\ WF_vars(Tick)
    /\ WF_vars(Refresh)
    /\ WF_vars(RepairWrite)
    /\ \A p \in Procs : WF_vars(Goes(p))

FairSpec == Spec /\ Fairness

-----------------------------------------------------------------------------
(* Properties *)

Rows == [Quotes -> {Null} \cup Times]
Opens == [date : Times, row : Rows]

TypeOK ==
    /\ now \in Times
    /\ candles \subseteq Times
    /\ date \in [Calls -> Times]
    /\ price \in [Calls -> Rows]
    /\ held \in [Procs -> [Conns -> 0..MaxHeld]]
    /\ pc \in [Procs -> {"idle", "matching"}]
    /\ mode \in [Procs -> Mode]
    /\ last \in [Procs -> {Null} \cup Calls]
    /\ seen \in [Procs -> Nat]
    /\ open = [p \in Procs |-> open[p]]
    /\ \A p \in Procs : DOMAIN open[p] \subseteq Calls
                         /\ open[p] \in [DOMAIN open[p] -> Opens]
    /\ cache \in [Procs -> [Keys -> {Unread, Null} \cup Times]]
    /\ ref \in [next : Times, left : 0..MaxRequests, start : {Null} \cup Times]
    /\ fix \in [call : {Null} \cup Calls, candle : {Null} \cup Times,
                date : {Null} \cup Times]
    /\ faults \in 0..MaxFaults
    /\ basis \in [Calls -> Times]
    /\ misses \in [Procs -> SUBSET Keys]
    /\ vain \in [Procs -> SUBSET Times]
    /\ cut \subseteq Procs

\* Two processes match at the same time only if the connection that held the
\* lock for one of them was closed under it (withMatchPricesAdvisoryLock).
AloneUnlessCut ==
    \A p, q \in Procs :
        pc[p] = "matching" /\ pc[q] = "matching" /\ p # q => {p, q} \cap cut # {}

\* The prices of a call are all for one date, and that is its date unless the
\* date was corrected; each comes from a candle of the table at most a day
\* before its instant or within the tolerance around it, give or take the five
\* minutes of the cache, and the instant is past (getCandleAt, cacheKey,
\* repairCall).
PriceNearInstant ==
    \A c \in Calls, q \in Quotes :
        price[c][q] # Null =>
            /\ price[c][q] \in candles
            /\ price[c][q] - At(basis[c], q)
                    \in -(Stale + Grain - 1)..(Tolerance + Grain - 1)
            /\ At(basis[c], q) <= now
            /\ basis[c] = date[c] \/ Redated(c)

\* The minutes the exchange has and the table lacks although it goes further:
\* no later refresh asks for them, unless one is told to start before them
\* while the table ends before them.
Gaps == {t \in Traded : t < Newest(candles) /\ t \notin candles}

\* A refresh leaves a gap behind only before the date it was told to start at:
\* one whose start date is not after the newest candle leaves none, whatever
\* fails and whatever a fallback or a bulk load stores meanwhile (refreshSymbol,
\* buildFetchWindows).
RefreshLeavesNoGap ==
    [][ref' # ref => \A t \in Gaps' \ Gaps : t < ref.start]_vars

\* The table is not searched here for the price at t.
OutOfReach(k, t) == k > t \/ t - k > Stale

\* Process p answers for t with a gap it remembers: from an earlier job, or from
\* another instant of the same five minutes.
Misled(p, t) ==
    \/ Key(t) \in misses[p]
    \/ \E u \in vain[p] : u # t /\ Key(u) = Key(t)

\* A recorded price is lost again only to somebody who takes all prices back, to
\* a matcher that is misled by a gap it remembers or that lost the lock, after a
\* correction of the date, or if its candle is out of the table's reach
\* (processCall, getCandleAt).
LosesPriceOnlyIfStale ==
    [][\A c \in Calls, q \in Quotes :
        price[c][q] # Null /\ price'[c][q] = Null =>
            \/ Reset
            \/ \E p \in Procs : Misled(p, Instant(c, q))
            \/ cut # {}
            \/ Redated(c)
            \/ OutOfReach(price[c][q], Instant(c, q))]_vars

\* What every scheduled run selects anew: a price is missing, or out of date.
Incomplete(c) == date[c] <= now /\ \E q \in Quotes : Elapsed(c, q) /\ price[c][q] = Null

\* A run whose limit is used up by earlier calls never comes to this one.
Crowded(c) ==
    \E p \in Procs \ Workers : \E m \in ModesOf[p] :
        Cardinality({b \in Calls : b < c /\ Incomplete(b)}) >= m.limit

\* An earlier call of every run has an instant in the same five minutes and no
\* candle for it: the run remembers the gap.
Shadowed(c, q) ==
    \E b \in Calls, r \in Quotes :
        /\ b < c /\ Incomplete(b)
        /\ Read(b, r) /\ Key(Instant(b, r)) = Key(Instant(c, q))
        /\ Local(Instant(b, r)) = Null

\* From some time on every price is recorded whose instant is past and whose
\* candle is there, if the price at the call can be found too, unless calls
\* that cannot be completed crowd it out of every run or share its five minutes
\* (evaluation-backfill, run-data-pipeline.ts).
PricesGetRecorded ==
    <>[](\A c \in Calls, q \in Quotes :
            Elapsed(c, q) /\ Local(Instant(c, q)) # Null /\ Local(date[c]) # Null
                => \/ price[c][q] # Null
                   \/ Crowded(c)
                   \/ Shadowed(c, q) \/ Shadowed(c, Entry))
=============================================================================
