-------------------------- MODULE PriceMatchProofs --------------------------
(***************************************************************************)
(* Proofs about PriceMatch, for any number of calls, quotes, processes,    *)
(* connections, ticks and faults.                                          *)
(***************************************************************************)
EXTENDS PriceMatch, FiniteSetTheorems, WellFoundedInduction, TLAPS

-----------------------------------------------------------------------------
(* Least, newest and nearest *)

Less == {p \in Nat \X Nat : p[1] < p[2]}

LEMMA LessWellFounded == IsWellFoundedOn(Less, Nat)
<1>1. OpToRel(<, Nat) = Less
  BY DEF OpToRel, Less
<1>2. QED
  BY <1>1, NatLessThanWellFounded

\* A set of natural numbers has a least one.
LEMMA LeastExists ==
  ASSUME NEW S, S \subseteq Nat, S # {}
  PROVE  \E k \in S : \A j \in S : k <= j
<1>1. PICK x \in S : \A y \in S : <<y, x>> \notin Less
  BY LessWellFounded, WFMin
<1>2. \A y \in S : x <= y
  <2>1. TAKE y \in S
  <2>2. <<y, x>> \in Nat \X Nat /\ <<y, x>>[1] = y /\ <<y, x>>[2] = x
    OBVIOUS
  <2>3. ~(y < x)
    BY <1>1, <2>2 DEF Less
  <2>4. QED
    BY <2>2, <2>3
<1>3. QED
  BY <1>2

\* A set of numbers below a bound has a newest one.
LEMMA NewestIs ==
  ASSUME NEW M \in Nat, NEW S, S \subseteq 0..M, S # {}
  PROVE  Newest(S) \in S /\ \A j \in S : j <= Newest(S)
<1> DEFINE D == {M - k : k \in S}
<1>1. \A k \in S : M - k \in Nat
  OBVIOUS
<1>2. PICK d \in D : \A e \in D : d <= e
  BY <1>1, LeastExists
<1>3. PICK k \in S : d = M - k
  BY <1>2
<1>4. \A j \in S : j <= k
  <2>1. TAKE j \in S
  <2>2. d <= M - j
    BY <1>2
  <2>3. QED
    BY <1>3, <2>2
<1>5. QED
  BY <1>4 DEF Newest

\* So has every finite set.
LEMMA FiniteBelow ==
  ASSUME NEW S, S \subseteq Nat, IsFiniteSet(S)
  PROVE  \E M \in Nat : S \subseteq 0..M
<1>1. PICK n \in Nat : ExistsSurjection(1..n, S)
  BY FS_NatSurjection
<1>2. PICK f \in [1..n -> S] : \A x \in S : \E i \in 1..n : f[i] = x
  BY <1>1 DEF ExistsSurjection, Surjection
<1>a. \A i \in 1..n : f[i] \in Nat
  OBVIOUS
<1> DEFINE Bounded(k) == \E m \in Nat : \A i \in 1..k : f[i] <= m
<1> DEFINE B == {k \in 0..n : ~Bounded(k)}
<1>3. B = {}
  <2>1. SUFFICES ASSUME B # {} PROVE FALSE
    OBVIOUS
  <2>2. PICK k \in B : \A j \in B : k <= j
    <3>1. B \subseteq Nat
      OBVIOUS
    <3> HIDE DEF B
    <3>2. QED
      BY <2>1, <3>1, LeastExists
  <2>3. k \in 0..n /\ ~Bounded(k)
    OBVIOUS
  <2>4. k # 0
    BY <2>3
  <2>5. k - 1 \in 0..n /\ ~(k <= k - 1)
    BY <2>3, <2>4
  <2>6. Bounded(k - 1)
    BY <2>2, <2>5
  <2>7. PICK m \in Nat : \A i \in 1..(k - 1) : f[i] <= m
    BY <2>6
  <2>8. f[k] \in Nat
    BY <1>a, <2>3, <2>4
  <2>9. \A i \in 1..k : f[i] <= m + f[k]
    <3>1. TAKE i \in 1..k
    <3>2. f[i] \in Nat
      BY <1>a, <2>3
    <3>3. i = k \/ i \in 1..(k - 1)
      BY <2>3
    <3>4. QED
      BY <2>7, <2>8, <3>2, <3>3
  <2>10. QED
    BY <2>3, <2>8, <2>9
<1>4. Bounded(n)
  <2>1. n \in 0..n
    OBVIOUS
  <2>2. n \notin B
    BY <1>3
  <2>3. QED
    BY <2>1, <2>2
<1>5. PICK m \in Nat : \A i \in 1..n : f[i] <= m
  BY <1>4
<1>6. S \subseteq 0..m
  BY <1>2, <1>a, <1>5
<1>7. QED
  BY <1>6

LEMMA ApartIs ==
  ASSUME NEW i \in Nat, NEW j \in Nat
  PROVE  /\ Apart(i, j) \in Nat
         /\ Apart(i, j) = i - j \/ Apart(i, j) = j - i
         /\ i - j <= Apart(i, j) /\ j - i <= Apart(i, j)
BY DEF Apart

LEMMA NearestIs ==
  ASSUME NEW M \in Nat, NEW S, S \subseteq 0..M, S # {}, NEW t \in Nat
  PROVE  Nearest(S, t) \in S
<1> DEFINE A == {Apart(k, t) : k \in S}
<1>1. A \subseteq Nat /\ A # {}
  <2>1. \A k \in S : k \in Nat
    OBVIOUS
  <2>2. \A k \in S : Apart(k, t) \in Nat
    BY <2>1, ApartIs
  <2>3. QED
    BY <2>2
<1>2. PICK a \in A : \A b \in A : a <= b
  BY <1>1, LeastExists
<1> DEFINE N == {k \in S : Apart(k, t) = a}
<1>3. Newest(N) \in N /\ \A j \in N : j <= Newest(N)
  <2>1. N # {} /\ N \subseteq 0..M
    BY <1>2
  <2>2. QED
    BY <2>1, NewestIs
<1>4. \A j \in S : \/ Apart(Newest(N), t) < Apart(j, t)
                   \/ Apart(Newest(N), t) = Apart(j, t) /\ j <= Newest(N)
  <2>1. TAKE j \in S
  <2>2. a <= Apart(j, t) /\ Apart(j, t) \in Nat /\ a \in Nat
    BY <1>1, <1>2
  <2>3. QED
    BY <1>3, <2>2
<1>5. QED
  BY <1>3, <1>4 DEF Nearest

-----------------------------------------------------------------------------
(* Looking up *)

\* An instant lies less than a rounding unit after the key of its entry.
LEMMA KeyIs ==
  ASSUME NEW t \in Nat
  PROVE  Key(t) \in Nat /\ Key(t) <= t /\ t - Key(t) <= Grain - 1
<1>1. t % Grain \in 0..(Grain - 1) /\ t % Grain <= t
  BY BoundsAssumption
<1>2. QED
  BY <1>1, BoundsAssumption DEF Key

LEMMA KeysOfTimes == \A t \in Times : Key(t) \in Keys
BY DEF Keys

\* The instants of a call; one that is past is a tick of the model.
LEMMA InstantIs ==
  ASSUME TypeOK, NEW c \in Calls, NEW q \in Quotes
  PROVE  /\ Instant(c, q) \in Nat /\ date[c] \in Times /\ date[c] \in Nat
         /\ Instant(c, q) = At(date[c], q)
         /\ Instant(c, q) <= now => Instant(c, q) \in Times
         /\ Instant(c, Entry) = date[c]
<1>1. /\ now \in Nat /\ now <= MaxTime /\ MaxTime \in Nat
      /\ date[c] \in Times /\ date[c] \in Nat /\ 1 <= date[c]
      /\ Offset[q] \in Nat /\ Offset[Entry] = 0
  BY CallsAssumption, BoundsAssumption DEF TypeOK, Times
<1>2. QED
  BY <1>1 DEF Instant, At, Times

LEMMA DatesHavePast ==
  ASSUME NEW d \in Times, NEW q \in Quotes
  PROVE  At(d, q) \in Nat /\ At(d, Entry) = d /\ d \in Nat
BY CallsAssumption DEF At, Times

LEMMA LocalIs ==
  ASSUME candles \subseteq Times, NEW t \in Times
  PROVE  /\ Local(t) # Null =>
                Local(t) \in candles /\ Local(t) <= t /\ t - Local(t) <= Stale
         /\ Local(t) = Null => \A k \in candles : ~(k <= t /\ t - k <= Stale)
<1> DEFINE S == {k \in candles : k <= t /\ t - k <= Stale}
<1>a. Times \subseteq 0..MaxTime /\ MaxTime \in Nat /\ 0 \notin Times
  BY BoundsAssumption DEF Times
<1>1. S \subseteq 0..MaxTime /\ MaxTime \in Nat /\ 0 \notin S
  BY <1>a
<1>2. S # {} => Newest(S) \in S
  BY <1>1, NewestIs
<1>3. S = {} => Newest(S) = Null
  BY DEF Newest
<1>4. Local(t) = Newest(S)
  BY DEF Local
<1>5. QED
  BY <1>1, <1>2, <1>3, <1>4 DEF Null

LEMMA NearIs ==
  ASSUME NEW S, S \subseteq Times, NEW t \in Times
  PROVE  LET k == Nearest(Near(S, t), t)
         IN  k # Null => k \in S /\ k - t <= Tolerance /\ t - k <= Tolerance
<1> DEFINE N == Near(S, t)
<1>a. Times \subseteq 0..MaxTime /\ Times \subseteq Nat /\ MaxTime \in Nat
  BY BoundsAssumption DEF Times
<1>1. N \subseteq 0..MaxTime /\ MaxTime \in Nat /\ N \subseteq S /\ t \in Nat
  BY <1>a DEF Near
<1>2. CASE N = {}
  BY <1>2 DEF Nearest
<1>3. CASE N # {}
  <2>1. Nearest(N, t) \in N
    BY <1>1, <1>3, NearestIs
  <2>2. Apart(Nearest(N, t), t) <= Tolerance
    BY <2>1 DEF Near
  <2> DEFINE k == Nearest(N, t)
  <2> HIDE DEF N, k
  <2>3. k \in S /\ Apart(k, t) <= Tolerance
    BY <1>1, <2>1, <2>2 DEF k
  <2>4. k \in Nat /\ t \in Nat /\ Tolerance \in Nat
    BY <1>a, <1>1, <2>3, BoundsAssumption
  <2>5. Apart(k, t) \in Nat /\ k - t <= Apart(k, t) /\ t - k <= Apart(k, t)
    BY <2>4, ApartIs
  <2>6. k - t <= Tolerance /\ t - k <= Tolerance
    BY <2>3, <2>4, <2>5
  <2>7. QED
    BY <2>3, <2>6 DEF k, N
<1>4. QED
  BY <1>2, <1>3

LEMMA FetchIs ==
  ASSUME NEW t \in Times
  PROVE  Fetch(t) # Null => /\ Fetch(t) \in Exchange /\ Fetch(t) \in Times
                            /\ Fetch(t) - t <= Tolerance
                            /\ t - Fetch(t) <= Tolerance
<1>1. Exchange \subseteq Times
  BY BoundsAssumption DEF Exchange
<1>2. QED
  BY <1>1, NearIs DEF Fetch

-----------------------------------------------------------------------------
(* Types *)

Prices == {Null} \cup Times
Opened == UNION {[D -> Opens] : D \in SUBSET Calls}

LEMMA OpenedIs ==
  /\ \A f \in Opened : DOMAIN f \subseteq Calls /\ f \in [DOMAIN f -> Opens]
  /\ \A D \in SUBSET Calls : \A f \in [D -> Opens] : f \in Opened
BY DEF Opened

\* TypeOK says it in a form that TLC can evaluate.
LEMMA OpenTypes ==
  ASSUME NEW f
  PROVE  f \in [Procs -> Opened] <=>
            /\ f = [p \in Procs |-> f[p]]
            /\ \A p \in Procs : DOMAIN f[p] \subseteq Calls
                                 /\ f[p] \in [DOMAIN f[p] -> Opens]
<1>1. ASSUME f \in [Procs -> Opened]
      PROVE  /\ f = [p \in Procs |-> f[p]]
             /\ \A p \in Procs : DOMAIN f[p] \subseteq Calls
                                  /\ f[p] \in [DOMAIN f[p] -> Opens]
  BY <1>1, OpenedIs
<1>2. ASSUME f = [p \in Procs |-> f[p]],
             \A p \in Procs : DOMAIN f[p] \subseteq Calls
                              /\ f[p] \in [DOMAIN f[p] -> Opens]
      PROVE  f \in [Procs -> Opened]
  <2>1. \A p \in Procs : f[p] \in Opened
    BY <1>2, OpenedIs
  <2>2. QED
    BY <1>2, <2>1
<1>3. QED
  BY <1>1, <1>2

\* A refresh asks for no window that is not over, and a repair knows its call.
InReach == Refreshing => ref.next + ref.left <= now + 1
RepairIs == Repairing => fix.call \in Calls /\ fix.candle \in Times /\ fix.date \in Times

Types == TypeOK /\ InReach /\ RepairIs

LEMMA AnswerIs ==
  ASSUME TypeOK, NEW p \in Procs, NEW t \in Times
  PROVE  Answer(p, t) \in Prices
<1>1. Local(t) \in Prices /\ Fetch(t) \in Prices
  BY LocalIs, FetchIs DEF TypeOK, Prices
<1>2. cache[p][Key(t)] \in {Unread, Null} \cup Times
  BY KeysOfTimes DEF TypeOK
<1>3. QED
  BY <1>1, <1>2 DEF Answer, Searches, Prices

LEMMA FirstIs ==
  ASSUME NEW p \in Procs, NEW n
  PROVE  /\ First(p, n) \subseteq Calls
         /\ First(p, n) # {} => Newest(First(p, n)) \in Calls
         /\ Cardinality(First(p, n)) \in Nat
         /\ \A c \in First(p, n) : date[c] <= now
<1>1. First(p, n) \subseteq Calls
  BY DEF First
<1>2. PICK M \in Nat : Calls \subseteq 0..M
  BY FiniteBelow, CallsAssumption
<1>3. First(p, n) # {} => Newest(First(p, n)) \in First(p, n)
  BY <1>1, <1>2, NewestIs
<1>4. Cardinality(First(p, n)) \in Nat
  BY <1>1, CallsAssumption, FS_Subset, FS_CardinalityType
<1>5. \A c \in First(p, n) : date[c] <= now
  BY DEF First, Needs
<1>6. QED
  BY <1>1, <1>3, <1>4, <1>5

LEMMA NewestTime ==
  ASSUME NEW S, S \subseteq Times
  PROVE  /\ Newest(S) \in Prices /\ Newest(S) \in Nat
         /\ S # {} => Newest(S) \in S
         /\ \A k \in S : k <= Newest(S)
<1>1. S \subseteq 0..MaxTime /\ MaxTime \in Nat
  BY BoundsAssumption DEF Times
<1>2. CASE S = {}
  BY <1>2 DEF Newest, Null, Prices
<1>3. CASE S # {}
  <2>1. Newest(S) \in S /\ \A k \in S : k <= Newest(S)
    BY <1>1, <1>3, NewestIs
  <2>2. Newest(S) \in Times /\ Newest(S) \in 0..MaxTime
    BY <1>1, <2>1
  <2>3. QED
    BY <1>1, <1>3, <2>1, <2>2 DEF Prices
<1>4. QED
  BY <1>2, <1>3

LEMMA InitTypes == Init => Types
<1> SUFFICES ASSUME Init PROVE Types
  OBVIOUS
<1>1. 1 \in Times /\ MaxTime \in Nat
  BY BoundsAssumption DEF Times
<1>2. open \in [Procs -> Opened]
  <2>1. Closed \in [{} -> Opens]
    BY DEF Closed
  <2>2. Closed \in Opened
    BY <2>1, OpenedIs
  <2>3. QED
    BY <2>2 DEF Init
<1>3. price \in [Calls -> Rows] /\ date \in [Calls -> Times] /\ basis \in [Calls -> Times]
  BY CallsAssumption DEF Init, Rows, Blank
<1>4. held \in [Procs -> [Conns -> 0..MaxHeld]]
  BY BoundsAssumption DEF Init, Unheld
<1>5. /\ ref \in [next : Times, left : 0..MaxRequests, start : {Null} \cup Times]
      /\ ~Refreshing
  BY <1>1, BoundsAssumption DEF Init, NoWindows, Refreshing
<1>6. fix \in [call : {Null} \cup Calls, candle : {Null} \cup Times,
               date : {Null} \cup Times] /\ ~Repairing
  BY DEF Init, NoRepair, Repairing
<1>7. /\ pc \in [Procs -> {"idle", "matching"}] /\ mode \in [Procs -> Mode]
      /\ last \in [Procs -> {Null} \cup Calls] /\ seen \in [Procs -> Nat]
      /\ cache \in [Procs -> [Keys -> {Unread, Null} \cup Times]]
      /\ misses \in [Procs -> SUBSET Keys] /\ vain \in [Procs -> SUBSET Times]
      /\ now \in Times /\ candles \subseteq Times /\ cut \subseteq Procs
      /\ faults \in 0..MaxFaults
  BY <1>1, BoundsAssumption DEF Init, Mode, NoOptions, Clear
<1>8. QED
  BY <1>2, <1>3, <1>4, <1>5, <1>6, <1>7, OpenTypes
  DEF Types, TypeOK, InReach, RepairIs

\* What a process that ends leaves.
LEMMA EndsTypes ==
  ASSUME TypeOK, NEW p \in Procs, Ends(p)
  PROVE  /\ pc' \in [Procs -> {"idle", "matching"}]
         /\ mode' \in [Procs -> Mode]
         /\ last' \in [Procs -> {Null} \cup Calls]
         /\ seen' \in [Procs -> Nat]
         /\ misses' \in [Procs -> SUBSET Keys]
         /\ vain' \in [Procs -> SUBSET Times]
         /\ cut' \subseteq Procs
<1>1. NoOptions \in Mode
  BY DEF Mode, NoOptions
<1>2. QED
  BY <1>1 DEF TypeOK, Ends

LEMMA LeaveTypes ==
  ASSUME TypeOK, NEW p \in Procs, NEW s \in Conns, Leave(p, s)
  PROVE  /\ held' \in [Procs -> [Conns -> 0..MaxHeld]]
         /\ cache' \in [Procs -> [Keys -> {Unread, Null} \cup Times]]
<1>1. CASE p \in Workers
  <2>1. held[p][s] \in 0..MaxHeld
    BY DEF TypeOK
  <2> DEFINE v == IF held[p][s] > 0 THEN held[p][s] - 1 ELSE 0
  <2>2. v \in 0..MaxHeld
    BY <2>1, BoundsAssumption
  <2>3. held' = [held EXCEPT ![p] = [held[p] EXCEPT ![s] = v]] /\ cache' = cache
    BY <1>1 DEF Leave, TypeOK
  <2> HIDE DEF v
  <2>4. QED
    BY <2>2, <2>3 DEF TypeOK
<1>2. CASE p \notin Workers
  <2>1. /\ Unheld \in [Conns -> 0..MaxHeld]
        /\ Clear \in [Keys -> {Unread, Null} \cup Times]
    BY BoundsAssumption DEF Unheld, Clear
  <2>2. held' = [held EXCEPT ![p] = Unheld] /\ cache' = [cache EXCEPT ![p] = Clear]
    BY <1>2 DEF Leave
  <2>3. QED
    BY <2>1, <2>2 DEF TypeOK
<1>3. QED
  BY <1>1, <1>2

LEMMA StepTypes == Types /\ [Next]_vars => Types'
<1> SUFFICES ASSUME Types, [Next]_vars PROVE Types'
  OBVIOUS
<1> USE DEF rows, locks, matcher, others
<1>a. TypeOK /\ InReach /\ RepairIs /\ open \in [Procs -> Opened]
  BY OpenTypes DEF Types, TypeOK
<1>b. /\ now \in Nat /\ MaxTime \in Nat /\ MaxFaults \in Nat /\ faults \in Nat
      /\ \A t : t \in Times <=> t \in Nat /\ 1 <= t /\ t <= MaxTime
  BY <1>a, BoundsAssumption DEF TypeOK, Times
<1>c. /\ ref = [next |-> ref.next, left |-> ref.left, start |-> ref.start]
      /\ ref.next \in Times /\ ref.left \in 0..MaxRequests
      /\ ref.start \in {Null} \cup Times
      /\ MaxRequests \in Nat \ {0} /\ StartDates \subseteq Times
  BY <1>a, BoundsAssumption DEF TypeOK
<1> DEFINE Plans == [next : Times, left : 0..MaxRequests, start : {Null} \cup Times]
<1>d. NoWindows \in Plans /\ NoWindows.left = 0
  BY <1>b, <1>c, BoundsAssumption DEF NoWindows
<1>e. \A t \in Times : Fetch(t) # Null => Fetch(t) \in Times
  BY FetchIs
<1>f. ASSUME faults < MaxFaults PROVE faults + 1 \in 0..MaxFaults
  BY <1>b, <1>f
<1>g. ASSUME UNCHANGED <<now, ref>> PROVE InReach'
  BY <1>g, <1>a DEF InReach, Refreshing
<1>i. ASSUME UNCHANGED fix PROVE RepairIs'
  BY <1>i, <1>a DEF RepairIs, Repairing
<1>j. ASSUME open' \in [Procs -> Opened]
      PROVE  /\ open' = [p \in Procs |-> open'[p]]
             /\ \A p \in Procs : DOMAIN open'[p] \subseteq Calls
                                  /\ open'[p] \in [DOMAIN open'[p] -> Opens]
  BY <1>j, OpenTypes
<1>1. CASE Tick
  <2>1. now' \in Times
    BY <1>1, <1>a, <1>b DEF Tick
  <2>2. InReach'
    BY <1>1, <1>a, <1>b, <1>c DEF Tick, InReach, Refreshing
  <2>3. QED
    BY <1>1, <1>a, <1>i, <2>1, <2>2 DEF Tick, Types, TypeOK
<1>2. ASSUME NEW start \in StartDates, NEW end \in Times, RefreshStart(start, end)
      PROVE  Types'
  <2> DEFINE n == From(start)
  <2>1. n \in Nat /\ 1 <= n
    <3>1. Newest(candles) \in Nat /\ start \in Nat /\ 1 <= start
      BY <1>a, <1>b, <1>c, NewestTime DEF TypeOK
    <3>2. QED
      BY <3>1 DEF From
  <2>2. n <= end /\ end <= now /\ end \in Nat /\ n \in Times
    BY <1>2, <1>b, <2>1 DEF RefreshStart
  <2>3. ref' = [next |-> n, left |-> Lesser(MaxRequests, end - n + 1), start |-> start]
        /\ now' = now
    BY <1>2 DEF RefreshStart
  <2> HIDE DEF n
  <2>4. /\ Lesser(MaxRequests, end - n + 1) \in 0..MaxRequests
        /\ Lesser(MaxRequests, end - n + 1) <= end - n + 1
    BY <1>c, <2>1, <2>2 DEF Lesser
  <2>5. ref' \in Plans
    BY <1>c, <2>2, <2>3, <2>4
  <2>6. InReach'
    BY <1>b, <2>1, <2>2, <2>3, <2>4 DEF InReach, Refreshing
  <2>7. QED
    BY <1>2, <1>a, <1>i, <2>5, <2>6 DEF RefreshStart, Types, TypeOK
<1>3. CASE RefreshWindow
  <2>1. Remaining \in Plans
    <3>1. CASE ref.left = 1
      BY <3>1, <1>d DEF Remaining
    <3>2. CASE ref.left # 1
      <4>1. ref.left \in Nat /\ ref.left > 1 /\ ref.next + ref.left <= now + 1
        BY <1>3, <1>a, <1>c, <3>2 DEF RefreshWindow, Refreshing, InReach
      <4>2. now <= MaxTime
        BY <1>a, <1>b DEF TypeOK
      <4>3. ref.next \in Nat /\ 1 <= ref.next
        BY <1>b, <1>c
      <4>4. ref.next + 1 \in Times /\ ref.left - 1 \in 0..MaxRequests
        BY <1>b, <1>c, <4>1, <4>2, <4>3
      <4>5. QED
        BY <1>c, <3>2, <4>4 DEF Remaining
    <3>3. QED
      BY <3>1, <3>2
  <2>2. InReach'
    BY <1>3, <1>a, <1>b, <1>c, <1>d
    DEF RefreshWindow, Refreshing, InReach, Remaining
  <2>3. Exchange \subseteq Times
    BY BoundsAssumption DEF Exchange
  <2>4. QED
    BY <1>3, <1>a, <1>i, <2>1, <2>2, <2>3 DEF RefreshWindow, Types, TypeOK
<1>4. CASE RefreshFails
  <2>1. InReach'
    BY <1>4, <1>d DEF RefreshFails, InReach, Refreshing
  <2>2. QED
    BY <1>4, <1>a, <1>d, <1>f, <1>i, <2>1 DEF RefreshFails, Types, TypeOK
<1>5. ASSUME NEW c \in Calls, RepairFind(c) PROVE Types'
  <2>1. date[c] \in Times
    BY <1>a DEF TypeOK
  <2> DEFINE mine == Nearest(Near(candles, date[c]), date[c])
  <2>2. mine # Null => mine \in Times
    BY <1>a, <2>1, NearIs DEF TypeOK
  <2>3. Fetch(date[c]) # Null => Fetch(date[c]) \in Times
    BY <1>e, <2>1
  <2>4. PICK k \in Times : /\ fix' = [call |-> c, candle |-> k, date |-> date[c]]
                           /\ candles' \subseteq Times
    BY <1>5, <1>a, <2>2, <2>3 DEF RepairFind, TypeOK
  <2>5. /\ fix' \in [call : {Null} \cup Calls, candle : {Null} \cup Times,
                     date : {Null} \cup Times]
        /\ RepairIs'
    BY <2>1, <2>4 DEF RepairIs
  <2>6. UNCHANGED <<now, rows, locks, matcher, ref>> /\ faults' \in 0..MaxFaults
    BY <1>5, <1>f DEF RepairFind
  <2>7. QED
    BY <1>a, <1>g, <2>4, <2>5, <2>6 DEF Types, TypeOK
<1>6. CASE RepairWrite
  <2>1. price' \in [Calls -> Rows] /\ basis' \in [Calls -> Times]
    <3>1. fix.call \in Calls /\ fix.candle \in Times /\ fix.date \in Times
      BY <1>6, <1>a DEF RepairWrite, RepairIs
    <3>2. price \in [Calls -> Rows] /\ basis \in [Calls -> Times]
      BY <1>a DEF TypeOK
    <3>3. [price[fix.call] EXCEPT ![Entry] = fix.candle] \in Rows
      BY <3>1, <3>2 DEF Rows
    <3>4. QED
      BY <1>6, <3>1, <3>2, <3>3 DEF RepairWrite
  <2>2. RepairIs' /\ fix' \in [call : {Null} \cup Calls, candle : {Null} \cup Times,
                               date : {Null} \cup Times]
    BY <1>6 DEF RepairWrite, RepairIs, Repairing, NoRepair
  <2>3. QED
    BY <1>6, <1>a, <1>g, <2>1, <2>2 DEF RepairWrite, Types, TypeOK
<1>7. ASSUME NEW c \in Calls, Redate(c) PROVE Types'
  <2>1. date' \in [Calls -> Times]
    BY <1>7, <1>a, CallsAssumption DEF Redate, TypeOK
  <2>2. QED
    BY <1>7, <1>a, <1>f, <1>g, <1>i, <2>1 DEF Redate, Types, TypeOK
<1>8. CASE Reset \/ ClearPremature
  <2>1. price' \in [Calls -> Rows] /\ faults' \in 0..MaxFaults
    BY <1>8, <1>a, <1>f DEF Reset, ClearPremature, Blank, TypeOK, Rows
  <2>2. UNCHANGED <<now, candles, date, basis, locks, matcher, others>>
    BY <1>8 DEF Reset, ClearPremature
  <2>3. QED
    BY <1>a, <1>g, <1>i, <2>1, <2>2 DEF Types, TypeOK
<1>9. ASSUME NEW p \in Procs, NEW s \in Conns, NEW m \in Mode, Start(p, s, m),
             faults' \in 0..MaxFaults
      PROVE  Types'
  <2>1. held' \in [Procs -> [Conns -> 0..MaxHeld]]
    BY <1>9, <1>a, BoundsAssumption DEF Start, Take, TypeOK
  <2>2. cache' \in [Procs -> [Keys -> {Unread, Null} \cup Times]]
    BY <1>9, <1>a DEF Start, TypeOK, Clear
  <2>3. pc' \in [Procs -> {"idle", "matching"}] /\ mode' \in [Procs -> Mode]
        /\ misses' \in [Procs -> SUBSET Keys]
    BY <1>9, <1>a DEF Start, TypeOK
  <2>4. QED
    BY <1>9, <1>a, <1>g, <1>i, <2>1, <2>2, <2>3 DEF Start, Types, TypeOK
<1>10. ASSUME NEW p \in Procs, NEW s \in Conns, StartLost(p, s) PROVE Types'
  <2>1. held' \in [Procs -> [Conns -> 0..MaxHeld]]
    BY <1>10, <1>a, BoundsAssumption DEF StartLost, Take, TypeOK
  <2>2. QED
    BY <1>10, <1>a, <1>f, <1>g, <1>i, <2>1 DEF StartLost, Types, TypeOK
<1>11. ASSUME NEW p \in Procs, NEW s \in Conns, Close(p, s) PROVE Types'
  <2>1. held' \in [Procs -> [Conns -> 0..MaxHeld]]
    BY <1>11, <1>a, BoundsAssumption DEF Close, TypeOK
  <2>2. cut' \subseteq Procs /\ faults' \in 0..MaxFaults
    BY <1>11, <1>a, <1>f DEF Close, TypeOK
  <2>3. QED
    BY <1>11, <1>a, <1>g, <1>i, <2>1, <2>2 DEF Close, Types, TypeOK
<1>12. ASSUME NEW p \in Procs, Crash(p) PROVE Types'
  <2>1. held' \in [Procs -> [Conns -> 0..MaxHeld]]
    BY <1>12, <1>a, BoundsAssumption DEF Crash, TypeOK, Unheld
  <2>2. cache' \in [Procs -> [Keys -> {Unread, Null} \cup Times]]
    BY <1>12, <1>a DEF Crash, TypeOK, Clear
  <2>3. Closed \in Opened
    <3>1. Closed \in [{} -> Opens]
      BY DEF Closed
    <3>2. QED
      BY <3>1, OpenedIs
  <2>4. open' \in [Procs -> Opened]
    BY <1>12, <1>a, <2>3 DEF Crash
  <2>5. Ends(p) /\ faults' \in 0..MaxFaults
    BY <1>12, <1>f DEF Crash
  <2>6. QED
    BY <1>12, <1>a, <1>g, <1>i, <1>j, <2>1, <2>2, <2>4, <2>5, EndsTypes
    DEF Crash, Types, TypeOK
<1>13. ASSUME NEW p \in Procs, Batch(p) PROVE Types'
  <2> DEFINE B == NextBatch(p)
  <2> DEFINE T == Lookups(B)
  <2> DEFINE read == [c \in B |-> [date |-> date[c], row |-> [q \in Quotes |->
                        IF Read(c, q) THEN Answer(p, Instant(c, q)) ELSE Null]]]
  <2>1. /\ B # {} /\ open' = [open EXCEPT ![p] = read]
        /\ last' = [last EXCEPT ![p] = Newest(B)]
        /\ seen' = [seen EXCEPT ![p] = @ + Cardinality(B)]
        /\ candles' = candles \cup
                ({Fetch(t) : t \in {i \in T : Asks(p, i)}} \ {Null})
        /\ vain' = [vain EXCEPT ![p] =
                @ \cup {t \in T : Searches(p, t) /\ Answer(p, t) = Null}]
        /\ UNCHANGED <<now, rows, locks, pc, mode, others, misses, faults>>
    BY <1>13 DEF Batch
  <2>2. PICK late \in [{Key(t) : t \in T} -> T] :
                cache' = [cache EXCEPT ![p] =
                    [k \in Keys |-> IF k \in DOMAIN late THEN Answer(p, late[k])
                                    ELSE @[k]]]
    BY <1>13 DEF Batch
  <2>3. /\ B \subseteq Calls /\ Newest(B) \in Calls /\ Cardinality(B) \in Nat
        /\ \A c \in B : date[c] <= now
    BY <2>1, FirstIs DEF NextBatch
  <2>4. \A t \in Times : Answer(p, t) \in Prices
    BY <1>a, AnswerIs
  <2>5. T \subseteq Times
    BY DEF Lookups
  <2> HIDE DEF B, T
  <2>6. read \in Opened
    <3>1. ASSUME NEW c \in B
          PROVE  [date |-> date[c], row |-> [q \in Quotes |->
                    IF Read(c, q) THEN Answer(p, Instant(c, q)) ELSE Null]] \in Opens
      <4>1. \A q \in Quotes : Read(c, q) => Instant(c, q) \in Times
        BY <1>a, <2>3, InstantIs DEF Read, Elapsed
      <4>2. [q \in Quotes |-> IF Read(c, q) THEN Answer(p, Instant(c, q)) ELSE Null]
                \in Rows
        BY <2>4, <4>1 DEF Rows, Prices
      <4>3. date[c] \in Times
        BY <1>a, <2>3 DEF TypeOK
      <4>4. QED
        BY <4>2, <4>3 DEF Opens
    <3>2. read \in [B -> Opens]
      BY <3>1
    <3>3. QED
      BY <2>3, <3>2, OpenedIs
  <2>7. open' \in [Procs -> Opened]
    BY <1>a, <2>1, <2>6
  <2>8. cache' \in [Procs -> [Keys -> {Unread, Null} \cup Times]]
    <3>1. \A k \in DOMAIN late : Answer(p, late[k]) \in Prices
      BY <2>4, <2>5
    <3>2. QED
      BY <1>a, <2>2, <3>1 DEF TypeOK, Prices
  <2>9. candles' \subseteq Times
    <3>1. \A t \in T : Fetch(t) # Null => Fetch(t) \in Times
      BY <1>e, <2>5
    <3>2. QED
      BY <1>a, <2>1, <3>1 DEF TypeOK
  <2>10. last' \in [Procs -> {Null} \cup Calls] /\ seen' \in [Procs -> Nat]
         /\ vain' \in [Procs -> SUBSET Times]
    <3>1. seen \in [Procs -> Nat] /\ seen[p] + Cardinality(B) \in Nat
      BY <1>a, <2>3 DEF TypeOK
    <3>2. QED
      BY <1>a, <2>1, <2>3, <2>5, <3>1 DEF TypeOK
  <2>11. QED
    BY <1>a, <1>g, <1>i, <1>j, <2>1, <2>7, <2>8, <2>9, <2>10 DEF Types, TypeOK
<1>h. ASSUME NEW p \in Procs, NEW c \in Calls, open' = Without(p, c)
      PROVE  open' \in [Procs -> Opened]
  <2> DEFINE D == DOMAIN open[p] \ {c}
  <2>1. open[p] \in Opened
    BY <1>a
  <2>2. DOMAIN open[p] \subseteq Calls /\ open[p] \in [DOMAIN open[p] -> Opens]
    BY <2>1, OpenedIs
  <2>3. [b \in D |-> open[p][b]] \in [D -> Opens] /\ D \subseteq Calls
    BY <2>2
  <2>4. [b \in D |-> open[p][b]] \in Opened
    BY <2>3, OpenedIs
  <2>5. QED
    BY <1>h, <1>a, <2>4 DEF Without
<1>14. ASSUME NEW p \in Procs, NEW c \in Calls, Write(p, c) PROVE Types'
  <2>1. open[p][c] \in Opens
    <3>1. open[p] \in Opened
      BY <1>a
    <3>2. open[p] \in [DOMAIN open[p] -> Opens]
      BY <3>1, OpenedIs
    <3>3. QED
      BY <1>14, <3>2 DEF Write
  <2>2. open[p][c].row \in Rows /\ open[p][c].date \in Times
    BY <2>1 DEF Opens
  <2>3. price' \in [Calls -> Rows] /\ basis' \in [Calls -> Times]
    BY <1>14, <1>a, <2>2 DEF Write, TypeOK
  <2>4. open' \in [Procs -> Opened]
    BY <1>14, <1>h DEF Write
  <2>5. QED
    BY <1>14, <1>a, <1>g, <1>i, <1>j, <2>3, <2>4 DEF Write, Types, TypeOK
<1>15. ASSUME NEW p \in Procs, NEW c \in Calls, CallFails(p, c) PROVE Types'
  <2>1. open' \in [Procs -> Opened] /\ faults' \in 0..MaxFaults
    BY <1>15, <1>h, <1>f DEF CallFails
  <2>2. QED
    BY <1>15, <1>a, <1>g, <1>i, <1>j, <2>1 DEF CallFails, Types, TypeOK
<1>16. ASSUME NEW p \in Procs, NEW s \in Conns, Finish(p, s) PROVE Types'
  <2>1. Leave(p, s) /\ Ends(p)
    BY <1>16 DEF Finish, Leave
  <2>2. QED
    BY <1>16, <1>a, <1>g, <1>i, <2>1, EndsTypes, LeaveTypes DEF Finish, Types, TypeOK
<1>17. ASSUME NEW p \in Procs, NEW s \in Conns, SetBased(p, s) PROVE Types'
  <2> DEFINE row(c) == [q \in Quotes |-> IF Read(c, q)
                                         THEN Local(Instant(c, q)) ELSE Null]
  <2>1. PICK D \in {{c \in First(p, mode[p].limit) : Writes(row(c))}} :
            /\ price' = [c \in Calls |-> IF c \in D THEN row(c) ELSE price[c]]
            /\ basis' = [c \in Calls |-> IF c \in D THEN date[c] ELSE basis[c]]
    BY <1>17 DEF SetBased
  <2>2. Leave(p, s) /\ Ends(p)
        /\ UNCHANGED <<now, candles, date, open, others, faults>>
    BY <1>17 DEF SetBased, Leave
  <2>3. \A c \in D : c \in Calls /\ date[c] <= now
    BY FirstIs
  <2>4. \A c \in D : row(c) \in Rows
    <3>1. TAKE c \in D
    <3>2. \A t \in Times : Local(t) \in Prices
      BY <1>a, LocalIs DEF TypeOK, Prices
    <3>3. \A q \in Quotes : Read(c, q) => Instant(c, q) \in Times
      BY <1>a, <2>3, InstantIs DEF Read, Elapsed
    <3>4. QED
      BY <3>2, <3>3 DEF Rows, Prices
  <2> HIDE DEF row
  <2>5. price' \in [Calls -> Rows] /\ basis' \in [Calls -> Times]
    BY <1>a, <2>1, <2>4 DEF TypeOK
  <2>6. QED
    BY <1>a, <1>g, <1>i, <2>2, <2>5, EndsTypes, LeaveTypes DEF Types, TypeOK
<1>18. CASE UNCHANGED vars
  BY <1>18, <1>a, <1>g, <1>i DEF vars, Types, TypeOK
<1>19. ASSUME NEW p \in Procs, Begin(p) \/ BeginByHand(p) PROVE Types'
  <2>1. PICK s \in Conns, m \in Mode : Start(p, s, m)
    BY <1>19, BoundsAssumption DEF Begin, BeginByHand
  <2>2. faults' \in 0..MaxFaults
    BY <1>19, <1>a, <1>f DEF Begin, BeginByHand, TypeOK
  <2>3. QED
    BY <1>9, <2>1, <2>2
<1>20. \A p \in Procs : Pool[p] \subseteq Conns
  BY BoundsAssumption
<1>21. ASSUME NEW first \in Times, NEW final \in Times, BulkFile(first, final)
       PROVE  Types'
  <2>1. candles' \subseteq Times
    BY <1>21, <1>a, BoundsAssumption DEF BulkFile, Exchange, TypeOK
  <2>2. QED
    BY <1>21, <1>a, <1>f, <1>g, <1>i, <2>1 DEF BulkFile, Types, TypeOK
<1>22. QED
  BY <1>1, <1>2, <1>3, <1>4, <1>5, <1>6, <1>7, <1>8, <1>10, <1>11,
     <1>12, <1>13, <1>14, <1>15, <1>16, <1>17, <1>18, <1>19, <1>20, <1>21
  DEF Next, Refresh, Step

LEMMA TypesHold == Spec => []Types
BY InitTypes, StepTypes, PTL DEF Spec

\* Every variable keeps its type, whatever fails.
THEOREM PriceTypeCorrect == Spec => []TypeOK
<1>1. Types => TypeOK
  BY DEF Types
<1>2. QED
  BY <1>1, TypesHold, PTL

-----------------------------------------------------------------------------
(* The lock *)

\* One connection at most holds the lock.
Exclusive ==
    \A p, q \in Procs, s, r \in Conns :
        held[p][s] > 0 /\ held[q][r] > 0 => p = q /\ s = r

\* Who matches holds it, unless it was cut.
MatcherHolds ==
    \A p \in Procs : pc[p] = "matching" /\ p \notin cut =>
        \E s \in Conns : held[p][s] > 0

LockInv == TypeOK /\ Exclusive /\ MatcherHolds

LEMMA LockInit == Init => LockInv
<1> SUFFICES ASSUME Init PROVE LockInv
  OBVIOUS
<1>1. TypeOK
  BY InitTypes DEF Types
<1>2. QED
  BY <1>1 DEF Init, LockInv, Exclusive, MatcherHolds, Unheld

\* A process that ends gives up its place, and at most what it holds.
LEMMA EndKeepsLock ==
  ASSUME LockInv, NEW p \in Procs, Ends(p),
         \A q \in Procs \ {p} : held'[q] = held[q],
         \A s \in Conns : held'[p][s] > 0 => held[p][s] > 0
  PROVE  Exclusive' /\ MatcherHolds'
<1>1. /\ pc'[p] = "idle"
      /\ \A q \in Procs \ {p} : pc'[q] = pc[q]
      /\ \A q \in Procs \ {p} : pc[q] = "matching" => cut' = cut
  BY DEF LockInv, TypeOK, Ends
<1>2. Exclusive'
  BY DEF LockInv, Exclusive
<1>3. MatcherHolds'
  BY <1>1 DEF LockInv, MatcherHolds
<1>4. QED
  BY <1>2, <1>3

LEMMA LeaveKeepsLock ==
  ASSUME LockInv, NEW p \in Procs, NEW s \in Conns, Leave(p, s)
  PROVE  Exclusive' /\ MatcherHolds'
<1>1. Ends(p)
  BY DEF Leave
<1>2. held \in [Procs -> [Conns -> 0..MaxHeld]]
  BY DEF LockInv, TypeOK
<1>3. \A q \in Procs \ {p} : held'[q] = held[q]
  BY <1>2 DEF Leave
<1>4. \A r \in Conns : held'[p][r] > 0 => held[p][r] > 0
  BY <1>2 DEF Leave, Unheld
<1>5. QED
  BY <1>1, <1>3, <1>4, EndKeepsLock

LEMMA LockStep == Types /\ LockInv /\ [Next]_vars => LockInv'
<1> SUFFICES ASSUME Types, LockInv, [Next]_vars PROVE LockInv'
  OBVIOUS
<1> USE DEF rows, locks, matcher, others
<1>a. TypeOK /\ TypeOK' /\ held \in [Procs -> [Conns -> 0..MaxHeld]]
  BY StepTypes DEF Types, TypeOK
<1>b. Exclusive /\ MatcherHolds
  BY DEF LockInv
<1>1. CASE UNCHANGED <<held, pc, cut>>
  BY <1>1, <1>a, <1>b DEF LockInv, Exclusive, MatcherHolds
<1>2. ASSUME NEW p \in Procs, NEW s \in Conns, Take(p, s)
      PROVE  /\ Exclusive'
             /\ \A q \in Procs, r \in Conns : held[q][r] > 0 => held'[q][r] > 0
             /\ held'[p][s] > 0
  <2>1. \A q \in Procs, r \in Conns : held'[q][r] =
            IF q = p /\ r = s THEN held[q][r] + 1 ELSE held[q][r]
    BY <1>2, <1>a DEF Take
  <2>2. \A q \in Procs, r \in Conns : held[q][r] \in Nat
    BY <1>a
  <2>3. \A q \in Procs, r \in Conns : held'[q][r] > 0 => q = p /\ r = s
    BY <1>2, <2>1 DEF Take, Grants
  <2>4. QED
    BY <2>1, <2>2, <2>3 DEF Exclusive
<1>3. ASSUME NEW p \in Procs, NEW s \in Conns, NEW m \in Mode, Start(p, s, m)
      PROVE  LockInv'
  <2>1. Take(p, s) /\ cut' = cut /\ pc' = [pc EXCEPT ![p] = "matching"]
    BY <1>3 DEF Start
  <2>2. \A q \in Procs \ {p} : pc'[q] = pc[q]
    BY <2>1, <1>a DEF TypeOK
  <2>3. MatcherHolds'
    BY <1>2, <1>b, <2>1, <2>2 DEF MatcherHolds
  <2>4. QED
    BY <1>2, <1>a, <2>1, <2>3 DEF LockInv
<1>4. ASSUME NEW p \in Procs, NEW s \in Conns, StartLost(p, s) PROVE LockInv'
  <2>1. Take(p, s) /\ cut' = cut /\ pc' = pc
    BY <1>4 DEF StartLost
  <2>2. MatcherHolds'
    BY <1>2, <1>b, <2>1 DEF MatcherHolds
  <2>3. QED
    BY <1>2, <1>a, <2>1, <2>2 DEF LockInv
<1>5. ASSUME NEW p \in Procs, NEW s \in Conns, Close(p, s) PROVE LockInv'
  <2>1. held' = [held EXCEPT ![p][s] = 0] /\ pc' = pc
        /\ cut \subseteq cut' /\ (pc[p] = "matching" => p \in cut')
    BY <1>5, <1>a DEF Close, TypeOK
  <2>2. \A q \in Procs, r \in Conns :
            held'[q][r] = IF q = p /\ r = s THEN 0 ELSE held[q][r]
    BY <1>a, <2>1
  <2>3. Exclusive'
    BY <1>b, <2>2 DEF Exclusive
  <2>4. MatcherHolds'
    BY <1>b, <2>1, <2>2 DEF MatcherHolds
  <2>5. QED
    BY <1>a, <2>3, <2>4 DEF LockInv
<1>6. ASSUME NEW p \in Procs, Crash(p) PROVE LockInv'
  <2>1. Ends(p) /\ held' = [held EXCEPT ![p] = Unheld]
    BY <1>6 DEF Crash
  <2>2. /\ \A q \in Procs \ {p} : held'[q] = held[q]
        /\ \A s \in Conns : ~(held'[p][s] > 0)
    BY <1>a, <2>1 DEF Unheld
  <2>3. QED
    BY <1>a, <2>1, <2>2, EndKeepsLock DEF LockInv
<1>7. ASSUME NEW p \in Procs, NEW s \in Conns, Finish(p, s) \/ SetBased(p, s)
      PROVE  LockInv'
  BY <1>7, <1>a, LeaveKeepsLock DEF Finish, SetBased, LockInv
<1>8. ASSUME NEW p \in Procs, Begin(p) \/ BeginByHand(p) PROVE LockInv'
  <2>1. PICK s \in Conns, m \in Mode : Start(p, s, m)
    BY <1>8, BoundsAssumption DEF Begin, BeginByHand
  <2>2. QED
    BY <1>3, <2>1
<1>9. \A p \in Procs : Pool[p] \subseteq Conns
  BY BoundsAssumption
<1>10. QED
  BY <1>1, <1>4, <1>5, <1>6, <1>7, <1>8, <1>9
  DEF Next, Tick, Refresh, RefreshStart, RefreshWindow, RefreshFails, BulkFile, RepairFind,
      RepairWrite, Redate, Reset, ClearPremature, Step, Batch, Write, CallFails, vars

LEMMA Alone == LockInv => AloneUnlessCut
BY DEF LockInv, Exclusive, MatcherHolds, AloneUnlessCut

LEMMA LockHolds == Spec => [](Types /\ LockInv)
BY InitTypes, StepTypes, LockInit, LockStep, PTL DEF Spec

\* Two processes match at the same time only if the connection that held the
\* lock for one of them was closed under it.
THEOREM MatchersAreAlone == Spec => []AloneUnlessCut
BY Alone, LockHolds, PTL

-----------------------------------------------------------------------------
(* What dates prices are for *)

\* A date is corrected once.
DateIs == \A c \in Calls : date[c] \in {Date[c], Published[c]}

DatesGood ==
    /\ \A c \in Calls : basis[c] = date[c] \/ Redated(c)
    /\ \A p \in Procs : \A c \in DOMAIN open[p] :
            open[p][c].date = date[c] \/ Redated(c)
    /\ Repairing => fix.date = date[fix.call] \/ Redated(fix.call)

\* Without a price at the call there is no price of a horizon.
EntryFirst ==
    \A c \in Calls : price[c][Entry] = Null => \A q \in Quotes : price[c][q] = Null

DateInv == Types /\ DateIs /\ DatesGood /\ EntryFirst

LEMMA DateInit == Init => DateInv
<1> SUFFICES ASSUME Init PROVE DateInv
  OBVIOUS
<1>1. \A p \in Procs : DOMAIN open[p] = {}
  BY DEF Init, Closed
<1>2. ~Repairing /\ \A c \in Calls, q \in Quotes : price[c][q] = Null
  BY DEF Init, Repairing, Blank
<1>3. QED
  BY <1>1, <1>2, InitTypes DEF Init, DateInv, DateIs, DatesGood, EntryFirst

LEMMA DateStep == DateInv /\ [Next]_vars => DateInv'
<1> SUFFICES ASSUME DateInv, [Next]_vars PROVE DateInv'
  OBVIOUS
<1> USE DEF rows, locks, matcher, others
<1>a. /\ Types /\ Types' /\ TypeOK /\ TypeOK' /\ RepairIs
      /\ open \in [Procs -> Opened]
      /\ date \in [Calls -> Times] /\ basis \in [Calls -> Times]
      /\ price \in [Calls -> Rows]
      /\ DateIs /\ DatesGood /\ EntryFirst /\ Entry \in Quotes
  BY StepTypes, OpenTypes, CallsAssumption DEF DateInv, Types, TypeOK
<1>b. \A p \in Procs : DOMAIN open[p] \subseteq Calls
  BY <1>a, OpenedIs
<1>1. ASSUME UNCHANGED <<date, basis, open, fix>> PROVE DateIs' /\ DatesGood'
  BY <1>1, <1>a, <1>b DEF DateIs, DatesGood, Redated, Repairing, RepairIs
<1>2. ASSUME UNCHANGED price PROVE EntryFirst'
  BY <1>2, <1>a DEF EntryFirst
<1>3. CASE UNCHANGED <<date, basis, price, open, fix>>
  BY <1>3, <1>1, <1>2, <1>a DEF DateInv
<1>4. ASSUME NEW c \in Calls, RepairFind(c) PROVE DateInv'
  <2>1. fix'.call = c /\ fix'.date = date[c]
        /\ UNCHANGED <<date, basis, price, open>>
    BY <1>4 DEF RepairFind
  <2>2. DateIs' /\ DatesGood'
    BY <1>a, <1>b, <2>1 DEF DateIs, DatesGood, Redated
  <2>3. QED
    BY <1>2, <1>a, <2>1, <2>2 DEF DateInv
<1>5. CASE RepairWrite
  <2>1. /\ fix.call \in Calls /\ fix.candle \in Times /\ fix.date \in Times
        /\ Repairing /\ ~Repairing' /\ UNCHANGED <<date, open>>
    BY <1>5, <1>a DEF RepairWrite, RepairIs, Repairing
  <2>2. \A c \in Calls : basis'[c] = basis[c] \/ (c = fix.call /\ basis'[c] = fix.date)
    BY <1>5, <1>a, <2>1 DEF RepairWrite
  <2>3. DateIs' /\ DatesGood'
    BY <1>a, <1>b, <2>1, <2>2 DEF DateIs, DatesGood, Redated
  <2>4. \A c \in Calls : \/ price'[c] = price[c]
                         \/ price'[c][Entry] = fix.candle
    BY <1>5, <1>a, <2>1 DEF RepairWrite, Rows
  <2>5. Null \notin Times
    BY DEF Times, Null
  <2>6. EntryFirst'
    BY <1>a, <2>1, <2>4, <2>5 DEF EntryFirst
  <2>7. QED
    BY <1>a, <2>3, <2>6 DEF DateInv
<1>6. ASSUME NEW c \in Calls, Redate(c) PROVE DateInv'
  <2>1. /\ date[c] = Date[c] /\ date'[c] = Published[c] /\ Redated(c)'
        /\ \A b \in Calls \ {c} : date'[b] = date[b]
        /\ UNCHANGED <<basis, price, open, fix>>
    BY <1>6, <1>a DEF Redate, DateIs, Redated
  <2>2. DateIs' /\ DatesGood'
    BY <1>a, <1>b, <2>1 DEF DateIs, DatesGood, Redated, Repairing, RepairIs
  <2>3. QED
    BY <1>2, <1>a, <2>1, <2>2 DEF DateInv
<1>7. CASE Reset \/ ClearPremature
  <2>1. UNCHANGED <<date, basis, open, fix>>
    BY <1>7 DEF Reset, ClearPremature
  <2>2. \A c \in Calls : /\ price'[c][Entry] \in {price[c][Entry], Null}
                         /\ price'[c][Entry] = Null /\ price[c][Entry] # Null
                                => price'[c] = Blank[c]
                         /\ \A q \in Quotes : price'[c][q] \in {price[c][q], Null}
    BY <1>7, <1>a DEF Reset, ClearPremature, Blank
  <2>3. EntryFirst'
    BY <1>a, <2>2 DEF EntryFirst, Blank
  <2>4. QED
    BY <1>1, <1>a, <2>1, <2>3 DEF DateInv
<1>8. ASSUME NEW p \in Procs, Crash(p) PROVE DateInv'
  <2>1. /\ DOMAIN open'[p] = {} /\ \A r \in Procs \ {p} : open'[r] = open[r]
        /\ UNCHANGED <<date, basis, price, fix>>
    BY <1>8, <1>a DEF Crash, Closed
  <2>2. DateIs' /\ DatesGood'
    BY <1>a, <1>b, <2>1 DEF DateIs, DatesGood, Redated, Repairing, RepairIs
  <2>3. QED
    BY <1>2, <1>a, <2>1, <2>2 DEF DateInv
<1>9. ASSUME NEW p \in Procs, Batch(p) PROVE DateInv'
  <2> DEFINE B == NextBatch(p)
  <2>1. /\ open' = [open EXCEPT ![p] = [c \in B |-> [date |-> date[c],
                row |-> [q \in Quotes |->
                    IF Read(c, q) THEN Answer(p, Instant(c, q)) ELSE Null]]]]
        /\ UNCHANGED <<date, basis, price, fix>>
    BY <1>9 DEF Batch
  <2>2. /\ DOMAIN open'[p] = B /\ \A c \in B : open'[p][c].date = date[c]
        /\ \A r \in Procs \ {p} : open'[r] = open[r]
    BY <1>a, <2>1
  <2>3. DateIs' /\ DatesGood'
    BY <1>a, <1>b, <2>1, <2>2 DEF DateIs, DatesGood, Redated, Repairing, RepairIs
  <2>4. QED
    BY <1>2, <1>a, <2>1, <2>3 DEF DateInv
<1>c. ASSUME NEW p \in Procs, NEW c \in Calls, open' = Without(p, c)
      PROVE  \A r \in Procs : \A b \in DOMAIN open'[r] :
                b \in DOMAIN open[r] /\ open'[r][b] = open[r][b]
  BY <1>c, <1>a DEF Without
<1>10. ASSUME NEW p \in Procs, NEW c \in Calls, Write(p, c) PROVE DateInv'
  <2>1. /\ c \in DOMAIN open[p] /\ UNCHANGED <<date, fix>> /\ open' = Without(p, c)
    BY <1>10 DEF Write
  <2>2. \A b \in Calls :
            \/ price'[b] = price[b] /\ basis'[b] = basis[b]
            \/ /\ b = c /\ Writes(open[p][c].row)
               /\ price'[b] = open[p][c].row /\ basis'[b] = open[p][c].date
    BY <1>10, <1>a DEF Write
  <2>3. DateIs' /\ DatesGood'
    BY <1>a, <1>c, <2>1, <2>2 DEF DateIs, DatesGood, Redated, Repairing
  <2>4. EntryFirst'
    BY <1>a, <2>2 DEF EntryFirst, Writes
  <2>5. QED
    BY <1>a, <2>3, <2>4 DEF DateInv
<1>11. ASSUME NEW p \in Procs, NEW c \in Calls, CallFails(p, c) PROVE DateInv'
  <2>1. UNCHANGED <<date, basis, price, fix>> /\ open' = Without(p, c)
    BY <1>11 DEF CallFails
  <2>2. DateIs' /\ DatesGood'
    BY <1>a, <1>c, <2>1 DEF DateIs, DatesGood, Redated, Repairing, RepairIs
  <2>3. QED
    BY <1>2, <1>a, <2>1, <2>2 DEF DateInv
<1>12. ASSUME NEW p \in Procs, NEW s \in Conns, SetBased(p, s) PROVE DateInv'
  <2> DEFINE row(c) == [q \in Quotes |-> IF Read(c, q)
                                         THEN Local(Instant(c, q)) ELSE Null]
  <2>1. PICK D \in {{c \in First(p, mode[p].limit) : Writes(row(c))}} :
            /\ price' = [c \in Calls |-> IF c \in D THEN row(c) ELSE price[c]]
            /\ basis' = [c \in Calls |-> IF c \in D THEN date[c] ELSE basis[c]]
    BY <1>12 DEF SetBased
  <2>2. UNCHANGED <<date, open, fix>>
    BY <1>12 DEF SetBased
  <2>3. \A c \in D : Writes(row(c))
    OBVIOUS
  <2> HIDE DEF row
  <2>4. \A c \in Calls : \/ price'[c] = price[c] /\ basis'[c] = basis[c]
                         \/ price'[c][Entry] # Null /\ basis'[c] = date[c]
    BY <2>1, <2>3 DEF Writes
  <2>5. DateIs' /\ DatesGood'
    BY <1>a, <1>b, <2>2, <2>4 DEF DateIs, DatesGood, Redated, Repairing, RepairIs
  <2>6. EntryFirst'
    BY <1>a, <2>4 DEF EntryFirst
  <2>7. QED
    BY <1>a, <2>5, <2>6 DEF DateInv
<1>13. \A p \in Procs : Pool[p] \subseteq Conns
  BY BoundsAssumption
<1>14. QED
  BY <1>3, <1>4, <1>5, <1>6, <1>7, <1>8, <1>9, <1>10, <1>11, <1>12, <1>13
  DEF Next, Tick, Refresh, RefreshStart, RefreshWindow, RefreshFails, BulkFile, Begin,
      BeginByHand, Start, Step, StartLost, Close, Finish, vars

-----------------------------------------------------------------------------
(* Where prices come from *)

\* The candle k of the table C may stand for the price at t, which is past.
Good(t, k, C, n) ==
    k \in C /\ k - t \in -(Stale + Grain - 1)..(Tolerance + Grain - 1) /\ t <= n

\* It may be remembered for the instants that are rounded to e.
Kept(e, k, C) ==
    k \in C /\ k - e \in -Stale..(Tolerance + Grain - 1)

PricesGood ==
    \A c \in Calls, q \in Quotes :
        price[c][q] # Null => Good(At(basis[c], q), price[c][q], candles, now)

OpenGood ==
    \A p \in Procs : \A c \in DOMAIN open[p] : \A q \in Quotes :
        open[p][c].row[q] # Null =>
            Good(At(open[p][c].date, q), open[p][c].row[q], candles, now)

CacheGood ==
    \A p \in Procs, e \in Keys :
        cache[p][e] \notin {Unread, Null} => Kept(e, cache[p][e], candles)

RepairGood ==
    Repairing => fix.candle # Null /\ Good(fix.date, fix.candle, candles, now)

NearInv == DateInv /\ PricesGood /\ OpenGood /\ CacheGood /\ RepairGood

LEMMA NearInit == Init => NearInv
<1> SUFFICES ASSUME Init PROVE NearInv
  OBVIOUS
<1>1. \A p \in Procs : DOMAIN open[p] = {}
  BY DEF Init, Closed
<1>2. ~Repairing /\ \A c \in Calls, q \in Quotes : price[c][q] = Null
  BY DEF Init, Repairing, Blank
<1>3. QED
  BY <1>1, <1>2, DateInit
  DEF Init, NearInv, PricesGood, OpenGood, CacheGood, RepairGood, Clear

\* No candle is deleted, and the clock does not go back.
LEMMA GoodStays ==
  ASSUME Types, [Next]_vars
  PROVE  /\ candles \subseteq candles' /\ now <= now'
         /\ \A t \in Nat : \A k :
                Good(t, k, candles, now) => Good(t, k, candles', now')
         /\ \A e, k : Kept(e, k, candles) => Kept(e, k, candles')
<1>1. now \in Nat
  BY DEF Types, TypeOK, Times
<1>2. candles \subseteq candles' /\ (now' = now \/ now' = now + 1)
  BY DEF Next, Tick, Refresh, RefreshStart, RefreshWindow, RefreshFails,
         BulkFile, RepairFind, RepairWrite, Redate, Reset, ClearPremature, Begin, BeginByHand,
         Step, Start, StartLost, Close, Crash, Batch, Write, CallFails, Finish,
         SetBased, vars
<1>3. now' \in Nat /\ now <= now'
  BY <1>1, <1>2
<1>4. ASSUME NEW t \in Nat, NEW k, Good(t, k, candles, now)
      PROVE  Good(t, k, candles', now')
  BY <1>4, <1>1, <1>2, <1>3 DEF Good
<1>5. QED
  BY <1>2, <1>3, <1>4 DEF Kept

\* What is near an instant may be remembered for it.
LEMMA FoundIsKept ==
  ASSUME NEW t \in Times, NEW k \in Times, NEW C, k \in C,
         k - t <= Tolerance, t - k <= Stale
  PROVE  /\ Kept(Key(t), k, C)
         /\ \A n : t <= n => Good(t, k, C, n)
<1>1. t \in Nat /\ k \in Nat /\ Stale \in Nat /\ Tolerance \in Nat /\ Grain \in Nat
      /\ Grain >= 1
  BY BoundsAssumption DEF Times
<1>2. Key(t) \in Nat /\ Key(t) <= t /\ t - Key(t) <= Grain - 1
  BY <1>1, KeyIs
<1>3. k - Key(t) \in -Stale..(Tolerance + Grain - 1)
  BY <1>1, <1>2
<1>4. k - t \in -(Stale + Grain - 1)..(Tolerance + Grain - 1)
  BY <1>1
<1>5. QED
  BY <1>3, <1>4 DEF Kept, Good

\* What is remembered may stand for every instant of the entry.
LEMMA KeptIsGood ==
  ASSUME NEW t \in Nat, NEW k \in Times, NEW C, Kept(Key(t), k, C), NEW n, t <= n
  PROVE  Good(t, k, C, n)
<1>1. k \in Nat /\ Stale \in Nat /\ Tolerance \in Nat /\ Grain \in Nat
      /\ Grain >= 1
  BY BoundsAssumption DEF Times
<1>2. Key(t) \in Nat /\ Key(t) <= t /\ t - Key(t) <= Grain - 1
  BY KeyIs
<1> DEFINE e == Key(t)
<1>3. k \in C /\ k - e \in -Stale..(Tolerance + Grain - 1)
  BY DEF Kept
<1> HIDE DEF e
<1>4. e \in Nat /\ e <= t /\ t - e <= Grain - 1
  BY <1>2 DEF e
<1>5. k - t \in -(Stale + Grain - 1)..(Tolerance + Grain - 1)
  BY <1>1, <1>3, <1>4
<1>6. QED
  BY <1>3, <1>5 DEF Good

\* What the table has at an instant is near it.
LEMMA LocalIsKept ==
  ASSUME TypeOK, NEW t \in Times, Local(t) # Null
  PROVE  /\ Local(t) \in Times /\ Kept(Key(t), Local(t), candles)
         /\ t <= now => Good(t, Local(t), candles, now)
<1>1. candles \subseteq Times
  BY DEF TypeOK
<1>2. Local(t) \in candles /\ Local(t) <= t /\ t - Local(t) <= Stale
  BY <1>1, LocalIs
<1>a. Local(t) \in Times
  BY <1>1, <1>2
<1> DEFINE k == Local(t)
<1> HIDE DEF k
<1>b. k \in Nat /\ t \in Nat /\ Tolerance \in Nat
  BY <1>a, BoundsAssumption DEF k, Times
<1>3. Local(t) \in Times /\ Local(t) \in Nat /\ t \in Nat /\ Tolerance \in Nat
  BY <1>a, <1>b DEF k
<1>4. Local(t) - t <= Tolerance
  BY <1>2, <1>3
<1>5. QED
  BY <1>2, <1>3, <1>4, FoundIsKept

LEMMA NearStep == NearInv /\ [Next]_vars => NearInv'
<1> SUFFICES ASSUME NearInv, [Next]_vars PROVE NearInv'
  OBVIOUS
<1> USE DEF rows, locks, matcher, others
<1>a. /\ Types /\ Types' /\ TypeOK /\ TypeOK' /\ RepairIs
      /\ open \in [Procs -> Opened] /\ open' \in [Procs -> Opened]
      /\ DateInv /\ DateInv' /\ EntryFirst
      /\ PricesGood /\ OpenGood /\ CacheGood /\ RepairGood
  BY DateStep, OpenTypes DEF NearInv, DateInv, Types, TypeOK
<1>b. /\ candles \subseteq candles' /\ now <= now'
      /\ \A t \in Nat : \A k :
            Good(t, k, candles, now) => Good(t, k, candles', now')
      /\ \A e, k : Kept(e, k, candles) => Kept(e, k, candles')
  BY <1>a, GoodStays
<1>c. /\ \A d \in Times, q \in Quotes : At(d, q) \in Nat /\ At(d, Entry) = d
      /\ \A d \in Times : d \in Nat
      /\ Entry \in Quotes /\ candles \subseteq Times /\ now \in Nat
      /\ basis \in [Calls -> Times] /\ date \in [Calls -> Times]
      /\ price \in [Calls -> Rows]
      /\ cache \in [Procs -> [Keys -> {Unread, Null} \cup Times]]
  BY <1>a, DatesHavePast, CallsAssumption DEF TypeOK, Times
<1>d. \A p \in Procs : /\ DOMAIN open[p] \subseteq Calls
                       /\ \A c \in DOMAIN open[p] : open[p][c].date \in Times
  <2>1. TAKE p \in Procs
  <2>2. open[p] \in [DOMAIN open[p] -> Opens] /\ DOMAIN open[p] \subseteq Calls
    BY <1>a, OpenedIs
  <2>3. QED
    BY <2>2 DEF Opens
<1>1. ASSUME UNCHANGED basis,
             \A c \in Calls, q \in Quotes : price'[c][q] \in {price[c][q], Null}
      PROVE  PricesGood'
  BY <1>1, <1>a, <1>b, <1>c DEF PricesGood
<1>2. ASSUME \A p \in Procs : \A c \in DOMAIN open'[p] :
                c \in DOMAIN open[p] /\ open'[p][c] = open[p][c]
      PROVE  OpenGood'
  BY <1>2, <1>a, <1>b, <1>c, <1>d DEF OpenGood
<1>3. ASSUME \A p \in Procs : \A e \in Keys :
                cache'[p][e] = cache[p][e] \/ cache'[p][e] = Unread
      PROVE  CacheGood'
  BY <1>3, <1>a, <1>b DEF CacheGood
<1>4. UNCHANGED fix => RepairGood'
  BY <1>a, <1>b, <1>c DEF RepairGood, RepairIs, Repairing
<1>5. UNCHANGED <<price, basis>> => PricesGood'
  BY <1>1
<1>6. UNCHANGED open => OpenGood'
  BY <1>2
<1>7. CASE UNCHANGED <<price, basis, open, cache, fix>>
  <2>1. CacheGood'
    BY <1>7, <1>3
  <2>2. QED
    BY <1>7, <1>a, <1>4, <1>5, <1>6, <2>1 DEF NearInv
<1>8. ASSUME NEW c \in Calls, RepairFind(c) PROVE NearInv'
  <2> DEFINE mine == Nearest(Near(candles, date[c]), date[c])
  <2> DEFINE k == fix'.candle
  <2>1. date[c] \in Times /\ date[c] <= now /\ now' = now
    BY <1>8, <1>c DEF RepairFind
  <2>2. /\ fix'.date = date[c] /\ k # Null /\ k \in candles'
        /\ k = mine \/ k = Fetch(date[c])
    <3>1. CASE mine # Null
      <4>1. fix' = [call |-> c, candle |-> mine, date |-> date[c]] /\ candles' = candles
        BY <1>8, <3>1 DEF RepairFind
      <4>2. mine \in candles
        BY <1>c, <2>1, <3>1, NearIs
      <4>3. QED
        BY <3>1, <4>1, <4>2
    <3>2. CASE mine = Null
      BY <1>8, <3>2 DEF RepairFind
    <3>3. QED
      BY <3>1, <3>2
  <2>3. k \in Times /\ k - date[c] <= Tolerance /\ date[c] - k <= Tolerance
    BY <1>c, <2>1, <2>2, NearIs, FetchIs
  <2>4. date[c] - k <= Stale
    <3>1. k \in Nat /\ date[c] \in Nat /\ Stale \in Nat /\ Tolerance \in 0..Stale
      BY <1>c, <2>1, <2>3, BoundsAssumption
    <3> HIDE DEF k
    <3>2. QED
      BY <2>3, <3>1
  <2>5. Good(date[c], k, candles', now')
    BY <2>1, <2>2, <2>3, <2>4, FoundIsKept
  <2>6. RepairGood'
    BY <2>2, <2>5 DEF RepairGood
  <2>7. UNCHANGED <<price, basis, open, cache>>
    BY <1>8 DEF RepairFind
  <2>8. QED
    BY <1>a, <1>3, <1>5, <1>6, <2>6, <2>7 DEF NearInv
<1>9. CASE RepairWrite
  <2>1. /\ fix.call \in Calls /\ fix.candle # Null /\ fix.date \in Times
        /\ Good(fix.date, fix.candle, candles, now)
    BY <1>9, <1>a DEF RepairWrite, RepairIs, RepairGood
  <2>2. ASSUME NEW c \in Calls, NEW q \in Quotes, price'[c][q] # Null
        PROVE  \/ basis'[c] = basis[c] /\ price'[c][q] = price[c][q]
               \/ /\ q = Entry /\ basis'[c] = fix.date
                  /\ price'[c][q] = fix.candle
    <3>1. CASE price' = price /\ basis' = basis
      BY <3>1
    <3>2. CASE ~(price' = price /\ basis' = basis)
      <4>1. /\ price[fix.call][Entry] = Null
            /\ price' = [price EXCEPT ![fix.call][Entry] = fix.candle]
            /\ basis' = [basis EXCEPT ![fix.call] = fix.date]
        BY <1>9, <3>2 DEF RepairWrite
      <4>2. CASE c = fix.call
        <5>1. price'[c] = [price[c] EXCEPT ![Entry] = fix.candle]
              /\ price[c] \in [Quotes -> {Null} \cup Times]
              /\ basis'[c] = fix.date
          BY <1>c, <2>1, <4>1, <4>2 DEF Rows
        <5>2. \A r \in Quotes : price[c][r] = Null
          BY <1>a, <4>1, <4>2 DEF EntryFirst
        <5>3. QED
          BY <1>c, <2>2, <5>1, <5>2
      <4>3. CASE c # fix.call
        BY <1>c, <4>1, <4>3
      <4>4. QED
        BY <4>2, <4>3
    <3>3. QED
      BY <3>1, <3>2
  <2>3. PricesGood'
    BY <1>a, <1>b, <1>c, <2>1, <2>2 DEF PricesGood
  <2>4. RepairGood' /\ UNCHANGED <<open, cache>>
    BY <1>9 DEF RepairWrite, RepairGood, Repairing
  <2>5. QED
    BY <1>a, <1>3, <1>6, <2>3, <2>4 DEF NearInv
<1>10. ASSUME NEW c \in Calls, Redate(c) PROVE NearInv'
  BY <1>10, <1>a, <1>3, <1>4, <1>5, <1>6 DEF Redate, NearInv
<1>11. CASE Reset \/ ClearPremature
  <2>1. /\ UNCHANGED <<basis, open, cache, fix>>
        /\ \A c \in Calls, q \in Quotes : price'[c][q] \in {price[c][q], Null}
    BY <1>11 DEF Reset, ClearPremature, Blank
  <2>2. QED
    BY <1>a, <1>1, <1>3, <1>4, <1>6, <2>1 DEF NearInv
<1>12. ASSUME NEW p \in Procs, NEW s \in Conns, NEW m \in Mode, Start(p, s, m)
      PROVE  NearInv'
  <2>1. \A r \in Procs : \A e \in Keys :
            cache'[r][e] = cache[r][e] \/ cache'[r][e] = Unread
    BY <1>12, <1>c DEF Start, Clear
  <2>2. UNCHANGED <<price, basis, open, fix>>
    BY <1>12 DEF Start
  <2>3. QED
    BY <1>a, <1>3, <1>4, <1>5, <1>6, <2>1, <2>2 DEF NearInv
<1>13. ASSUME NEW p \in Procs, Crash(p) PROVE NearInv'
  <2>1. \A r \in Procs : \A e \in Keys :
            cache'[r][e] = cache[r][e] \/ cache'[r][e] = Unread
    BY <1>13, <1>c DEF Crash, Clear
  <2>2. \A r \in Procs : \A c \in DOMAIN open'[r] :
            c \in DOMAIN open[r] /\ open'[r][c] = open[r][c]
    BY <1>13, <1>a DEF Crash, Closed
  <2>3. UNCHANGED <<price, basis, fix>>
    BY <1>13 DEF Crash
  <2>4. QED
    BY <1>a, <1>2, <1>3, <1>4, <1>5, <2>1, <2>2, <2>3 DEF NearInv
<1>e. ASSUME NEW p \in Procs, NEW s \in Conns, Leave(p, s) PROVE CacheGood'
  <2>1. \A r \in Procs : \A e \in Keys :
            cache'[r][e] = cache[r][e] \/ cache'[r][e] = Unread
    BY <1>e, <1>c DEF Leave, Clear
  <2>2. QED
    BY <1>3, <2>1
<1>14. ASSUME NEW p \in Procs, Batch(p) PROVE NearInv'
  <2> DEFINE B == NextBatch(p)
  <2> DEFINE T == Lookups(B)
  <2>1. /\ open' = [open EXCEPT ![p] = [c \in B |-> [date |-> date[c],
                row |-> [q \in Quotes |->
                    IF Read(c, q) THEN Answer(p, Instant(c, q)) ELSE Null]]]]
        /\ candles' = candles \cup
                ({Fetch(t) : t \in {i \in T : Asks(p, i)}} \ {Null})
        /\ UNCHANGED <<now, price, basis, fix>>
    BY <1>14 DEF Batch
  <2>2. PICK late \in [{Key(t) : t \in T} -> T] :
            /\ \A k \in DOMAIN late : Key(late[k]) = k
            /\ cache' = [cache EXCEPT ![p] =
                    [k \in Keys |-> IF k \in DOMAIN late THEN Answer(p, late[k])
                                    ELSE @[k]]]
    BY <1>14 DEF Batch
  <2>3. \A c \in B : c \in Calls /\ date[c] <= now
    BY FirstIs DEF NextBatch
  <2>4. \A c \in B, q \in Quotes : Read(c, q) =>
            /\ Instant(c, q) \in T /\ Instant(c, q) <= now
            /\ Instant(c, q) = At(date[c], q)
    <3>1. \A c \in B, q \in Quotes : Read(c, q) =>
            /\ Instant(c, q) \in Times /\ Instant(c, q) <= now
            /\ Instant(c, q) = At(date[c], q)
      BY <1>a, <2>3, InstantIs DEF Read, Elapsed
    <3>2. QED
      BY <3>1 DEF Lookups
  <2>5. \A t \in T : t \in Times /\ t <= now /\ t \in Nat /\ Key(t) \in Keys
    <3>1. \A t \in T : t \in Times /\ t <= now
      BY <2>4 DEF Lookups
    <3>2. QED
      BY <3>1, <1>c, KeysOfTimes
  <2> HIDE DEF B, T
  <2>6. ASSUME NEW t \in T, Answer(p, t) # Null
        PROVE  /\ Kept(Key(t), Answer(p, t), candles')
               /\ Good(t, Answer(p, t), candles', now')
    <3>1. CASE ~Searches(p, t)
      <4> DEFINE k == cache[p][Key(t)]
      <4>1. Answer(p, t) = k /\ k \notin {Unread, Null}
        BY <3>1, <2>6 DEF Answer, Searches
      <4>2. k \in Times /\ Kept(Key(t), k, candles)
        BY <1>a, <1>c, <2>5, <4>1 DEF CacheGood
      <4>3. Good(t, k, candles, now)
        BY <2>5, <4>2, KeptIsGood
      <4>4. QED
        BY <1>b, <2>5, <4>1, <4>2, <4>3
    <3>2. CASE Searches(p, t) /\ ~Asks(p, t)
      <4>1. Answer(p, t) = Local(t)
        BY <3>2 DEF Answer
      <4>2. Kept(Key(t), Local(t), candles) /\ Good(t, Local(t), candles, now)
        BY <1>a, <2>5, <2>6, <4>1, LocalIsKept
      <4>3. QED
        BY <1>b, <2>5, <4>1, <4>2
    <3>3. CASE Searches(p, t) /\ Asks(p, t)
      <4> DEFINE k == Fetch(t)
      <4>1. Answer(p, t) = k
        BY <3>3 DEF Answer
      <4>2. k \in candles'
        BY <2>1, <2>6, <3>3, <4>1
      <4>3. k \in Times /\ k - t <= Tolerance /\ t - k <= Tolerance
        BY <2>5, <2>6, <4>1, FetchIs
      <4>4. t \in Times /\ t <= now' /\ t - k <= Stale
        <5>1. k \in Nat /\ t \in Nat /\ Stale \in Nat /\ Tolerance \in 0..Stale
          BY <1>c, <2>5, <4>3, BoundsAssumption
        <5>2. t \in Times /\ t <= now /\ now' = now
          BY <2>1, <2>5
        <5> HIDE DEF k
        <5>3. QED
          BY <4>3, <5>1, <5>2
      <4> HIDE DEF k
      <4>5. QED
        BY <4>1, <4>2, <4>3, <4>4, FoundIsKept
    <3>4. QED
      BY <3>1, <3>2, <3>3
  <2>7. CacheGood'
    <3>1. ASSUME NEW r \in Procs, NEW e \in Keys,
                 cache'[r][e] \notin {Unread, Null}
          PROVE  Kept(e, cache'[r][e], candles')
      <4>1. CASE r = p /\ e \in DOMAIN late
        <5>1. cache'[r][e] = Answer(p, late[e]) /\ late[e] \in T /\ Key(late[e]) = e
          BY <4>1, <2>2, <1>c
        <5>2. QED
          BY <5>1, <3>1, <2>6
      <4>2. CASE ~(r = p /\ e \in DOMAIN late)
        <5>1. cache'[r][e] = cache[r][e]
          BY <4>2, <2>2, <1>c
        <5>2. QED
          BY <5>1, <3>1, <1>a, <1>b DEF CacheGood
      <4>3. QED
        BY <4>1, <4>2
    <3>2. QED
      BY <3>1 DEF CacheGood
  <2>8. OpenGood'
    <3>1. ASSUME NEW r \in Procs \ {p} PROVE open'[r] = open[r]
      BY <2>1, <1>a
    <3>2. DOMAIN open'[p] = B
      BY <2>1, <1>a
    <3>3. ASSUME NEW c \in B, NEW q \in Quotes, open'[p][c].row[q] # Null
          PROVE  Good(At(open'[p][c].date, q), open'[p][c].row[q], candles', now')
      <4>1. open'[p][c].row[q] = Answer(p, Instant(c, q)) /\ Read(c, q)
            /\ open'[p][c].date = date[c]
        BY <2>1, <3>3, <1>a
      <4>2. QED
        BY <2>4, <2>6, <3>3, <4>1
    <3>4. \A r \in Procs : \A c \in DOMAIN open'[r] : \A q \in Quotes :
            open'[r][c].row[q] # Null =>
                Good(At(open'[r][c].date, q), open'[r][c].row[q], candles', now')
      <4>1. TAKE r \in Procs
      <4>2. CASE r = p
        BY <3>2, <3>3, <4>2
      <4>3. CASE r # p
        BY <3>1, <4>3, <1>a, <1>b, <1>c, <1>d DEF OpenGood
      <4>4. QED
        BY <4>2, <4>3
    <3>5. QED
      BY <3>4 DEF OpenGood
  <2>9. QED
    BY <1>a, <1>4, <1>5, <2>1, <2>7, <2>8 DEF NearInv
<1>f. ASSUME NEW p \in Procs, NEW c \in Calls, open' = Without(p, c) PROVE OpenGood'
  <2>1. \A r \in Procs : \A b \in DOMAIN open'[r] :
            b \in DOMAIN open[r] /\ open'[r][b] = open[r][b]
    BY <1>f, <1>a DEF Without
  <2>2. QED
    BY <1>2, <2>1
<1>15. ASSUME NEW p \in Procs, NEW c \in Calls, Write(p, c) PROVE NearInv'
  <2>1. /\ c \in DOMAIN open[p] /\ open' = Without(p, c) /\ UNCHANGED <<cache, fix>>
    BY <1>15 DEF Write
  <2>2. \A b \in Calls :
            \/ price'[b] = price[b] /\ basis'[b] = basis[b]
            \/ b = c /\ price'[b] = open[p][c].row /\ basis'[b] = open[p][c].date
    BY <1>15, <1>c DEF Write
  <2>3. PricesGood'
    BY <1>a, <1>b, <1>c, <1>d, <2>1, <2>2 DEF PricesGood, OpenGood
  <2>4. QED
    BY <1>a, <1>3, <1>4, <1>f, <2>1, <2>3 DEF NearInv
<1>16. ASSUME NEW p \in Procs, NEW c \in Calls, CallFails(p, c) PROVE NearInv'
  <2>1. UNCHANGED <<price, basis, cache, fix>> /\ open' = Without(p, c)
    BY <1>16 DEF CallFails
  <2>2. QED
    BY <1>a, <1>3, <1>4, <1>5, <1>f, <2>1 DEF NearInv
<1>17. ASSUME NEW p \in Procs, NEW s \in Conns, Finish(p, s) PROVE NearInv'
  BY <1>17, <1>a, <1>4, <1>5, <1>6, <1>e DEF Finish, NearInv
<1>18. ASSUME NEW p \in Procs, NEW s \in Conns, SetBased(p, s) PROVE NearInv'
  <2> DEFINE row(c) == [q \in Quotes |-> IF Read(c, q)
                                         THEN Local(Instant(c, q)) ELSE Null]
  <2>1. PICK D \in {{c \in First(p, mode[p].limit) : Writes(row(c))}} :
            /\ price' = [c \in Calls |-> IF c \in D THEN row(c) ELSE price[c]]
            /\ basis' = [c \in Calls |-> IF c \in D THEN date[c] ELSE basis[c]]
    BY <1>18 DEF SetBased
  <2>2. \A c \in D : c \in Calls /\ date[c] <= now
    BY FirstIs
  <2>3. ASSUME NEW c \in D, NEW q \in Quotes, row(c)[q] # Null
        PROVE  Good(At(date[c], q), row(c)[q], candles, now)
    <3>1. Read(c, q) /\ row(c)[q] = Local(Instant(c, q))
      BY <2>3
    <3>2. Instant(c, q) \in Times /\ Instant(c, q) <= now
          /\ Instant(c, q) = At(date[c], q)
      BY <1>a, <2>2, <3>1, InstantIs DEF Read, Elapsed
    <3>3. QED
      BY <1>a, <2>3, <3>1, <3>2, LocalIsKept
  <2> HIDE DEF row
  <2>4. \A c \in Calls : \/ price'[c] = price[c] /\ basis'[c] = basis[c]
                         \/ c \in D /\ price'[c] = row(c) /\ basis'[c] = date[c]
    BY <2>1
  <2>5. PricesGood'
    BY <1>a, <1>b, <1>c, <2>3, <2>4 DEF PricesGood
  <2>6. UNCHANGED <<open, fix>> /\ Leave(p, s)
    BY <1>18 DEF SetBased
  <2>7. QED
    BY <1>a, <1>4, <1>6, <1>e, <2>5, <2>6 DEF NearInv
<1>19. ASSUME NEW p \in Procs, Begin(p) \/ BeginByHand(p) PROVE NearInv'
  <2>1. PICK s \in Conns, m \in Mode : Start(p, s, m)
    BY <1>19, BoundsAssumption DEF Begin, BeginByHand
  <2>2. QED
    BY <1>12, <2>1
<1>20. \A p \in Procs : Pool[p] \subseteq Conns
  BY BoundsAssumption
<1>21. QED
  BY <1>7, <1>8, <1>9, <1>10, <1>11, <1>13, <1>14, <1>15, <1>16, <1>17, <1>18,
     <1>19, <1>20
  DEF Next, Tick, Refresh, RefreshStart, RefreshWindow, RefreshFails, BulkFile, Step,
      StartLost, Close, vars

LEMMA NearHolds == Spec => []NearInv
BY NearInit, NearStep, PTL DEF Spec

\* The prices of a call are all for one date, its own unless that was corrected,
\* and each comes from a candle of the table at most a day before its instant or
\* within the tolerance around it, give or take the five minutes of the cache.
THEOREM PricesAreNear == Spec => []PriceNearInstant
<1>1. NearInv => PriceNearInstant
  BY DEF NearInv, DateInv, DatesGood, PricesGood, Good, PriceNearInstant
<1>2. QED
  BY <1>1, NearHolds, PTL

-----------------------------------------------------------------------------
(* Gaps *)

\* What the exchange has between the start date and the next window is there or
\* is a gap already.
Covered ==
    Refreshing => \A t \in Traded :
                    t < ref.next => \/ t \in candles \/ t < Newest(candles)
                                    \/ t < ref.start

\* More candles, a later newest one.
LEMMA NewestGrows ==
  ASSUME NEW S, NEW R, S \subseteq R, R \subseteq Times
  PROVE  Newest(S) \in Nat /\ Newest(R) \in Nat /\ Newest(S) <= Newest(R)
<1>1. CASE S = {}
  BY <1>1, NewestTime DEF Newest, Null
<1>2. CASE S # {}
  BY <1>2, NewestTime
<1>3. QED
  BY <1>1, <1>2

\* A window begins where the table ends, at the start date or where a window
\* before it ended, so what it skips was a gap before or precedes that date.
LEMMA WindowLeavesNoGap ==
  ASSUME Types, Types', Covered, RefreshWindow
  PROVE  Covered' /\ \A t \in Gaps' \ Gaps : t < ref.start
<1> DEFINE k == ref.next
<1>1. /\ Refreshing /\ k \in Times /\ k \in Nat /\ k <= now /\ now \in Nat
      /\ candles' = candles \cup ({k} \cap Exchange) /\ now' = now
      /\ ref' = Remaining
  <2>1. Refreshing /\ ref' = Remaining /\ now' = now
        /\ candles' = candles \cup ({k} \cap Exchange)
    BY DEF RefreshWindow, rows, matcher
  <2>2. k \in Times /\ k \in Nat /\ now \in Nat /\ ref.left \in Nat
        /\ k + ref.left <= now + 1
    BY <2>1, BoundsAssumption DEF Types, TypeOK, InReach, Times
  <2>3. QED
    BY <2>1, <2>2 DEF Refreshing
<1>2. /\ \A t \in Traded : t \in Nat
      /\ candles' \subseteq Times /\ candles \subseteq candles'
  BY <1>1, BoundsAssumption DEF Types, TypeOK, Times
<1>3. /\ Newest(candles) \in Nat /\ Newest(candles') \in Nat
      /\ Newest(candles) <= Newest(candles')
      /\ Newest(candles') = Null \/ Newest(candles') \in candles'
  BY <1>2, NewestGrows, NewestTime DEF Newest
<1>4. k \in Traded => k \in candles'
  BY <1>1 DEF Exchange
<1>5. Covered'
  <2>1. ASSUME Refreshing', NEW t \in Traded, t < ref'.next
        PROVE  t \in candles' \/ t < Newest(candles') \/ t < ref'.start
    <3>1. ref'.next = k + 1 /\ ref'.start = ref.start
      <4>1. ref \in [next : Times, left : 0..MaxRequests, start : {Null} \cup Times]
        BY DEF Types, TypeOK
      <4>2. QED
        BY <1>1, <2>1, <4>1 DEF Remaining, NoWindows, Refreshing
    <3>2. t < k \/ t = k
      BY <1>1, <1>2, <2>1, <3>1
    <3>3. CASE t = k
      BY <1>4, <2>1, <3>3
    <3>4. CASE t < k
      <4>1. t \in candles \/ t < Newest(candles) \/ t < ref.start
        BY <1>1, <2>1, <3>4 DEF Covered
      <4>2. QED
        BY <1>2, <1>3, <3>1, <4>1
    <3>5. QED
      BY <3>2, <3>3, <3>4
  <2>2. QED
    BY <2>1 DEF Covered
<1>6. \A t \in Gaps' \ Gaps : t < ref.start
  <2>1. SUFFICES ASSUME NEW t \in Traded, t < Newest(candles'), t \notin candles'
                 PROVE  (t < Newest(candles) /\ t \notin candles) \/ t < ref.start
    BY DEF Gaps
  <2>2. t \notin candles /\ t \in Nat
    BY <1>2, <2>1
  <2>3. CASE Newest(candles') \in candles
    <3>1. candles \subseteq Times
      BY DEF Types, TypeOK
    <3>2. Newest(candles') <= Newest(candles)
      BY <2>3, <3>1, NewestTime
    <3>3. QED
      BY <1>3, <2>1, <2>2, <3>2
  <2>4. CASE Newest(candles') \notin candles
    <3>1. Newest(candles') = k
      <4>1. Newest(candles') # Null
        BY <2>1, <2>2 DEF Null
      <4>2. Newest(candles') \in candles'
        BY <1>3, <4>1
      <4>3. QED
        BY <1>1, <2>4, <4>2
    <3>2. t < k
      BY <2>1, <3>1
    <3>3. QED
      BY <1>1, <2>2, <3>2 DEF Covered
  <2>5. QED
    BY <2>3, <2>4
<1>7. QED
  BY <1>5, <1>6

LEMMA CoveredStep == Types /\ Covered /\ [Next]_vars => Covered'
<1> SUFFICES ASSUME Types, Covered, [Next]_vars PROVE Covered'
  OBVIOUS
<1> USE DEF rows, locks, matcher, others
<1>1. Types' /\ candles \subseteq candles'
  BY StepTypes, GoodStays
<1>2. candles' \subseteq Times /\ \A t \in Traded : t \in Nat
  BY <1>1, BoundsAssumption DEF Types, TypeOK, Times
<1>3. /\ Newest(candles) \in Nat /\ Newest(candles') \in Nat
      /\ Newest(candles) <= Newest(candles')
  BY <1>1, <1>2, NewestGrows
<1>4. ASSUME NEW start \in StartDates, NEW end \in Times, RefreshStart(start, end)
      PROVE  Covered'
  <2>1. /\ candles' = candles /\ ref'.next = From(start) /\ ref'.start = start
        /\ candles \subseteq Times /\ start \in Nat
    BY <1>4, BoundsAssumption DEF RefreshStart, Types, TypeOK, Times
  <2>2. ASSUME NEW t \in Traded, t < From(start)
        PROVE  t \in candles \/ t < Newest(candles) \/ t < start
    <3>1. t \in Nat /\ t # 0
      BY BoundsAssumption DEF Times
    <3>2. CASE From(start) = start
      BY <2>2, <3>2
    <3>3. CASE From(start) # start
      <4>1. From(start) = Newest(candles) + 1 /\ candles # {}
        BY <3>3 DEF From
      <4>2. t = Newest(candles) \/ t < Newest(candles)
        BY <1>3, <2>2, <3>1, <4>1
      <4>3. Newest(candles) \in candles
        BY <2>1, <4>1, NewestTime
      <4>4. QED
        BY <4>2, <4>3
    <3>4. QED
      BY <3>2, <3>3
  <2>3. QED
    BY <2>1, <2>2 DEF Covered
<1>5. CASE RefreshWindow
  BY <1>1, <1>5, WindowLeavesNoGap
<1>6. CASE RefreshFails
  BY <1>6 DEF RefreshFails, Covered, Refreshing, NoWindows
<1>7. CASE UNCHANGED ref
  BY <1>1, <1>2, <1>3, <1>7 DEF Covered, Refreshing
<1>8. QED
  BY <1>4, <1>5, <1>6, <1>7
  DEF Next, Tick, Refresh, BulkFile, RepairFind, RepairWrite, Redate, Reset, ClearPremature,
      Begin, BeginByHand, Step, Start, StartLost, Close, Crash, Batch, Write,
      CallFails, Finish, SetBased, vars

\* A refresh leaves a gap behind only before the date it was told to start at,
\* whatever fails and whatever a fallback or a bulk load stores meanwhile.
THEOREM RefreshesLeaveNoGap == Spec => RefreshLeavesNoGap
<1>1. Init => Covered
  BY DEF Init, Covered, Refreshing, NoWindows
<1>2. ASSUME Types, Covered, [Next]_vars
      PROVE  [ref' # ref => \A t \in Gaps' \ Gaps : t < ref.start]_vars
  <2> USE DEF rows, locks, matcher, others
  <2>1. CASE UNCHANGED candles
    BY <2>1 DEF Gaps
  <2>2. CASE RefreshWindow
    BY <1>2, <2>2, StepTypes, WindowLeavesNoGap
  <2>3. CASE UNCHANGED ref
    BY <2>3
  <2>4. QED
    BY <1>2, <2>1, <2>2, <2>3
    DEF Next, Tick, Refresh, RefreshStart, RefreshFails, BulkFile, RepairFind, RepairWrite, Redate, Reset,
        ClearPremature, Begin, BeginByHand, Step, Start, StartLost, Close, Crash,
        Batch, Write, CallFails, Finish, SetBased, vars
<1>3. Spec => [](Types /\ Covered)
  BY <1>1, InitTypes, StepTypes, CoveredStep, PTL DEF Spec
<1>4. QED
  BY <1>2, <1>3, PTL DEF Spec, RefreshLeavesNoGap
-----------------------------------------------------------------------------
(* Lost prices *)

Horizons == Quotes \ {Entry}

\* Process p may find nothing for q of c although the table has its candle.
Mistaken(p, c, q) ==
    \/ Redated(c)
    \/ Misled(p, Instant(c, q))
    \/ cut # {}

\* Why process p may write no price at all for q of c: there is none to lose,
\* or what the property excuses.
Excused(p, c, q) ==
    \/ price[c][q] = Null
    \/ OutOfReach(price[c][q], Instant(c, q))
    \/ Mistaken(p, c, q)

\* What process p has not found, or remembers as a gap, it may write; and it
\* remembers no gap where it has found something, unless it is misled.
Reads(p) ==
    /\ DOMAIN open[p] # {} => Working(p)
    /\ \A c \in DOMAIN open[p] : \A q \in Horizons :
            open[p][c].row[q] = Null => Excused(p, c, q)
    /\ \A c \in DOMAIN open[p] : \A q \in Horizons :
            open[p][c].row[q] # Null /\ Instant(c, q) \in Times =>
                cache[p][Key(Instant(c, q))] # Null \/ Mistaken(p, c, q)
    /\ pc[p] = "matching" =>
            \A c \in Calls, q \in Horizons :
                Instant(c, q) \in Times /\ cache[p][Key(Instant(c, q))] = Null
                    => Excused(p, c, q)

ReadInv == NearInv /\ LockInv /\ \A p \in Procs : Reads(p)

LEMMA ReadInit == Init => ReadInv
<1> SUFFICES ASSUME Init PROVE ReadInv
  OBVIOUS
<1>1. \A p \in Procs : DOMAIN open[p] = {} /\ pc[p] = "idle"
  BY DEF Init, Closed
<1>2. QED
  BY <1>1, NearInit, LockInit DEF ReadInv, Reads

\* A process without work has nothing to write.
LEMMA IdleReads ==
  ASSUME NEW p \in Procs, pc'[p] = "idle", DOMAIN open'[p] = {}
  PROVE  Reads(p)'
BY DEF Reads

\* A process that another one leaves alone stays excused.
LEMMA StaysExcused ==
  ASSUME NEW p \in Procs, Reads(p), date' = date,
         open'[p] = open[p], cache'[p] = cache[p],
         pc'[p] = pc[p], mode'[p] = mode[p], DOMAIN open[p] \subseteq Calls,
         pc[p] = "matching" => \A c \in Calls, q \in Horizons :
                                   /\ Excused(p, c, q) => Excused(p, c, q)'
                                   /\ Mistaken(p, c, q) => Mistaken(p, c, q)'
  PROVE  Reads(p)'
BY DEF Reads, Working, Instant, At

\* If the table has nothing for a horizon, its price is not there, is out of the
\* table's reach or is for another date.
LEMMA NotFoundIsExcused ==
  ASSUME NearInv, NEW c \in Calls, NEW q \in Horizons,
         ~Read(c, q) \/ Local(Instant(c, q)) = Null
  PROVE  \/ price[c][q] = Null
         \/ OutOfReach(price[c][q], Instant(c, q))
         \/ Redated(c)
<1> SUFFICES ASSUME price[c][q] # Null, ~Redated(c)
             PROVE  OutOfReach(price[c][q], Instant(c, q))
  OBVIOUS
<1> DEFINE t == Instant(c, q)
<1> DEFINE k == price[c][q]
<1>1. TypeOK /\ q \in Quotes /\ q # Entry /\ basis[c] = date[c]
  BY DEF NearInv, DateInv, DatesGood, Types, Horizons
<1>2. k \in candles /\ t <= now /\ t \in Times
  BY <1>1, InstantIs DEF NearInv, PricesGood, Good
<1>3. candles \subseteq Times /\ Local(t) = Null
  BY <1>1, <1>2 DEF TypeOK, Read, Elapsed
<1>4. ~(k <= t /\ t - k <= Stale)
  BY <1>2, <1>3, LocalIs
<1>5. k \in Nat /\ t \in Nat /\ Stale \in Nat
  <2>1. k \in Times
    BY <1>2, <1>3
  <2> HIDE DEF k, t
  <2>2. QED
    BY <1>2, <2>1, BoundsAssumption DEF Times
<1> HIDE DEF k, t
<1>6. OutOfReach(k, t)
  BY <1>4, <1>5 DEF OutOfReach
<1>7. QED
  BY <1>6 DEF k, t

LEMMA ReadStep == ReadInv /\ [Next]_vars => ReadInv'
<1> SUFFICES ASSUME ReadInv, [Next]_vars PROVE ReadInv'
  OBVIOUS
<1> USE DEF rows, locks, matcher, others
<1>a. /\ Types /\ TypeOK /\ TypeOK' /\ NearInv /\ LockInv /\ DateInv
      /\ open \in [Procs -> Opened] /\ AloneUnlessCut
      /\ price \in [Calls -> Rows]
      /\ cache \in [Procs -> [Keys -> {Unread, Null} \cup Times]]
      /\ vain \in [Procs -> SUBSET Times]
  BY StepTypes, OpenTypes, Alone DEF ReadInv, NearInv, DateInv, Types, TypeOK
<1>b. NearInv' /\ LockInv'
  BY <1>a, NearStep, LockStep
<1>c. /\ \A p \in Procs : DOMAIN open[p] \subseteq Calls
      /\ \A q \in Horizons : q \in Quotes /\ q # Entry
  BY <1>a, OpenedIs DEF Horizons
<1>d. \A p \in Procs : Reads(p)
  BY DEF ReadInv
\* What a step of r does to the others: they are alone with it, or the lock
\* was cut.
<1>e. ASSUME NEW r \in Procs, NEW p \in Procs \ {r}, pc[r] = "matching",
             date' = date,
             open'[p] = open[p], cache'[p] = cache[p], mode'[p] = mode[p],
             pc'[p] = pc[p], pc[p] = "matching" => cut' = cut
      PROVE  Reads(p)'
  <2>1. pc[p] = "matching" => cut # {}
    BY <1>a, <1>e DEF AloneUnlessCut
  <2>2. pc[p] = "matching" => \A c \in Calls, q \in Horizons :
                                    Excused(p, c, q)' /\ Mistaken(p, c, q)'
    BY <1>e, <2>1 DEF Excused, Mistaken
  <2>3. QED
    BY <1>c, <1>d, <1>e, <2>2, StaysExcused
<1>1. ASSUME NEW p \in Procs, date' = date,
             open'[p] = open[p], cache'[p] = cache[p], mode'[p] = mode[p],
             pc'[p] = pc[p], misses'[p] = misses[p], vain'[p] = vain[p],
             cut \subseteq cut',
             \A c \in Calls, q \in Horizons : price'[c][q] \in {price[c][q], Null}
      PROVE  Reads(p)'
  <2>1. \A c \in Calls, q \in Horizons :
            /\ Excused(p, c, q) => Excused(p, c, q)'
            /\ Mistaken(p, c, q) => Mistaken(p, c, q)'
    BY <1>1 DEF Excused, Mistaken, Misled, Redated, Instant, At, OutOfReach, Key
  <2>2. QED
    BY <1>c, <1>d, <1>1, <2>1, StaysExcused
<1>2. CASE UNCHANGED <<date, price, pc, mode, open, cache, misses, vain, cut>>
  BY <1>1, <1>2, <1>b DEF ReadInv
<1>3. CASE RepairWrite
  <2>1. \A c \in Calls, q \in Horizons : price'[c][q] = price[c][q]
    BY <1>3, <1>a, <1>c DEF RepairWrite, Rows
  <2>2. UNCHANGED <<date, pc, mode, open, cache, misses, vain, cut>>
    BY <1>3 DEF RepairWrite
  <2>3. QED
    BY <1>1, <1>b, <2>1, <2>2 DEF ReadInv
<1>4. CASE Reset \/ ClearPremature
  <2>1. /\ UNCHANGED <<date, pc, mode, open, cache, misses, vain, cut>>
        /\ \A c \in Calls, q \in Horizons : price'[c][q] \in {price[c][q], Null}
    BY <1>4, <1>c DEF Reset, ClearPremature, Blank
  <2>2. QED
    BY <1>1, <1>b, <2>1 DEF ReadInv
<1>5. ASSUME NEW c \in Calls, Redate(c) PROVE ReadInv'
  <2>1. /\ Redated(c)' /\ \A b \in Calls \ {c} : date'[b] = date[b]
        /\ UNCHANGED <<price, pc, mode, open, cache, misses, vain, cut>>
    BY <1>5, <1>a DEF Redate, Redated, DateInv, DateIs, TypeOK
  <2>2. \A p \in Procs, b \in Calls, q \in Horizons :
            /\ b # c => Instant(b, q)' = Instant(b, q)
            /\ b # c /\ Excused(p, b, q) => Excused(p, b, q)'
            /\ b # c /\ Mistaken(p, b, q) => Mistaken(p, b, q)'
            /\ b = c => Excused(p, b, q)' /\ Mistaken(p, b, q)'
    BY <2>1 DEF Excused, Mistaken, Misled, Redated, Instant, At, OutOfReach, Key
  <2>3. \A p \in Procs : Reads(p)'
    <3>1. TAKE p \in Procs
    <3>2. DOMAIN open[p] \subseteq Calls /\ Reads(p)
      BY <1>c, <1>d
    <3>3. QED
      BY <2>1, <2>2, <3>2 DEF Reads, Working, Key
  <2>4. QED
    BY <1>b, <2>3 DEF ReadInv
<1>6. ASSUME NEW p \in Procs, NEW s \in Conns, NEW m \in Mode, Start(p, s, m)
      PROVE  ReadInv'
  <2>1. /\ pc[p] = "idle" /\ UNCHANGED <<date, open, price, cut>>
        /\ \A r \in Procs \ {p} : /\ pc'[r] = pc[r] /\ mode'[r] = mode[r]
                                  /\ cache'[r] = cache[r] /\ misses'[r] = misses[r]
                                  /\ vain'[r] = vain[r]
        /\ misses'[p] = {k \in Keys : cache'[p][k] = Null}
    BY <1>6, <1>a DEF Start, MayStart, TypeOK
  <2>2. DOMAIN open[p] = {}
    BY <1>d, <2>1 DEF Reads, Working
  <2>3. \A t \in Times : cache'[p][Key(t)] = Null => Key(t) \in misses'[p]
    BY <2>1, KeysOfTimes
  <2>4. \A c \in Calls, q \in Horizons :
            Instant(c, q)' \in Times /\ cache'[p][Key(Instant(c, q))'] = Null
                => Excused(p, c, q)'
    BY <2>3 DEF Excused, Mistaken, Misled, Key
  <2>5. Reads(p)'
    BY <2>1, <2>2, <2>4 DEF Reads
  <2>6. \A r \in Procs \ {p} : Reads(r)'
    BY <1>1, <2>1
  <2>7. QED
    BY <1>b, <2>5, <2>6 DEF ReadInv
<1>7. ASSUME NEW p \in Procs, NEW s \in Conns, Close(p, s) PROVE ReadInv'
  <2>1. UNCHANGED <<date, price, pc, mode, open, cache, misses, vain>>
        /\ cut \subseteq cut'
    BY <1>7 DEF Close
  <2>2. QED
    BY <1>1, <1>b, <2>1 DEF ReadInv
\* A process that ends leaves nothing open, and does not clear cut while
\* another one matches.
<1>f. ASSUME NEW r \in Procs, pc[r] = "matching", Ends(r), DOMAIN open'[r] = {},
             date' = date,
             \A p \in Procs \ {r} : open'[p] = open[p] /\ cache'[p] = cache[p]
      PROVE  ReadInv'
  <2>1. /\ pc'[r] = "idle"
        /\ \A p \in Procs \ {r} : /\ pc'[p] = pc[p] /\ mode'[p] = mode[p]
                                  /\ pc[p] = "matching" => cut' = cut
    BY <1>f, <1>a DEF Ends, TypeOK
  <2>2. Reads(r)'
    BY <1>f, <2>1, IdleReads
  <2>3. \A p \in Procs \ {r} : Reads(p)'
    BY <1>e, <1>f, <2>1
  <2>4. QED
    BY <1>b, <2>2, <2>3 DEF ReadInv
<1>8. ASSUME NEW p \in Procs, Crash(p) PROVE ReadInv'
  <2>1. /\ pc[p] = "matching" /\ Ends(p) /\ DOMAIN open'[p] = {} /\ date' = date
        /\ \A r \in Procs \ {p} : open'[r] = open[r] /\ cache'[r] = cache[r]
    BY <1>8, <1>a DEF Crash, Closed
  <2>2. QED
    BY <1>f, <2>1
<1>9. ASSUME NEW p \in Procs, NEW s \in Conns, Finish(p, s) \/ SetBased(p, s)
      PROVE  ReadInv'
  <2>1. /\ pc[p] = "matching" /\ Ends(p) /\ UNCHANGED <<open, date>>
        /\ \A r \in Procs \ {p} : cache'[r] = cache[r]
    BY <1>9, <1>a DEF Finish, Between, Working, SetBased, Leave
  <2>2. DOMAIN open[p] = {}
    BY <1>9, <1>d DEF Finish, Between, SetBased, Reads, Working
  <2>3. QED
    BY <1>f, <2>1, <2>2
<1>10. ASSUME NEW p \in Procs, Batch(p) PROVE ReadInv'
  <2> DEFINE B == NextBatch(p)
  <2> DEFINE T == Lookups(B)
  <2>1. /\ open' = [open EXCEPT ![p] = [c \in B |-> [date |-> date[c],
                row |-> [q \in Quotes |->
                    IF Read(c, q) THEN Answer(p, Instant(c, q)) ELSE Null]]]]
        /\ vain' = [vain EXCEPT ![p] =
                @ \cup {t \in T : Searches(p, t) /\ Answer(p, t) = Null}]
        /\ UNCHANGED <<date, price, pc, mode, misses, cut>> /\ Working(p)
    BY <1>10 DEF Batch, Between
  <2>2. PICK late \in [{Key(t) : t \in T} -> T] :
            /\ \A k \in DOMAIN late : Key(late[k]) = k
            /\ cache' = [cache EXCEPT ![p] =
                    [k \in Keys |-> IF k \in DOMAIN late THEN Answer(p, late[k])
                                    ELSE @[k]]]
    BY <1>10 DEF Batch
  <2>3. /\ \A c \in B : c \in Calls
        /\ T \subseteq Times
    BY FirstIs DEF NextBatch, Lookups
  <2>t. \A c \in B, q \in Quotes :
            Read(c, q) /\ Instant(c, q) \in Times => Instant(c, q) \in T
    BY DEF Lookups
  <2>u. \A c \in B, q \in Quotes : Read(c, q) => Instant(c, q) \in Times
    <3>1. \A c \in B : c \in Calls /\ date[c] <= now
      BY FirstIs DEF NextBatch
    <3>2. QED
      BY <1>a, <3>1, InstantIs DEF Read, Elapsed
  <2> HIDE DEF B, T
  <2>4. /\ \A k \in Keys : cache'[p][k] = IF k \in DOMAIN late THEN Answer(p, late[k])
                                          ELSE cache[p][k]
        /\ DOMAIN open'[p] = B
        /\ \A c \in B, q \in Quotes :
                open'[p][c].row[q] =
                    IF Read(c, q) THEN Answer(p, Instant(c, q)) ELSE Null
        /\ vain'[p] = vain[p] \cup {t \in T : Searches(p, t) /\ Answer(p, t) = Null}
        /\ \A r \in Procs \ {p} : open'[r] = open[r] /\ cache'[r] = cache[r]
                                  /\ vain'[r] = vain[r]
    BY <1>a, <2>1, <2>2
  <2>5. \A c \in Calls, q \in Horizons :
            /\ Excused(p, c, q) => Excused(p, c, q)'
            /\ Mistaken(p, c, q) => Mistaken(p, c, q)'
            /\ Instant(c, q)' = Instant(c, q)
    BY <2>1, <2>4 DEF Excused, Mistaken, Misled, Redated, Instant, At, OutOfReach, Key
  \* A gap that is remembered now, and not only from before.
  <2>6. ASSUME NEW u \in T, Searches(p, u), Answer(p, u) = Null,
               NEW c \in Calls, NEW q \in Horizons, Key(Instant(c, q)) = Key(u)
        PROVE  Excused(p, c, q)' /\ (Instant(c, q) # u => Mistaken(p, c, q)')
    <3>1. CASE Instant(c, q) = u
      <4>1. Local(Instant(c, q)) = Null
        BY <2>6, <3>1 DEF Answer, Asks
      <4>2. Excused(p, c, q)
        BY <1>a, <4>1, NotFoundIsExcused DEF Excused, Mistaken
      <4>3. QED
        BY <2>5, <3>1, <4>2
    <3>2. CASE Instant(c, q) # u
      <4>1. u \in vain'[p] /\ Key(u) = Key(Instant(c, q)) /\ Instant(c, q)' = Instant(c, q)
        BY <2>4, <2>5, <2>6
      <4>2. Misled(p, Instant(c, q))'
        BY <3>2, <4>1 DEF Misled, Key
      <4>3. QED
        BY <4>2 DEF Excused, Mistaken
    <3>3. QED
      BY <3>1, <3>2
  <2>7. ASSUME NEW c \in B, NEW q \in Horizons, open'[p][c].row[q] = Null
        PROVE  Excused(p, c, q)'
    <3>1. CASE Read(c, q)
      <4> DEFINE t == Instant(c, q)
      <4>1. Answer(p, t) = Null /\ t \in T /\ t \in Times /\ c \in Calls
        BY <1>c, <2>3, <2>4, <2>7, <2>t, <2>u, <3>1
      <4>2. CASE Searches(p, t)
        BY <2>6, <4>1, <4>2
      <4>3. CASE ~Searches(p, t)
        <5>1. cache[p][Key(t)] = Null
          BY <4>1, <4>3 DEF Answer
        <5>2. Excused(p, c, q)
          BY <1>d, <2>1, <4>1, <5>1 DEF Reads, Working
        <5>3. QED
          BY <2>5, <4>1, <5>2
      <4>4. QED
        BY <4>2, <4>3
    <3>2. CASE ~Read(c, q)
      <4>1. Excused(p, c, q)
        BY <1>a, <2>3, <3>2, NotFoundIsExcused DEF Excused, Mistaken
      <4>2. QED
        BY <2>3, <2>5, <4>1
    <3>3. QED
      BY <3>1, <3>2
  <2>8. ASSUME NEW c \in B, NEW q \in Horizons, open'[p][c].row[q] # Null,
               cache'[p][Key(Instant(c, q))] = Null
        PROVE  Mistaken(p, c, q)'
    <3> DEFINE t == Instant(c, q)
    <3> DEFINE k == Key(t)
    <3>1. Read(c, q) /\ Answer(p, t) # Null /\ t \in T /\ c \in Calls
          /\ k \in Keys /\ k \in DOMAIN late
      <4>1. Read(c, q) /\ Answer(p, t) # Null /\ t \in T /\ t \in Times /\ c \in Calls
        BY <1>c, <2>3, <2>4, <2>8, <2>t, <2>u
      <4>2. QED
        BY <4>1, KeysOfTimes
    <3>2. late[k] \in T /\ Key(late[k]) = k /\ Answer(p, late[k]) = Null
      BY <2>2, <2>4, <2>8, <3>1
    <3>3. late[k] # t
      BY <3>1, <3>2
    <3>4. Searches(p, late[k])
      <4>1. ~Searches(p, late[k]) => Answer(p, late[k]) = cache[p][k]
        BY <3>2 DEF Answer
      <4>2. ~Searches(p, late[k]) => Answer(p, t) = cache[p][k]
        BY <3>2 DEF Answer, Searches
      <4>3. QED
        BY <3>1, <3>2, <4>1, <4>2
    <3>5. QED
      BY <2>6, <3>1, <3>2, <3>3, <3>4
  <2>9. ASSUME NEW c \in Calls, NEW q \in Horizons, Instant(c, q) \in Times,
               cache'[p][Key(Instant(c, q))] = Null
        PROVE  Excused(p, c, q)'
    <3> DEFINE k == Key(Instant(c, q))
    <3>1. k \in Keys
      BY <2>9, KeysOfTimes
    <3>2. CASE k \in DOMAIN late
      <4>1. late[k] \in T /\ Key(late[k]) = k /\ Answer(p, late[k]) = Null
        BY <2>2, <2>4, <2>9, <3>1, <3>2
      <4>2. CASE Searches(p, late[k])
        BY <2>6, <4>1, <4>2
      <4>3. CASE ~Searches(p, late[k])
        <5>1. cache[p][k] = Null
          BY <4>1, <4>3 DEF Answer
        <5>2. QED
          BY <1>d, <2>1, <2>5, <2>9, <5>1 DEF Reads, Working
      <4>4. QED
        BY <4>2, <4>3
    <3>3. CASE k \notin DOMAIN late
      <4>1. cache[p][k] = Null
        BY <2>4, <2>9, <3>1, <3>3
      <4>2. QED
        BY <1>d, <2>1, <2>5, <2>9, <4>1 DEF Reads, Working
    <3>4. QED
      BY <3>2, <3>3
  <2>10. Reads(p)'
    <3>1. /\ Working(p)'
          /\ \A c \in Calls, q \in Horizons : Key(Instant(c, q))' = Key(Instant(c, q))
      BY <2>1, <2>5 DEF Working, Key
    <3>2. \A c \in B, q \in Horizons : c \in Calls /\ Instant(c, q)' = Instant(c, q)
      BY <2>3, <2>5
    <3>3. QED
      BY <2>4, <2>5, <2>7, <2>8, <2>9, <3>1, <3>2 DEF Reads
  <2>11. \A r \in Procs \ {p} : Reads(r)'
    BY <1>1, <2>1, <2>4
  <2>12. QED
    BY <1>b, <2>10, <2>11 DEF ReadInv
<1>h. ASSUME NEW p \in Procs, NEW c \in Calls, open' = Without(p, c)
      PROVE  /\ \A r \in Procs \ {p} : open'[r] = open[r]
             /\ DOMAIN open'[p] = DOMAIN open[p] \ {c}
             /\ \A b \in DOMAIN open'[p] : open'[p][b] = open[p][b]
  BY <1>h, <1>a DEF Without
<1>11. ASSUME NEW p \in Procs, NEW c \in Calls, CallFails(p, c) PROVE ReadInv'
  <2>1. UNCHANGED <<date, price, pc, mode, cache, misses, vain, cut>>
        /\ open' = Without(p, c)
    BY <1>11 DEF CallFails
  <2>2. \A b \in Calls, q \in Horizons :
            /\ Excused(p, b, q) => Excused(p, b, q)'
            /\ Mistaken(p, b, q) => Mistaken(p, b, q)'
            /\ Instant(b, q)' = Instant(b, q)
            /\ Key(Instant(b, q))' = Key(Instant(b, q))
    BY <2>1 DEF Excused, Mistaken, Misled, Redated, Instant, At, OutOfReach, Key
  <2>3. Reads(p)'
    BY <1>c, <1>d, <1>h, <2>1, <2>2 DEF Reads, Working
  <2>4. \A r \in Procs \ {p} : Reads(r)'
    BY <1>1, <1>h, <2>1
  <2>5. QED
    BY <1>b, <2>3, <2>4 DEF ReadInv
<1>12. ASSUME NEW p \in Procs, NEW c \in Calls, Write(p, c) PROVE ReadInv'
  <2>1. /\ UNCHANGED <<date, pc, mode, cache, misses, vain, cut>>
        /\ open' = Without(p, c)
        /\ c \in DOMAIN open[p] /\ pc[p] = "matching" /\ Working(p)
        /\ price' = IF Writes(open[p][c].row)
                    THEN [price EXCEPT ![c] = open[p][c].row] ELSE price
    BY <1>12 DEF Write, Working
  <2>2. /\ \A b \in Calls \ {c} : price'[b] = price[b]
        /\ price'[c] = price[c] \/ price'[c] = open[p][c].row
    BY <2>1, <1>a
  <2>3. \A b \in Calls, q \in Horizons :
            /\ b # c /\ Excused(p, b, q) => Excused(p, b, q)'
            /\ price'[b] = price[b] /\ Excused(p, b, q) => Excused(p, b, q)'
            /\ Mistaken(p, b, q) => Mistaken(p, b, q)'
            /\ Instant(b, q)' = Instant(b, q)
            /\ Key(Instant(b, q))' = Key(Instant(b, q))
    BY <2>1, <2>2 DEF Excused, Mistaken, Misled, Redated, Instant, At, OutOfReach, Key
  <2>4. ASSUME NEW q \in Horizons, Instant(c, q) \in Times,
               cache[p][Key(Instant(c, q))] = Null
        PROVE  Excused(p, c, q)'
    <3>1. Excused(p, c, q) /\ c \in DOMAIN open[p]
      BY <1>d, <2>1, <2>4 DEF Reads
    <3>2. CASE price'[c] = price[c]
      BY <2>3, <3>1, <3>2
    <3>3. CASE price'[c] = open[p][c].row
      <4>1. open[p][c].row[q] = Null \/ Mistaken(p, c, q)
        BY <1>d, <2>4, <3>1 DEF Reads
      <4>2. QED
        BY <2>3, <3>3, <4>1 DEF Excused
    <3>4. QED
      BY <2>2, <3>2, <3>3
  <2>5. Reads(p)'
    BY <1>c, <1>d, <1>h, <2>1, <2>3, <2>4 DEF Reads, Working
  <2>6. \A r \in Procs \ {p} : Reads(r)'
    BY <1>e, <1>h, <2>1
  <2>7. QED
    BY <1>b, <2>5, <2>6 DEF ReadInv
<1>13. ASSUME NEW p \in Procs, Begin(p) \/ BeginByHand(p) PROVE ReadInv'
  <2>1. PICK s \in Conns, m \in Mode : Start(p, s, m)
    BY <1>13, BoundsAssumption DEF Begin, BeginByHand
  <2>2. QED
    BY <1>6, <2>1
<1>14. \A p \in Procs : Pool[p] \subseteq Conns
  BY BoundsAssumption
<1>15. QED
  BY <1>2, <1>3, <1>4, <1>5, <1>7, <1>8, <1>9, <1>10, <1>11, <1>12, <1>13, <1>14
  DEF Next, Tick, Refresh, RefreshStart, RefreshWindow, RefreshFails, BulkFile, RepairFind,
      Step, StartLost, vars

LEMMA ReadsHold == Spec => []ReadInv
BY ReadInit, ReadStep, PTL DEF Spec

\* A recorded price is lost again only to somebody who takes all prices back, to
\* a matcher that is misled by a gap it remembers or that lost the lock, after a
\* correction of the date, or if its candle is out of the table's reach.
THEOREM LossesAreStale == Spec => LosesPriceOnlyIfStale
<1> DEFINE Loses(c, q) ==
        price[c][q] # Null /\ price'[c][q] = Null =>
            \/ Reset
            \/ \E p \in Procs : Misled(p, Instant(c, q))
            \/ cut # {}
            \/ Redated(c)
            \/ OutOfReach(price[c][q], Instant(c, q))
<1>1. ASSUME ReadInv, [Next]_vars, NEW c \in Calls, NEW q \in Quotes
      PROVE  Loses(c, q)
  <2> USE DEF rows, locks, matcher, others
  <2>1. SUFFICES ASSUME price[c][q] # Null, price'[c][q] = Null
                 PROVE  \/ Reset
                        \/ \E p \in Procs : Misled(p, Instant(c, q))
                        \/ cut # {}
                        \/ Redated(c)
                        \/ OutOfReach(price[c][q], Instant(c, q))
    OBVIOUS
  <2>2. /\ TypeOK /\ NearInv /\ \A p \in Procs : Reads(p)
        /\ price \in [Calls -> Rows] /\ Pool \in [Procs -> SUBSET Conns]
    BY <1>1, BoundsAssumption DEF ReadInv, NearInv, DateInv, Types, TypeOK
  <2>3. CASE RepairWrite
    <3>1. price'[c][q] = price[c][q] \/ price'[c][q] = fix.candle
      BY <2>2, <2>3 DEF RepairWrite, Rows
    <3>2. fix.candle # Null
      BY <2>2, <2>3 DEF NearInv, RepairGood, RepairWrite
    <3>3. QED
      BY <2>1, <3>1, <3>2
  <2>4. CASE ClearPremature
    <3>1. ~Elapsed(c, q)
      BY <2>1, <2>4 DEF ClearPremature
    <3>2. At(basis[c], q) <= now /\ (basis[c] = date[c] \/ Redated(c))
      BY <2>1, <2>2 DEF NearInv, DateInv, DatesGood, PricesGood, Good
    <3>3. QED
      BY <3>1, <3>2 DEF Elapsed, Instant
  <2>5. ASSUME NEW p \in Procs, NEW b \in Calls, Write(p, b)
        PROVE  \/ Misled(p, Instant(c, q)) \/ cut # {} \/ Redated(c)
               \/ OutOfReach(price[c][q], Instant(c, q))
    <3>1. b = c /\ price'[c] = open[p][c].row /\ Writes(open[p][c].row)
          /\ c \in DOMAIN open[p]
      BY <2>1, <2>2, <2>5 DEF Write
    <3>2. q \in Horizons
      BY <2>1, <3>1 DEF Writes, Horizons
    <3>3. Excused(p, c, q)
      BY <2>1, <2>2, <3>1, <3>2 DEF Reads
    <3>4. QED
      BY <2>1, <3>3 DEF Excused, Mistaken
  <2>6. ASSUME NEW p \in Procs, NEW s \in Conns, SetBased(p, s)
        PROVE  OutOfReach(price[c][q], Instant(c, q)) \/ Redated(c)
    <3> DEFINE row(b) == [h \in Quotes |-> IF Read(b, h)
                                           THEN Local(Instant(b, h)) ELSE Null]
    <3>1. PICK D \in {{b \in First(p, mode[p].limit) : Writes(row(b))}} :
            price' = [b \in Calls |-> IF b \in D THEN row(b) ELSE price[b]]
      BY <2>6 DEF SetBased
    <3>2. price'[c] = row(c) /\ Writes(row(c))
      BY <2>1, <3>1
    <3>3. q \in Horizons /\ (~Read(c, q) \/ Local(Instant(c, q)) = Null)
      BY <2>1, <3>2 DEF Writes, Horizons
    <3>4. QED
      BY <2>1, <2>2, <3>3, NotFoundIsExcused
  <2>7. CASE UNCHANGED price
    BY <2>1, <2>7
  <2>8. QED
    BY <1>1, <2>2, <2>3, <2>4, <2>5, <2>6, <2>7
    DEF Next, Tick, Refresh, RefreshStart, RefreshWindow, RefreshFails, BulkFile, RepairFind,
        Redate, Begin, BeginByHand, Step, Start, StartLost, Close, Crash, Batch,
        CallFails, Finish, vars
<1>2. ASSUME ReadInv, [Next]_vars
      PROVE  [\A c \in Calls, q \in Quotes : Loses(c, q)]_vars
  BY <1>1, <1>2
<1>3. QED
  BY <1>2, ReadsHold, PTL DEF Spec, LosesPriceOnlyIfStale
=============================================================================
