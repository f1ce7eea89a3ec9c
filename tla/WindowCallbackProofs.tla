------------------------- MODULE WindowCallbackProofs -------------------------
(***************************************************************************)
(* Theorems about the hourly statistics under everything WindowCallback    *)
(* lets happen around them.                                                *)
(***************************************************************************)
EXTENDS WindowCallback, FiniteSetTheorems, TLAPS

-----------------------------------------------------------------------------
LEMMA HourGrows ==
    ASSUME NEW s \in Int, NEW t \in Int, s <= t, 0 <= s
    PROVE  HourOf(s) \in Int /\ HourOf(t) \in Int /\ HourOf(s) <= HourOf(t) /\ 0 <= HourOf(s)
<1> DEFINE p == s \div HourTicks
           q == t \div HourTicks
<1>1. HourTicks \in Nat /\ HourTicks > 0  BY ClockAssumption
<1>2. p \in Int /\ q \in Int  BY <1>1
<1>3. s = HourTicks * p + (s % HourTicks) /\ 0 <= s % HourTicks /\ s % HourTicks < HourTicks  BY <1>1
<1>4. t = HourTicks * q + (t % HourTicks) /\ 0 <= t % HourTicks /\ t % HourTicks < HourTicks  BY <1>1
<1>5. ASSUME q + 1 <= p PROVE FALSE
  <2>1. HourTicks * (q + 1) <= HourTicks * p  BY <1>1, <1>2, <1>5
  <2> QED  BY <1>1, <1>2, <1>3, <1>4, <2>1
<1>6. 0 <= p  BY <1>1, <1>2, <1>3
<1> QED  BY <1>2, <1>5, <1>6 DEF HourOf

LEMMA InOrderOfTheDictionary ==
    ASSUME NEW S, IsFiniteSet(S)
    PROVE  /\ AsSequence(S) \in Seq(S)
           /\ ToSet(AsSequence(S)) = S
           /\ IsInjective(AsSequence(S))
<1> DEFINE n == Cardinality(S)
           Complete(s) == \A x \in S : \E k \in DOMAIN s : s[k] = x
<1>1. n \in Nat /\ ExistsBijection(1 .. n, S)  BY FS_CardinalityType
<1>2. PICK f \in Bijection(1 .. n, S) : TRUE  BY <1>1 DEF ExistsBijection
<1>3. f \in [1 .. n -> S] /\ Complete(f)  BY <1>2 DEF Bijection, Injection, Surjection
<1>4. AsSequence(S) \in [1 .. n -> S] /\ Complete(AsSequence(S))
  BY <1>3 DEF AsSequence
<1>5. AsSequence(S) \in Surjection(1 .. n, S)  BY <1>4 DEF Surjection
<1>6. IsFiniteSet(1 .. n) /\ Cardinality(1 .. n) = n  BY <1>1, FS_Interval
<1>7. AsSequence(S) \in Injection(1 .. n, S)
  BY <1>5, <1>6, FS_SurjSameCardinalityImpliesInj
<1>8. AsSequence(S) \in Seq(S)  BY <1>1, <1>4
<1>9. IsInjective(AsSequence(S))  BY <1>7 DEF Injection
<1>10. ToSet(AsSequence(S)) = S  BY <1>4 DEF ToSet
<1> QED  BY <1>8, <1>9, <1>10

LEMMA Concatenated ==
    ASSUME NEW S, NEW T, NEW s \in Seq(S), NEW t \in Seq(T)
    PROVE  /\ s \o t \in Seq(S \cup T)
           /\ ToSet(s \o t) = ToSet(s) \cup ToSet(t)
           /\ IsInjective(s) /\ IsInjective(t) /\ ToSet(s) \cap ToSet(t) = {}
                => IsInjective(s \o t)
<1> DEFINE u == s \o t
<1>1. s \in Seq(S \cup T) /\ t \in Seq(S \cup T)  OBVIOUS
<1>2. /\ u \in Seq(S \cup T) /\ Len(u) = Len(s) + Len(t)
      /\ \A k \in 1 .. Len(s) : u[k] = s[k]
      /\ \A k \in 1 .. Len(t) : u[Len(s) + k] = t[k]
  BY <1>1
<1>3. DOMAIN s = 1 .. Len(s) /\ DOMAIN t = 1 .. Len(t) /\ DOMAIN u = 1 .. Len(s) + Len(t)
      /\ Len(s) \in Nat /\ Len(t) \in Nat
  BY <1>1, <1>2
<1> HIDE DEF u
<1>4. \A k \in DOMAIN u : \/ k \in DOMAIN s /\ u[k] = s[k]
                          \/ k - Len(s) \in DOMAIN t /\ u[k] = t[k - Len(s)]
  <2> TAKE k \in DOMAIN u
  <2>1. CASE k <= Len(s)  BY <2>1, <1>2, <1>3
  <2>2. CASE ~(k <= Len(s))
    <3>1. k - Len(s) \in 1 .. Len(t) /\ k = Len(s) + (k - Len(s))  BY <2>2, <1>3
    <3> QED  BY <3>1, <1>2, <1>3
  <2> QED  BY <2>1, <2>2
<1>5. ToSet(u) = ToSet(s) \cup ToSet(t)
  <2>1. \A k \in DOMAIN s : k \in DOMAIN u /\ u[k] = s[k]  BY <1>2, <1>3
  <2>2. \A k \in DOMAIN t : Len(s) + k \in DOMAIN u /\ u[Len(s) + k] = t[k]  BY <1>2, <1>3
  <2> QED  BY <1>4, <2>1, <2>2 DEF ToSet
<1>6. ASSUME IsInjective(s), IsInjective(t), ToSet(s) \cap ToSet(t) = {}
      PROVE  IsInjective(u)
  <2>1. \A j \in DOMAIN s, k \in DOMAIN t : s[j] # t[k]  BY <1>6 DEF ToSet
  <2> SUFFICES ASSUME NEW j \in DOMAIN u, NEW k \in DOMAIN u, u[j] = u[k] PROVE j = k
    BY DEF IsInjective
  <2>2. j \in Int /\ k \in Int  BY <1>3
  <2>3. CASE j \in DOMAIN s /\ u[j] = s[j]  BY <1>4, <1>6, <2>1, <2>3 DEF IsInjective
  <2>4. CASE j - Len(s) \in DOMAIN t /\ u[j] = t[j - Len(s)]
    <3>1. k - Len(s) \in DOMAIN t /\ u[k] = t[k - Len(s)]  BY <1>4, <2>1, <2>4
    <3>2. j - Len(s) = k - Len(s)  BY <1>6, <2>4, <3>1 DEF IsInjective
    <3> QED  BY <3>2, <2>2, <1>3
  <2> QED  BY <1>4, <2>3, <2>4
<1> QED  BY <1>2, <1>5, <1>6 DEF u

\* _flush(): the rows of an hour are finitely many, one per route, and share out the items.
LEMMA RowsOfAnHour ==
    ASSUME NEW hour, \A i \in route_data : i.route \in Routes
    PROVE  /\ IsFiniteSet(RowsFor(hour))
           /\ UNION {row.items : row \in RowsFor(hour)} = route_data
           /\ \A row \in RowsFor(hour) :
                 row.hour = hour /\ row.by = process /\ row.items \subseteq route_data
           /\ \A x, y \in RowsFor(hour) :
                 x # y => KeyOf(x) # KeyOf(y) /\ x.items \cap y.items = {}
<1> DEFINE routes == {i.route : i \in route_data}
           Row(r) == [route |-> r, hour |-> hour, by |-> process,
                      items |-> {i \in route_data : i.route = r}]
           f == [r \in routes |-> Row(r)]
<1>1. RowsFor(hour) = {Row(r) : r \in routes}  BY DEF RowsFor
<1>2. IsFiniteSet(routes)
  <2>1. routes \in SUBSET Routes  OBVIOUS
  <2> QED  BY <2>1, FS_Subset, StatsAssumption
<1>3. f \in Surjection(routes, {Row(r) : r \in routes})  BY DEF Surjection
<1>4. IsFiniteSet(RowsFor(hour))  BY <1>1, <1>2, <1>3, FS_Surjection
<1>5. \A row \in RowsFor(hour) :
          row.hour = hour /\ row.by = process /\ row.items \subseteq route_data
  BY <1>1
<1>6. UNION {row.items : row \in RowsFor(hour)} = route_data
  <2>1. \A i \in route_data : Row(i.route) \in RowsFor(hour) /\ i \in Row(i.route).items
    BY <1>1
  <2> QED  BY <1>5, <2>1
<1>7. \A x, y \in RowsFor(hour) : x # y => KeyOf(x) # KeyOf(y) /\ x.items \cap y.items = {}
  <2> SUFFICES ASSUME NEW p \in routes, NEW q \in routes, Row(p) # Row(q)
               PROVE  /\ KeyOf(Row(p)) # KeyOf(Row(q))
                      /\ Row(p).items \cap Row(q).items = {}
    BY <1>1
  <2>1. p # q  OBVIOUS
  <2> QED  BY <2>1 DEF KeyOf
<1> QED  BY <1>4, <1>5, <1>6, <1>7

-----------------------------------------------------------------------------
(***************************************************************************)
(* The inductive invariant.                                                *)
(***************************************************************************)
\* The steps of the finally block after flush_remaining(): the accumulator is done with.
Flushed == {"forced", "forcedClear", "last", "lastClear", "exit"}
Acknowledged == {"clear", "forcedClear", "lastClear"}

TypeInv ==
    /\ step \in Steps /\ process \in Nat /\ windows \in Nat
    /\ now \in Nat /\ stepsBack \in Nat
    /\ currentHour \in Nat \cup {NoHour}
    /\ pending \in Seq(Buffered)
    /\ result \in WindowResults \cup {NoResult}
    /\ \A i \in route_data : i.route \in Routes /\ i.window \in Int /\ i.window <= windows
    /\ \A row \in AllRows :
          /\ row.hour \in Int /\ row.by \in Nat /\ row.by <= process
          /\ \A i \in row.items : i.window \in Int /\ i.window <= windows

\* Where the rows are in each step: handed over, stored before the buffer is cleared.
StageInv ==
    /\ handed # {} => step = "handover" /\ IsFiniteSet(handed)
    /\ step \in Acknowledged => Buffered \subseteq table
    /\ step \in Flushed => currentHour = NoHour \/ route_data = {}
    /\ step \in {"down", "connecting"} => pending = <<>> /\ currentHour = NoHour

\* Whose rows they are.  While the clock only went forward a process has no two rows of one
\* (route, hour), because every row is of an hour before the one it accumulates now.
AttributionInv ==
    /\ \A row \in Buffered \cup handed : row.by = process
    /\ stepsBack = 0 /\ step # "down" =>
          /\ currentHour # NoHour => currentHour <= HourOf(now)
          /\ \A row \in AllRows : row.by = process =>
                /\ currentHour # NoHour /\ row.hour <= currentHour
                /\ row.hour = currentHour => step \in Flushed
          /\ \A x, y \in AllRows :
                x.by = process /\ y.by = process /\ KeyOf(x) = KeyOf(y) => x = y
          /\ IsInjective(pending)
          /\ handed \cap Buffered = {}

\* The results of a window in progress are not counted yet.
FreshInv ==
    result.results # {} =>
        /\ \A i \in route_data : i.window < windows
        /\ \A row \in AllRows : \A i \in row.items : i.window < windows

\* Whose items they are, and why a process may end with rows in its buffer: it keeps its
\* connection until PostgreSQL goes away, so only that or a poisoned buffer fails an attempt.
OwnInv ==
    /\ outages \in Nat
    /\ step \in {"down", "connecting"} => route_data = {}
    /\ \A i \in route_data : i.by = process
    /\ \A row \in AllRows : \A i \in row.items : i.by = row.by
    /\ \A i \in excused : i.by \in Nat /\ i.by <= process
    /\ (Running \/ step = "connecting") /\ stepsBack = 0 => \A i \in excused : i.by # process
    /\ outages = 0 => pgUp /\ (conn \/ step \in {"down", "connecting"})
    /\ step = "exit" => pending = <<>> \/ outages > 0 \/ stepsBack > 0

StatsInv == TypeInv /\ StageInv /\ AttributionInv /\ FreshInv /\ CountedOnce /\ LossesExcused

-----------------------------------------------------------------------------
LEMMA StatsInitially == Init => StatsInv
<1> SUFFICES ASSUME Init PROVE StatsInv  OBVIOUS
<1> USE DEF Init, StatsInit, ClockInit
<1>1. AllRows = {} /\ Buffered = {}  BY DEF AllRows, Buffered
<1>2. TypeInv  BY <1>1 DEF TypeInv, Steps
<1>3. StageInv  BY <1>1 DEF StageInv, Acknowledged, Flushed
<1>4. AttributionInv  BY <1>1 DEF AttributionInv
<1>5. FreshInv /\ CountedOnce /\ LossesExcused
  BY <1>1 DEF FreshInv, NoResult, CountedOnce, LossesExcused
<1> QED  BY <1>2, <1>3, <1>4, <1>5 DEF StatsInv

(***************************************************************************)
(* Steps that make no rows and count no items.                             *)
(***************************************************************************)
\* The clock goes forward, or its going back is noted.
ClockMoves == \/ stepsBack' = stepsBack /\ now <= now'
              \/ stepsBack' > 0

LEMMA NothingNew ==
    ASSUME StatsInv,
           step' \in Steps, now' \in Nat, stepsBack' \in Nat, ClockMoves,
           process' = process, windows' \in Nat,
           currentHour' = currentHour \/ (currentHour' = NoHour /\ step' = "down"),
           pending' \in {pending, <<>>}, handed' \in {handed, {}},
           table' \subseteq table \cup Buffered,
           route_data' \subseteq route_data,
           step = "down" => step' = "down",
           step \in Flushed => step' \in Flushed \cup {"down"},
           \/ result' = result /\ windows' = windows
           \/ result' = NoResult /\ windows' >= windows
           \/ result' \in WindowResults /\ windows' > windows
    PROVE  TypeInv' /\ AttributionInv' /\ FreshInv' /\ CountedOnce'
<1>1. Buffered' \in {Buffered, {}}  BY DEF Buffered
<1>2. AllRows' \subseteq AllRows  BY <1>1 DEF AllRows
<1>3. TypeInv'
  <2>1. pending' \in Seq(Buffered')
    <3>1. CASE pending' = pending  BY <3>1 DEF StatsInv, TypeInv, Buffered
    <3>2. CASE pending' = <<>>  BY <3>2
    <3> QED  BY <3>1, <3>2
  <2>2. result' \in WindowResults \cup {NoResult}  BY DEF StatsInv, TypeInv
  <2>3. currentHour' \in Nat \cup {NoHour}  BY DEF StatsInv, TypeInv
  <2>4. windows' >= windows /\ windows \in Nat  BY DEF StatsInv, TypeInv
  <2>5. \A i \in route_data' : i.route \in Routes /\ i.window \in Int /\ i.window <= windows'
    BY <2>4 DEF StatsInv, TypeInv
  <2>6. \A row \in AllRows' :
          /\ row.hour \in Int /\ row.by \in Nat /\ row.by <= process'
          /\ \A i \in row.items : i.window \in Int /\ i.window <= windows'
    BY <1>2, <2>4 DEF StatsInv, TypeInv
  <2> QED  BY <2>1, <2>2, <2>3, <2>5, <2>6 DEF StatsInv, TypeInv
<1>4. AttributionInv'
  <2>1. \A row \in Buffered' \cup handed' : row.by = process'
    BY <1>1 DEF StatsInv, AttributionInv
  <2>2. ASSUME stepsBack' = 0, step' # "down"
        PROVE  /\ stepsBack = 0 /\ step # "down" /\ now <= now' /\ currentHour' = currentHour
               /\ step \in Flushed => step' \in Flushed
    BY <2>2 DEF ClockMoves
  <2>3. HourOf(now) <= HourOf(now') \/ ~(now <= now')  BY HourGrows DEF StatsInv, TypeInv
  <2>4. HourOf(now) \in Int /\ HourOf(now') \in Int  BY HourGrows DEF StatsInv, TypeInv
  <2>5. ASSUME stepsBack' = 0, step' # "down", currentHour' # NoHour
        PROVE  currentHour' <= HourOf(now')
    BY <2>2, <2>3, <2>4, <2>5 DEF StatsInv, TypeInv, AttributionInv
  <2>6. ASSUME stepsBack' = 0, step' # "down", NEW row \in AllRows', row.by = process'
        PROVE  /\ currentHour' # NoHour /\ row.hour <= currentHour'
               /\ row.hour = currentHour' => step' \in Flushed
    BY <1>2, <2>2, <2>6 DEF StatsInv, AttributionInv
  <2>7. ASSUME stepsBack' = 0, step' # "down", NEW x \in AllRows', NEW y \in AllRows',
               x.by = process', y.by = process', KeyOf(x) = KeyOf(y)
        PROVE  x = y
    BY <1>2, <2>2, <2>7 DEF StatsInv, AttributionInv
  <2>8. ASSUME stepsBack' = 0, step' # "down"
        PROVE  /\ IsInjective(pending')
               /\ handed' \cap Buffered' = {}
    BY <1>1, <2>2, <2>8 DEF StatsInv, AttributionInv, IsInjective
  <2> QED  BY <2>1, <2>5, <2>6, <2>7, <2>8 DEF AttributionInv, KeyOf
<1>5. FreshInv'
  <2>1. CASE result' = result /\ windows' = windows
    BY <1>2, <2>1 DEF StatsInv, FreshInv
  <2>2. CASE result' = NoResult  BY <2>2 DEF FreshInv, NoResult
  <2>3. CASE windows' > windows  BY <1>2, <2>3 DEF StatsInv, TypeInv, FreshInv
  <2> QED  BY <2>1, <2>2, <2>3
<1>6. CountedOnce'  BY <1>2 DEF StatsInv, CountedOnce
<1> QED  BY <1>3, <1>4, <1>5, <1>6

\* Nothing is lost that is still somewhere, or excused.
LEMMA StillThere ==
    ASSUME StatsInv, counted' = counted, excused \subseteq excused',
           route_data \subseteq route_data' \cup excused'
                                    \cup UNION {row.items : row \in AllRows'},
           \A row \in AllRows : \A i \in row.items :
                i \in excused' \/ \E other \in AllRows' : i \in other.items
    PROVE  LossesExcused'
<1> SUFFICES ASSUME NEW i \in counted', i \notin excused'
             PROVE  i \in route_data' \cup UNION {row.items : row \in AllRows'}
  BY DEF LossesExcused
<1>1. i \in route_data \/ \E row \in AllRows : i \in row.items
  BY DEF StatsInv, LossesExcused
<1> QED  BY <1>1

\* The steps that only move the control, the clock, the alerter or the server.
Elsewhere ==
    \/ ConnectPg
    \/ \E r \in WindowResults \cup {NoResult} : Persist(r)
    \/ \E counts \in VolumeCounts, arrives \in Delivered : Observe(counts, arrives)
    \/ \E written \in Delivered : Report(written)
    \/ Tick \/ ClockBack \/ RetryTimer \/ Postgres
    \/ NothingLeft /\ UNCHANGED <<clockVars, alerterVars, result, status, lost>>
    \/ UNCHANGED vars

LEMMA ElsewhereKeeps == ASSUME StatsInv, Elsewhere PROVE StatsInv'
<1> USE DEF clockVars, life, accumulator, buffer, server, stored, statsVars, vars
<1>1. UNCHANGED <<process, route_data, currentHour, handed, pending, table, counted, excused>>
  BY DEF Elsewhere, ConnectPg, Connect, Persist, Observe, Report, Tick, ClockBack,
         RetryTimer, RetryDue, Postgres, PgGoesDown, PgComesUp, NothingLeft
<1>2. /\ step' \in Steps
      /\ step' = step \/ (step # "handover" /\ step' \notin Acknowledged)
      /\ step' = step \/ (step # "down" /\ step' \notin Flushed)
            \/ (step = "last" /\ step' = "exit")
      /\ step' \in {"down", "connecting"} => step \in {"down", "connecting"}
  BY DEF Elsewhere, ConnectPg, Connect, Persist, Observe, Report, Tick, ClockBack,
         RetryTimer, RetryDue, Postgres, PgGoesDown, PgComesUp, NothingLeft,
         Acknowledged, Flushed, Steps, CallbackSteps, ShutdownSteps, StatsInv, TypeInv
<1>3. now' \in Nat /\ stepsBack' \in Nat /\ ClockMoves
  <2>1. CASE Tick
    <3>1. PICK d \in 1 .. MaxJump : Advance(d)  BY <2>1 DEF Tick
    <3> QED  BY <3>1, CallbackAssumption DEF Advance, ClockMoves, StatsInv, TypeInv
  <2>2. CASE ClockBack
    <3>1. PICK d \in 1 .. MaxBack : StepBack(d)  BY <2>2 DEF ClockBack
    <3> QED  BY <3>1, CallbackAssumption DEF StepBack, ClockMoves, StatsInv, TypeInv
  <2>3. CASE UNCHANGED clockVars  BY <2>3 DEF ClockMoves, StatsInv, TypeInv
  <2> QED
    BY <2>1, <2>2, <2>3 DEF Elsewhere, ConnectPg, Persist, Observe, Report, RetryTimer, Postgres
<1>4. \/ result' = result /\ windows' = windows
      \/ result' = NoResult /\ windows' = windows
      \/ result' \in WindowResults /\ windows' = windows + 1
  BY DEF Elsewhere, ConnectPg, Connect, Persist, Observe, Report, Tick, ClockBack,
         RetryTimer, RetryDue, Postgres, PgGoesDown, PgComesUp, NothingLeft
<1>5. windows \in Nat  BY DEF StatsInv, TypeInv
<1>6. step = "down" => step' = "down"
  BY <1>2
<1>7. step \in Flushed => step' \in Flushed \cup {"down"}
  BY DEF Elsewhere, ConnectPg, Connect, Persist, Observe, Report, Tick, ClockBack,
         RetryTimer, RetryDue, Postgres, PgGoesDown, PgComesUp, NothingLeft, Flushed
<1>8. TypeInv' /\ AttributionInv' /\ FreshInv' /\ CountedOnce'
  BY <1>1, <1>2, <1>3, <1>4, <1>5, <1>6, <1>7, NothingNew
<1>9. StageInv'
  BY <1>1, <1>2 DEF StatsInv, StageInv, Buffered, Flushed, Acknowledged
<1>10. LossesExcused'
  BY <1>1, StillThere DEF AllRows, Buffered
<1> QED  BY <1>8, <1>9, <1>10 DEF StatsInv

(***************************************************************************)
(* Steps that move rows.                                                   *)
(***************************************************************************)
\* The upsert replaces a row of another process, or of a clock stepped back, or the row
\* itself: an item that goes with a replaced row is excused.
LEMMA UpsertExplained ==
    ASSUME StatsInv, Stored, step # "down"
    PROVE  /\ table' \subseteq table \cup Buffered /\ Buffered \subseteq table'
           /\ excused \subseteq excused'
           /\ \A row \in table : \A i \in row.items :
                 i \in excused' \/ \E other \in table' : i \in other.items
<1>1. table' = Merged /\ excused \subseteq excused'  BY DEF Stored
<1>2. table' \subseteq table \cup Buffered /\ Buffered \subseteq table'
  BY <1>1 DEF Merged
<1>3. ASSUME NEW row \in table, NEW i \in row.items, row \notin table'
      PROVE  i \in excused' \/ \E other \in table' : i \in other.items
  <2>1. PICK p \in Buffered : KeyOf(p) = KeyOf(row)  BY <1>1, <1>3 DEF Merged
  <2>2. CASE p.items = row.items  BY <1>2, <1>3, <2>2
  <2>3. CASE p.items # row.items /\ (row.by # process \/ stepsBack > 0)
    <3>1. row \in {x \in Replaced : x.by # process \/ stepsBack > 0}
      BY <1>3, <2>1, <2>3 DEF Replaced
    <3> QED  BY <1>3, <3>1 DEF Stored
  <2>4. CASE p.items # row.items /\ row.by = process /\ stepsBack = 0
    <3>1. p \in AllRows /\ row \in AllRows  BY <1>3 DEF AllRows
    <3>2. p.by = process  BY DEF StatsInv, AttributionInv
    <3>3. p = row  BY <2>1, <2>4, <3>1, <3>2 DEF StatsInv, AttributionInv
    <3> QED  BY <2>4, <3>3
  <2> QED  BY <2>2, <2>3, <2>4 DEF StatsInv, TypeInv
<1> QED  BY <1>1, <1>2, <1>3

\* One attempt at writing the buffer, during a callback or at shutdown.
LEMMA AttemptKeeps ==
    ASSUME StatsInv, UNCHANGED <<clockVars, result>>,
           \/ step = "upsert" /\ Attempt("clear", "idle")
           \/ step = "forced" /\ Attempt("forcedClear", "last")
           \/ step = "last" /\ Attempt("lastClear", "exit")
    PROVE  StatsInv'
<1> USE DEF clockVars, life, stored
<1>1. UNCHANGED <<process, windows, route_data, currentHour, handed, pending, counted,
                  now, stepsBack, result>>
  BY DEF Attempt, accumulator
<1>2. \/ table' = table /\ excused' = excused /\ step' \in {"idle", "last", "exit"}
      \/ Stored
  BY DEF Attempt, AttemptSucceeds, AttemptFails, CommitUnacknowledged
<1>3. step # "down" /\ step' # "down" /\ step' \in Steps
      /\ step' \in {"clear", "idle", "forcedClear", "last", "lastClear", "exit"}
      /\ (step' \in Flushed <=> step \in Flushed)
  BY DEF Attempt, Steps, CallbackSteps, ShutdownSteps, Flushed
<1>4. /\ table' \subseteq table \cup Buffered /\ excused \subseteq excused'
      /\ step' \in Acknowledged => Buffered \subseteq table'
      /\ \A row \in table : \A i \in row.items :
             i \in excused' \/ \E other \in table' : i \in other.items
  <2>1. CASE Stored  BY <2>1, <1>3, UpsertExplained
  <2>2. CASE ~Stored  BY <2>2, <1>2 DEF Acknowledged
  <2> QED  BY <2>1, <2>2
<1>5. ClockMoves /\ now' \in Nat /\ stepsBack' \in Nat /\ windows' \in Nat
  BY <1>1 DEF ClockMoves, StatsInv, TypeInv
<1>6. TypeInv' /\ AttributionInv' /\ FreshInv' /\ CountedOnce'
  BY <1>1, <1>3, <1>4, <1>5, NothingNew
<1>7. StageInv'
  BY <1>1, <1>3, <1>4 DEF StatsInv, StageInv, Buffered
<1>8. \A row \in AllRows : \A i \in row.items :
          i \in excused' \/ \E other \in AllRows' : i \in other.items
  BY <1>1, <1>4 DEF AllRows, Buffered
<1>9. LossesExcused'  BY <1>1, <1>4, <1>8, StillThere
<1> QED  BY <1>6, <1>7, <1>9 DEF StatsInv

\* The buffer is cleared after its rows have been stored.
LEMMA ClearKeeps ==
    ASSUME StatsInv, UNCHANGED <<clockVars, result>>, Clear \/ ForcedClear \/ LastClear
    PROVE  StatsInv'
<1> USE DEF clockVars, life, stored, accumulator
<1>1. /\ UNCHANGED <<process, windows, route_data, currentHour, handed, table, counted,
                     excused, now, stepsBack, result>>
      /\ pending' = <<>>
  BY DEF Clear, ForcedClear, LastClear, ClearBuffer
<1>2. /\ step \in Acknowledged
      /\ step' \in {"idle", "last", "exit"} /\ step' \in Steps
      /\ (step' \in Flushed <=> step \in Flushed)
  BY DEF Clear, ForcedClear, LastClear, ClearBuffer, Acknowledged, Flushed, Steps,
         ShutdownSteps
<1>3. Buffered' = {} /\ Buffered \subseteq table
  BY <1>1, <1>2 DEF Buffered, StatsInv, StageInv
<1>4. step \notin {"down", "connecting", "handover"} /\ step' \notin Acknowledged
      /\ step' \notin {"down", "connecting"}
  BY <1>2 DEF Acknowledged
<1>5. ClockMoves /\ now' \in Nat /\ stepsBack' \in Nat /\ windows' \in Nat
  BY <1>1 DEF ClockMoves, StatsInv, TypeInv
<1>6. TypeInv' /\ AttributionInv' /\ FreshInv' /\ CountedOnce'
  BY <1>1, <1>2, <1>4, <1>5, NothingNew
<1>7. StageInv'
  BY <1>1, <1>2, <1>3, <1>4 DEF StatsInv, StageInv
<1>8. LossesExcused'
  BY <1>1, <1>3, StillThere DEF AllRows
<1> QED  BY <1>6, <1>7, <1>8 DEF StatsInv

\* The process ends, with a reason for everything that was only in memory.
LEMMA EndKeeps ==
    ASSUME StatsInv, OwnInv,
           \/ Signal \/ Killed
           \/ Exit /\ UNCHANGED <<clockVars, alerterVars, result, status, lost>>
    PROVE  StatsInv'
<1> USE DEF clockVars, life, stored, accumulator, server, buffer
<1>1. UNCHANGED <<process, windows, table, counted, now, stepsBack>>
      /\ (result' = result \/ result' = NoResult) /\ handed' = {}
  BY DEF Signal, Interrupt, Killed, Kill, Exit, Forget
<1>2. \/ step # "down" /\ step' = "stopping" /\ pending' = pending /\ step \notin Flushed
            /\ route_data' = route_data /\ currentHour' = currentHour
      \/ step' = "down" /\ pending' = <<>> /\ route_data' = {} /\ currentHour' = NoHour
  BY DEF Signal, Interrupt, Running, CallbackSteps, Killed, Kill, Exit, Forget, Flushed
<1>3. /\ excused \subseteq excused' /\ InHand \subseteq excused' \cup UNION {r.items : r \in handed'}
      /\ InBuffer \subseteq excused' \/ pending' = pending
      /\ route_data \subseteq excused' \cup route_data'
  <2>1. CASE Signal  BY <2>1 DEF Signal, Interrupt
  <2>2. CASE Killed  BY <2>2 DEF Killed, Kill
  <2>3. CASE Exit
    <3>1. handed = {} /\ (currentHour = NoHour \/ route_data = {})
      BY <2>3 DEF Exit, StatsInv, StageInv, Flushed
    <3>2. CASE pending = <<>>  BY <2>3, <3>1, <3>2 DEF Exit, Forget, InHand
    <3>3. CASE outages > 0 \/ stepsBack > 0  BY <2>3, <3>1, <3>3 DEF Exit, InHand
    <3> QED  BY <2>3, <3>2, <3>3 DEF Exit, OwnInv
  <2> QED  BY <2>1, <2>2, <2>3
<1>4. ClockMoves /\ now' \in Nat /\ stepsBack' \in Nat /\ windows' \in Nat
  BY <1>1 DEF ClockMoves, StatsInv, TypeInv
<1>5. step' \in Steps /\ step' \notin Acknowledged /\ step' \notin Flushed
      /\ step' # "connecting"
  BY <1>2 DEF Steps, ShutdownSteps, Acknowledged, Flushed
<1>6. TypeInv' /\ AttributionInv' /\ FreshInv' /\ CountedOnce'
  BY <1>1, <1>2, <1>4, <1>5, NothingNew DEF StatsInv, TypeInv
<1>7. StageInv'
  BY <1>1, <1>2, <1>5 DEF StatsInv, StageInv
<1>8. ASSUME NEW row \in AllRows, NEW i \in row.items
      PROVE  i \in excused' \/ \E other \in AllRows' : i \in other.items
  <2>1. CASE row \in table  BY <1>1, <1>8, <2>1 DEF AllRows
  <2>2. CASE row \in handed  BY <1>1, <1>3, <1>8, <2>2 DEF InHand
  <2>3. CASE row \in Buffered
    <3>1. CASE pending' = pending  BY <1>8, <2>3, <3>1 DEF AllRows, Buffered
    <3>2. CASE InBuffer \subseteq excused'  BY <1>8, <2>3, <3>2 DEF InBuffer
    <3> QED  BY <1>3, <3>1, <3>2
  <2> QED  BY <2>1, <2>2, <2>3 DEF AllRows
<1>9. LossesExcused'  BY <1>1, <1>3, <1>8, StillThere
<1> QED  BY <1>6, <1>7, <1>9 DEF StatsInv

(***************************************************************************)
(* Steps that begin a process, count items or make rows.                   *)
(***************************************************************************)
\* Every row there is was written by an earlier process.
LEMMA StartKeeps == ASSUME StatsInv, Start PROVE StatsInv'
<1> USE DEF clockVars, accumulator, buffer, server, stored
<1>1. /\ step = "down" /\ step' = "connecting" /\ process' = process + 1
      /\ UNCHANGED <<clockVars, windows, accumulator, buffer, stored, result>>
  BY DEF Start
<1>2. pending = <<>> /\ handed = {} /\ Buffered = {}
  BY <1>1 DEF StatsInv, StageInv, Buffered
<1>3. AllRows' = AllRows /\ Buffered' = Buffered  BY <1>1 DEF AllRows, Buffered
<1>4. \A row \in AllRows : row.by <= process /\ row.by # process'
  BY <1>1 DEF StatsInv, TypeInv
<1>5. TypeInv'
  BY <1>1, <1>3 DEF StatsInv, TypeInv, Steps
<1>6. StageInv'
  BY <1>1, <1>2 DEF StatsInv, StageInv, Acknowledged, Flushed
<1>7. AttributionInv'
  <2>1. currentHour' = NoHour  BY <1>1 DEF StatsInv, StageInv
  <2>2. \A row \in AllRows' : row.by # process'  BY <1>3, <1>4
  <2>3. Buffered' \cup handed' = {} /\ pending' = <<>>  BY <1>1, <1>2, <1>3
  <2> QED  BY <2>1, <2>2, <2>3 DEF AttributionInv, IsInjective
<1>8. FreshInv' /\ CountedOnce'
  BY <1>1, <1>3 DEF StatsInv, FreshInv, CountedOnce
<1>9. LossesExcused'  BY <1>1, <1>3, StillThere
<1> QED  BY <1>5, <1>6, <1>7, <1>8, <1>9 DEF StatsInv

\* accumulate(): the items of this window are new, whatever happened before.
LEMMA CountKeeps == ASSUME StatsInv, Count PROVE StatsInv'
<1> USE DEF clockVars, life, buffer, server
<1> DEFINE items == ItemsOf(result.results)
<1>1. /\ step = "accumulate" /\ step' = "flush" /\ result' = NoResult
      /\ route_data' = route_data \cup items /\ counted' = counted \cup items
      /\ UNCHANGED <<clockVars, life, buffer, currentHour, table, excused>>
  BY DEF Count, Accumulate
<1>2. AllRows' = AllRows /\ Buffered' = Buffered  BY <1>1 DEF AllRows, Buffered
<1>3. ASSUME NEW i \in items
      PROVE  i.route \in Routes /\ i.window = windows /\ result.results # {}
  <2>1. PICK r \in result.results :
            i = [route |-> RouteOf(r),
                 kind |-> IF r.kind = "deviation" THEN "deviation" ELSE "bunching",
                 window |-> windows, at |-> HourOf(now), by |-> process]
    BY DEF ItemsOf
  <2>2. result \in WindowResults  BY <2>1 DEF StatsInv, TypeInv, NoResult
  <2>3. r.route \in Routes \cup {NoRoute}  BY <2>1, <2>2, CallbackAssumption
  <2>4. RouteOf(r) \in Routes  BY <2>3, StatsAssumption DEF RouteOf
  <2> QED  BY <2>1, <2>4
<1> HIDE DEF items
<1>4. TypeInv'
  <2>1. \A i \in route_data' : i.route \in Routes /\ i.window \in Int /\ i.window <= windows
    BY <1>1, <1>3 DEF StatsInv, TypeInv
  <2> QED  BY <1>1, <1>2, <2>1 DEF StatsInv, TypeInv, Steps, CallbackSteps
<1>5. StageInv'
  BY <1>1, <1>2 DEF StatsInv, StageInv, Acknowledged, Flushed
<1>6. AttributionInv'
  BY <1>1, <1>2 DEF StatsInv, AttributionInv, Flushed
<1>7. FreshInv'  BY <1>1 DEF FreshInv, NoResult
<1>8. CountedOnce'
  <2>1. ASSUME NEW row \in AllRows PROVE row.items \cap items = {}
    <3>1. \A i \in row.items : result.results # {} => i.window < windows
      BY DEF StatsInv, FreshInv
    <3>2. \A i \in row.items : i.window \in Int /\ windows \in Int
      BY DEF StatsInv, TypeInv
    <3> QED  BY <1>3, <3>1, <3>2
  <2> QED  BY <1>1, <1>2, <2>1 DEF StatsInv, CountedOnce
<1>9. LossesExcused'  BY <1>1, <1>2 DEF StatsInv, LossesExcused
<1> QED  BY <1>4, <1>5, <1>6, <1>7, <1>8, <1>9 DEF StatsInv

\* maybe_flush() without a new hour: the first window's hour is recorded, or it is the same.
LEMMA SameHourKeeps ==
    ASSUME StatsInv, UNCHANGED <<clockVars, result>>,
           RecordHour \/ SameHour, UNCHANGED <<life, server, stored, pending, waiting>>
    PROVE  StatsInv'
<1> USE DEF clockVars, life, stored
<1>1. /\ step = "flush" /\ step' = "handover"
      /\ UNCHANGED <<now, stepsBack, result, process, windows, route_data, handed, pending,
                     table, counted, excused>>
      /\ currentHour' = currentHour \/ (currentHour = NoHour /\ currentHour' = HourOf(now))
  BY DEF RecordHour, SameHour
<1>2. AllRows' = AllRows /\ Buffered' = Buffered  BY <1>1 DEF AllRows, Buffered
<1>3. HourOf(now) \in Nat  BY HourGrows DEF StatsInv, TypeInv
<1>4. TypeInv'
  BY <1>1, <1>2, <1>3 DEF StatsInv, TypeInv, Steps, CallbackSteps
<1>5. StageInv'
  BY <1>1, <1>2 DEF StatsInv, StageInv, Acknowledged, Flushed
<1>6. AttributionInv'
  <2>1. CASE currentHour' = currentHour
    BY <1>1, <1>2, <2>1 DEF StatsInv, AttributionInv, Flushed
  <2>2. CASE currentHour = NoHour /\ currentHour' = HourOf(now)
    <3>1. stepsBack = 0 => \A row \in AllRows : row.by # process
      BY <1>1, <2>2 DEF StatsInv, AttributionInv
    <3> QED  BY <1>1, <1>2, <1>3, <2>2, <3>1 DEF StatsInv, AttributionInv
  <2> QED  BY <1>1, <2>1, <2>2
<1>7. FreshInv' /\ CountedOnce'
  BY <1>1, <1>2 DEF StatsInv, FreshInv, CountedOnce
<1>8. LossesExcused'  BY <1>1, <1>2, StillThere
<1> QED  BY <1>4, <1>5, <1>6, <1>7, <1>8 DEF StatsInv

\* New rows take the whole accumulator with them, and are of an hour no row of this process
\* is of.
LEMMA FlushedRows ==
    ASSUME StatsInv, step \in {"flush", "stopping"}, currentHour # NoHour,
           process' = process, now' = now, stepsBack' = stepsBack, result' = result,
           windows' = windows, UNCHANGED <<table, counted, excused>>, route_data' = {},
           AllRows' = AllRows \cup RowsFor(currentHour)
    PROVE  /\ \A i \in route_data' : i.route \in Routes /\ i.window \in Int /\ i.window <= windows'
           /\ \A row \in AllRows' :
                 /\ row.hour \in Int /\ row.by \in Nat /\ row.by <= process'
                 /\ \A i \in row.items : i.window \in Int /\ i.window <= windows'
           /\ \A row \in RowsFor(currentHour) : row.by = process
           /\ stepsBack = 0 =>
                 /\ RowsFor(currentHour) \cap AllRows = {}
                 /\ \A row \in AllRows' : row.by = process =>
                       row.hour <= currentHour
                 /\ \A row \in AllRows : row.by = process => row.hour < currentHour
                 /\ \A x, y \in AllRows' :
                       x.by = process' /\ y.by = process' /\ KeyOf(x) = KeyOf(y) => x = y
           /\ FreshInv' /\ CountedOnce' /\ LossesExcused'
<1> DEFINE rows == RowsFor(currentHour)
<1>1. /\ UNION {row.items : row \in rows} = route_data
      /\ \A row \in rows :
            row.hour = currentHour /\ row.by = process /\ row.items \subseteq route_data
      /\ \A x, y \in rows : x # y => KeyOf(x) # KeyOf(y) /\ x.items \cap y.items = {}
  BY RowsOfAnHour DEF StatsInv, TypeInv
<1> HIDE DEF rows
<1>2. \A row \in AllRows' :
         /\ row.hour \in Int /\ row.by \in Nat /\ row.by <= process'
         /\ \A i \in row.items : i.window \in Int /\ i.window <= windows'
  <2>1. \A row \in rows :
           /\ row.hour \in Int /\ row.by \in Nat /\ row.by <= process
           /\ \A i \in row.items : i.window \in Int /\ i.window <= windows
    BY <1>1 DEF StatsInv, TypeInv, NoHour
  <2> QED  BY <2>1 DEF StatsInv, TypeInv, rows
<1>3. ASSUME stepsBack = 0
      PROVE  \A row \in AllRows : row.by = process => row.hour < currentHour
  <2>1. step \notin Flushed /\ step # "down"  BY DEF Flushed
  <2>2. currentHour \in Int /\ \A row \in AllRows : row.hour \in Int
    BY DEF StatsInv, TypeInv, NoHour
  <2> QED  BY <1>3, <2>1, <2>2 DEF StatsInv, AttributionInv
<1>4. ASSUME stepsBack = 0
      PROVE  /\ rows \cap AllRows = {}
             /\ \A row \in AllRows' : row.by = process => row.hour <= currentHour
             /\ \A x, y \in AllRows' :
                   x.by = process' /\ y.by = process' /\ KeyOf(x) = KeyOf(y) => x = y
  <2>1. currentHour \in Int /\ \A row \in AllRows : row.hour \in Int
    BY DEF StatsInv, TypeInv, NoHour
  <2>2. \A x \in rows, y \in AllRows : y.by = process => x.hour # y.hour
    BY <1>1, <1>3, <1>4, <2>1
  <2>3. rows \cap AllRows = {}  BY <1>1, <2>2
  <2>4. \A row \in AllRows' : row.by = process => row.hour <= currentHour
    BY <1>1, <1>3, <1>4, <2>1 DEF rows
  <2>5. \A x, y \in AllRows : x.by = process /\ y.by = process /\ KeyOf(x) = KeyOf(y) => x = y
    <3>1. step # "down"  OBVIOUS
    <3> QED  BY <1>4, <3>1 DEF StatsInv, AttributionInv
  <2>6. \A x \in rows, y \in AllRows : y.by = process => KeyOf(x) # KeyOf(y)
    BY <2>2 DEF KeyOf
  <2>7. \A x, y \in AllRows' :
            x.by = process /\ y.by = process /\ KeyOf(x) = KeyOf(y) => x = y
    BY <1>1, <2>5, <2>6 DEF rows
  <2> QED  BY <2>3, <2>4, <2>7
<1>5. FreshInv'
  BY <1>1 DEF StatsInv, FreshInv, rows
<1>6. CountedOnce'
  BY <1>1 DEF StatsInv, CountedOnce, rows
<1>7. LossesExcused'
  <2>1. \A i \in route_data : \E row \in rows : i \in row.items  BY <1>1
  <2> QED  BY <2>1, StillThere DEF rows
<1> QED  BY <1>1, <1>2, <1>3, <1>4, <1>5, <1>6, <1>7 DEF rows

\* maybe_flush() in a new hour.
LEMMA NewHourKeeps ==
    ASSUME StatsInv, UNCHANGED <<clockVars, result>>,
           HourChanged, UNCHANGED <<life, server, stored, pending, waiting>>
    PROVE  StatsInv'
<1> USE DEF clockVars, life, stored
<1>1. /\ step = "flush" /\ step' = "handover" /\ currentHour # NoHour
      /\ handed' = RowsFor(currentHour) /\ route_data' = {} /\ currentHour' = HourOf(now)
      /\ currentHour # HourOf(now)
      /\ UNCHANGED <<now, stepsBack, result, process, windows, pending, table, counted, excused>>
  BY DEF HourChanged
<1>2. handed = {} /\ Buffered' = Buffered
  BY <1>1 DEF StatsInv, StageInv, Buffered
<1>3. AllRows' = AllRows \cup RowsFor(currentHour)  BY <1>1, <1>2 DEF AllRows
<1>4. HourOf(now) \in Nat  BY HourGrows DEF StatsInv, TypeInv
<1>5. TypeInv'
  BY <1>1, <1>2, <1>3, <1>4, FlushedRows DEF StatsInv, TypeInv, Steps, CallbackSteps
<1>6. StageInv'
  <2>1. IsFiniteSet(handed')  BY <1>1, RowsOfAnHour DEF StatsInv, TypeInv
  <2> QED  BY <1>1, <1>2, <2>1 DEF StatsInv, StageInv, Acknowledged, Flushed
<1>7. AttributionInv'
  <2>1. \A row \in Buffered' \cup handed' : row.by = process'
    BY <1>1, <1>2, <1>3, FlushedRows DEF StatsInv, AttributionInv
  <2>2. ASSUME stepsBack = 0
        PROVE  /\ currentHour < HourOf(now)
               /\ \A row \in AllRows' : row.by = process => row.hour < HourOf(now)
    <3>1. currentHour <= HourOf(now)  BY <1>1, <2>2 DEF StatsInv, AttributionInv
    <3>2. currentHour < HourOf(now)  BY <1>1, <1>4, <3>1 DEF StatsInv, TypeInv
    <3>3. \A row \in AllRows' : row.by = process => row.hour <= currentHour /\ row.hour \in Int
      BY <1>1, <1>3, <2>2, FlushedRows
    <3> QED  BY <1>1, <1>4, <3>2, <3>3 DEF StatsInv, TypeInv
  <2>3. ASSUME stepsBack = 0
        PROVE  /\ \A x, y \in AllRows' :
                    x.by = process' /\ y.by = process' /\ KeyOf(x) = KeyOf(y) => x = y
               /\ handed' \cap Buffered' = {}
    <3>1. RowsFor(currentHour) \cap AllRows = {}  BY <1>1, <1>3, <2>3, FlushedRows
    <3> QED  BY <1>1, <1>2, <1>3, <2>3, <3>1, FlushedRows DEF AllRows
  <2>4. stepsBack = 0 => IsInjective(pending')
    BY <1>1 DEF StatsInv, AttributionInv
  <2>5. currentHour' <= HourOf(now') /\ currentHour' # NoHour  BY <1>1, <1>4 DEF NoHour
  <2>6. \A row \in AllRows' : row.hour \in Int  BY <1>5 DEF TypeInv
  <2>7. stepsBack = 0 => \A row \in AllRows' : row.by = process' =>
            /\ currentHour' # NoHour /\ row.hour <= currentHour'
            /\ row.hour = currentHour' => step' \in Flushed
    BY <1>1, <1>4, <2>2, <2>5, <2>6
  <2> QED  BY <1>1, <2>1, <2>3, <2>4, <2>5, <2>7 DEF AttributionInv, KeyOf
<1>8. FreshInv' /\ CountedOnce' /\ LossesExcused'  BY <1>1, <1>3, FlushedRows
<1> QED  BY <1>5, <1>6, <1>7, <1>8 DEF StatsInv

\* The buffer gets rows at its end, each of them once.
LEMMA BufferExtended ==
    ASSUME StatsInv, NEW rows, IsFiniteSet(rows), pending' = pending \o AsSequence(rows)
    PROVE  /\ pending' \in Seq(Buffered') /\ Buffered' = Buffered \cup rows
           /\ IsInjective(pending) /\ Buffered \cap rows = {} => IsInjective(pending')
<1> DEFINE more == AsSequence(rows)
<1>1. more \in Seq(rows) /\ ToSet(more) = rows /\ IsInjective(more)
  BY InOrderOfTheDictionary
<1>2. pending \in Seq(Buffered) /\ ToSet(pending) = Buffered
  BY DEF StatsInv, TypeInv, Buffered, ToSet
<1>3. pending' = pending \o more  OBVIOUS
<1> HIDE DEF more
<1>4. /\ pending' \in Seq(Buffered \cup rows)
      /\ ToSet(pending') = Buffered \cup rows
      /\ IsInjective(pending) /\ Buffered \cap rows = {} => IsInjective(pending')
  <2>1. /\ pending \o more \in Seq(Buffered \cup rows)
        /\ ToSet(pending \o more) = ToSet(pending) \cup ToSet(more)
        /\ IsInjective(pending) /\ IsInjective(more) /\ ToSet(pending) \cap ToSet(more) = {}
                => IsInjective(pending \o more)
    <3>1. \A S, T : \A s \in Seq(S), t \in Seq(T) :
              /\ s \o t \in Seq(S \cup T)
              /\ ToSet(s \o t) = ToSet(s) \cup ToSet(t)
              /\ IsInjective(s) /\ IsInjective(t) /\ ToSet(s) \cap ToSet(t) = {}
                   => IsInjective(s \o t)
      BY Concatenated
    <3>2. \A s \in Seq(Buffered), t \in Seq(rows) :
              /\ s \o t \in Seq(Buffered \cup rows)
              /\ ToSet(s \o t) = ToSet(s) \cup ToSet(t)
              /\ IsInjective(s) /\ IsInjective(t) /\ ToSet(s) \cap ToSet(t) = {}
                   => IsInjective(s \o t)
      BY <3>1
    <3> QED  BY <1>1, <1>2, <3>2, Zenon
  <2> QED  BY <1>1, <1>2, <1>3, <2>1, Zenon
<1>5. Buffered' = ToSet(pending')  BY DEF Buffered, ToSet
<1> QED  BY <1>4, <1>5

\* pg_upsert(): the rows are appended to the buffer, or there are none.
LEMMA HandoverKeeps ==
    ASSUME StatsInv, UNCHANGED <<clockVars, result>>, Handover PROVE StatsInv'
<1> USE DEF clockVars, life, stored, accumulator
<1> DEFINE more == AsSequence(handed)
<1>1. /\ step = "handover" /\ step' \in {"upsert", "idle"} /\ handed' = {}
      /\ pending' = pending \o more \/ (pending' = pending /\ handed = {})
      /\ UNCHANGED <<now, stepsBack, result, process, windows, route_data, currentHour,
                     table, counted, excused>>
  BY DEF Handover
<1>2. CASE handed = {}
  <2>1. pending' = pending
    <3>1. CASE pending' = pending \o more
      <4>1. more = <<>>
        <5>1. IsFiniteSet({}) /\ Cardinality({}) = 0  BY FS_EmptySet
        <5>2. more \in Seq({})  BY <1>2, <5>1, InOrderOfTheDictionary
        <5> QED  BY <5>2
      <4> QED  BY <3>1, <4>1 DEF StatsInv, TypeInv
    <3> QED  BY <1>1, <3>1
  <2>2. ClockMoves /\ now' \in Nat /\ stepsBack' \in Nat /\ windows' \in Nat
    BY <1>1 DEF ClockMoves, StatsInv, TypeInv
  <2>3. step' \in Steps /\ step' \notin Acknowledged /\ step' \notin Flushed
        /\ step' \notin {"down", "connecting"} /\ step \notin Flushed /\ step # "down"
    BY <1>1 DEF Steps, CallbackSteps, Acknowledged, Flushed
  <2>4. TypeInv' /\ AttributionInv' /\ FreshInv' /\ CountedOnce'
    BY <1>1, <2>1, <2>2, <2>3, NothingNew
  <2>5. StageInv'  BY <1>1, <2>3 DEF StatsInv, StageInv
  <2>6. LossesExcused'  BY <1>1, <1>2, <2>1, StillThere DEF AllRows, Buffered
  <2> QED  BY <2>4, <2>5, <2>6 DEF StatsInv
<1>3. CASE handed # {}
  <2>1. pending' = pending \o more /\ step' = "upsert"  BY <1>1, <1>3 DEF Handover
  <2>2. IsFiniteSet(handed)  BY <1>3 DEF StatsInv, StageInv
  <2>4. /\ pending' \in Seq(Buffered') /\ Buffered' = Buffered \cup handed
        /\ IsInjective(pending) /\ Buffered \cap handed = {} => IsInjective(pending')
    BY <2>1, <2>2, BufferExtended
  <2>5. AllRows' = AllRows  BY <1>1, <2>4 DEF AllRows
  <2>6. TypeInv'
    BY <1>1, <2>4, <2>5 DEF StatsInv, TypeInv, Steps, CallbackSteps
  <2>7. StageInv'
    BY <1>1, <2>1 DEF StatsInv, StageInv, Acknowledged, Flushed
  <2>8. AttributionInv'
    BY <1>1, <2>1, <2>4, <2>5 DEF StatsInv, AttributionInv, Flushed
  <2>9. FreshInv' /\ CountedOnce'
    BY <1>1, <2>5 DEF StatsInv, FreshInv, CountedOnce
  <2>10. LossesExcused'  BY <1>1, <2>5, StillThere
  <2> QED  BY <2>6, <2>7, <2>8, <2>9, <2>10 DEF StatsInv
<1> QED  BY <1>2, <1>3

\* flush_remaining(): the partial hour's rows go straight into the buffer.
LEMMA FlushRemainingKeeps ==
    ASSUME StatsInv, UNCHANGED <<clockVars, result>>, FlushRemaining PROVE StatsInv'
<1> USE DEF clockVars, life, stored
<1> DEFINE rows == IF currentHour = NoHour THEN {} ELSE RowsFor(currentHour)
           more == AsSequence(rows)
<1>1. /\ step = "stopping" /\ step' \in {"last", "forced"}
      /\ pending' = pending \o more
      /\ route_data' = IF currentHour = NoHour THEN route_data ELSE {}
      /\ UNCHANGED <<now, stepsBack, result, process, windows, currentHour, handed,
                     table, counted, excused>>
  BY DEF FlushRemaining
<1>2. IsFiniteSet(rows)
  BY FS_EmptySet, RowsOfAnHour DEF StatsInv, TypeInv
<1>4. /\ pending' \in Seq(Buffered') /\ Buffered' = Buffered \cup rows
      /\ IsInjective(pending) /\ Buffered \cap rows = {} => IsInjective(pending')
  <2> HIDE DEF rows
  <2> QED  BY <1>1, <1>2, BufferExtended
<1>5. AllRows' = AllRows \cup rows  BY <1>1, <1>4 DEF AllRows
<1>6. handed = {}  BY <1>1 DEF StatsInv, StageInv
<1>7. step' \in Steps /\ step' \in Flushed /\ step \notin Flushed /\ step' \notin Acknowledged
      /\ step' \notin {"down", "connecting"}
  BY <1>1 DEF Steps, ShutdownSteps, Flushed, Acknowledged
<1>8. StageInv'
  BY <1>1, <1>6, <1>7 DEF StatsInv, StageInv
<1>9. CASE currentHour = NoHour
  <2>1. rows = {} /\ AllRows' = AllRows /\ Buffered' = Buffered /\ route_data' = route_data
    BY <1>1, <1>4, <1>5, <1>9
  <2>2. TypeInv'
    BY <1>1, <1>4, <1>7, <2>1 DEF StatsInv, TypeInv
  <2>3. AttributionInv'
    BY <1>1, <1>4, <1>7, <2>1 DEF StatsInv, AttributionInv
  <2>4. FreshInv' /\ CountedOnce'
    BY <1>1, <2>1 DEF StatsInv, FreshInv, CountedOnce
  <2>5. LossesExcused'  BY <1>1, <2>1, StillThere
  <2> QED  BY <1>8, <2>2, <2>3, <2>4, <2>5 DEF StatsInv
<1>10. CASE currentHour # NoHour
  <2>1. rows = RowsFor(currentHour) /\ route_data' = {}  BY <1>1, <1>10
  <2>2. AllRows' = AllRows \cup RowsFor(currentHour)  BY <1>5, <2>1
  <2> HIDE DEF rows
  <2>3. TypeInv'
    BY <1>1, <1>4, <1>7, <1>10, <2>1, <2>2, FlushedRows DEF StatsInv, TypeInv
  <2>4. \A row \in Buffered' \cup handed' : row.by = process'
    BY <1>1, <1>4, <1>10, <2>1, <2>2, FlushedRows DEF StatsInv, AttributionInv
  <2>5. ASSUME stepsBack = 0
        PROVE  /\ \A row \in AllRows' : row.by = process => row.hour <= currentHour
               /\ \A x, y \in AllRows' :
                    x.by = process' /\ y.by = process' /\ KeyOf(x) = KeyOf(y) => x = y
               /\ Buffered \cap rows = {}
    BY <1>1, <1>10, <2>1, <2>2, <2>5, FlushedRows DEF AllRows
  <2>6. stepsBack = 0 => currentHour <= HourOf(now)
    BY <1>1, <1>10 DEF StatsInv, AttributionInv
  <2>7. stepsBack = 0 => IsInjective(pending')
    BY <1>1, <1>4, <2>5 DEF StatsInv, AttributionInv
  <2>8. AttributionInv'
    BY <1>1, <1>6, <1>7, <1>10, <2>4, <2>5, <2>6, <2>7 DEF AttributionInv, KeyOf
  <2>9. FreshInv' /\ CountedOnce' /\ LossesExcused'
    BY <1>1, <1>10, <2>1, <2>2, FlushedRows
  <2> QED  BY <1>8, <2>3, <2>8, <2>9 DEF StatsInv
<1> QED  BY <1>9, <1>10

\* Without a clock stepped back the buffer has no two rows of one key.
LEMMA PoisonIsClocks == StatsInv => PoisonNeedsClockBack
<1> SUFFICES ASSUME StatsInv, Poisoned, stepsBack = 0 PROVE FALSE
  BY DEF PoisonNeedsClockBack, StatsInv, TypeInv
<1>1. PICK j \in DOMAIN pending, k \in DOMAIN pending :
          j # k /\ KeyOf(pending[j]) = KeyOf(pending[k])
  BY DEF Poisoned
<1>2. step # "down"  BY <1>1 DEF StatsInv, StageInv
<1>3. pending[j] \in Buffered /\ pending[k] \in Buffered  BY DEF Buffered
<1>4. pending[j] = pending[k]
  BY <1>1, <1>2, <1>3 DEF StatsInv, AttributionInv, AllRows
<1> QED  BY <1>1, <1>2, <1>4 DEF StatsInv, AttributionInv, IsInjective

(***************************************************************************)
(* Whose items are lost, and what keeps a shutdown from writing its rows.  *)
(***************************************************************************)
\* The steps that make no rows and count no items.
LEMMA OwnElsewhere == ASSUME StatsInv, OwnInv, Elsewhere PROVE OwnInv'
<1> USE DEF clockVars, life, accumulator, buffer, server, stored, statsVars, vars
<1>1. UNCHANGED <<process, route_data, handed, pending, table, excused>>
  BY DEF Elsewhere, ConnectPg, Connect, Persist, Observe, Report, Tick, ClockBack, RetryTimer,
         RetryDue, Postgres, PgGoesDown, PgComesUp, NothingLeft
<1>2. AllRows' = AllRows  BY <1>1 DEF AllRows, Buffered
<1>3. stepsBack' = 0 => stepsBack = 0
  BY DEF Elsewhere, ConnectPg, Persist, Observe, Report, Tick, ClockBack, RetryTimer, Postgres,
         Advance, StepBack, StatsInv, TypeInv
<1>4. Running' \/ step' = "connecting" => Running \/ step = "connecting"
  BY DEF Elsewhere, ConnectPg, Connect, Persist, Observe, Report, Tick, ClockBack, RetryTimer,
         RetryDue, Postgres, PgGoesDown, PgComesUp, NothingLeft, Running, CallbackSteps
<1>5. outages' \in Nat /\ (outages' = 0 => outages = 0)
  BY DEF Elsewhere, ConnectPg, Connect, Persist, Observe, Report, Tick, ClockBack, RetryTimer,
         RetryDue, Postgres, PgGoesDown, PgComesUp, NothingLeft, OwnInv
<1>6. outages' = 0 => pgUp' /\ (conn' \/ step' \in {"down", "connecting"})
  <2>1. CASE ConnectPg  BY <1>5, <2>1 DEF ConnectPg, Connect, OwnInv
  <2>2. CASE Postgres
    <3>1. PgGoesDown => outages' # 0  BY DEF PgGoesDown, OwnInv
    <3>2. PgComesUp => outages' # 0  BY DEF PgComesUp, OwnInv
    <3> QED  BY <2>2, <3>1, <3>2 DEF Postgres
  <2>3. CASE UNCHANGED server /\ (step' = step \/ step \notin {"down", "connecting"})
    BY <2>3 DEF OwnInv
  <2> QED
    BY <2>1, <2>2, <2>3 DEF Elsewhere, Persist, Observe, Report, Tick, ClockBack, RetryTimer,
       RetryDue, NothingLeft
<1>7. step' = "exit" => pending' = <<>> \/ outages' > 0 \/ stepsBack' > 0
  <2>1. CASE NothingLeft  BY <2>1 DEF NothingLeft
  <2>2. CASE step' = step /\ pending' = pending
    <3>1. outages > 0 => outages' > 0  BY <1>5 DEF OwnInv
    <3>2. stepsBack > 0 => stepsBack' > 0
      BY DEF Elsewhere, ConnectPg, Persist, Observe, Report, Tick, ClockBack, RetryTimer,
             Postgres, NothingLeft, Advance, StepBack, StatsInv, TypeInv
    <3> QED  BY <2>2, <3>1, <3>2 DEF OwnInv
  <2>3. CASE step' # "exit"  BY <2>3
  <2> QED
    BY <2>1, <2>2, <2>3 DEF Elsewhere, ConnectPg, Connect, Persist, Observe, Report, Tick,
       ClockBack, RetryTimer, RetryDue, Postgres, PgGoesDown, PgComesUp
<1>8. step' \in {"down", "connecting"} => route_data' = {}
  <2>1. step' \in {"down", "connecting"} => step = step' \/ step = "connecting"
    BY DEF Elsewhere, ConnectPg, Connect, Persist, Observe, Report, Tick, ClockBack, RetryTimer,
           RetryDue, Postgres, PgGoesDown, PgComesUp, NothingLeft
  <2> QED  BY <1>1, <2>1 DEF OwnInv
<1> QED  BY <1>1, <1>2, <1>3, <1>4, <1>5, <1>6, <1>7, <1>8 DEF OwnInv

\* A new process has lost nothing yet.
LEMMA OwnStart == ASSUME StatsInv, OwnInv, Start PROVE OwnInv'
<1> USE DEF clockVars, accumulator, buffer, server, stored
<1>1. /\ step = "down" /\ step' = "connecting" /\ process' = process + 1 /\ process \in Nat
      /\ UNCHANGED <<now, stepsBack, accumulator, buffer, server, stored>>
  BY DEF Start, StatsInv, TypeInv
<1>2. route_data' = {} /\ AllRows' = AllRows  BY <1>1 DEF AllRows, Buffered, OwnInv
<1> QED  BY <1>1, <1>2 DEF OwnInv

\* accumulate(): what is counted carries the process that counts it.
LEMMA OwnCount == ASSUME StatsInv, OwnInv, Count PROVE OwnInv'
<1> USE DEF clockVars, life, buffer, server
<1>1. /\ step = "accumulate" /\ step' = "flush"
      /\ route_data' = route_data \cup ItemsOf(result.results)
      /\ UNCHANGED <<clockVars, life, buffer, server, table, excused>>
  BY DEF Count, Accumulate
<1>2. AllRows' = AllRows  BY <1>1 DEF AllRows, Buffered
<1>3. \A i \in ItemsOf(result.results) : i.by = process  BY DEF ItemsOf
<1>4. Running  BY <1>1 DEF Running, CallbackSteps
<1> QED  BY <1>1, <1>2, <1>3, <1>4 DEF OwnInv

\* Rows that are made, moved or cleared keep their process.
LEMMA OwnRows ==
    ASSUME StatsInv, OwnInv, UNCHANGED clockVars,
           \/ MaybeFlush \/ Handover \/ Clear
           \/ FlushRemaining \/ ForcedClear \/ LastClear
    PROVE  OwnInv'
<1> USE DEF clockVars, life, server, stored, accumulator
<1>1. /\ UNCHANGED <<process, stepsBack, conn, pgUp, outages, table, excused>>
      /\ step \notin {"down", "connecting"} /\ step' \notin {"down", "connecting"}
      /\ route_data' = route_data \/ route_data' = {}
      /\ Running' => Running
      /\ step' = "exit" => pending' = <<>>
  BY DEF MaybeFlush, RecordHour, SameHour, HourChanged, Handover, Clear, FlushRemaining,
         ForcedClear, LastClear, ClearBuffer, Running, CallbackSteps
<1>2. \A row \in AllRows' : \A i \in row.items : i.by = row.by
  <2>1. \A hour : \A row \in RowsFor(hour) : \A i \in row.items : i.by = row.by
    <3>1. \A hour : \A row \in RowsFor(hour) :
              row.by = process /\ row.items \subseteq route_data
      BY RowsOfAnHour DEF StatsInv, TypeInv
    <3> QED  BY <3>1 DEF OwnInv
  <2>2. CASE MaybeFlush
    <3>1. Buffered' = Buffered /\ table' = table  BY <2>2 DEF MaybeFlush, Buffered
    <3>2. handed' = handed \/ handed' = RowsFor(currentHour)
      BY <2>2 DEF MaybeFlush, RecordHour, SameHour, HourChanged
    <3> QED  BY <2>1, <3>1, <3>2 DEF OwnInv, AllRows
  <2>3. CASE Handover
    <3>1. CASE handed # {}
      <4>1. IsFiniteSet(handed) /\ pending' = pending \o AsSequence(handed) /\ handed' = {}
        BY <2>3, <3>1 DEF Handover, StatsInv, StageInv
      <4>2. Buffered' = Buffered \cup handed  BY <4>1, BufferExtended
      <4> QED  BY <1>1, <4>1, <4>2 DEF OwnInv, AllRows
    <3>2. CASE handed = {}
      <4>1. \/ pending' = pending /\ handed' = handed
            \/ pending' = pending \o AsSequence(handed) /\ handed' = {}
        BY <2>3, <3>2 DEF Handover
      <4>2. IsFiniteSet(handed)  BY <3>2, FS_EmptySet
      <4>3. Buffered' \subseteq Buffered \cup handed
        <5>1. CASE pending' = pending  BY <5>1 DEF Buffered
        <5>2. CASE pending' = pending \o AsSequence(handed)  BY <4>2, <5>2, BufferExtended
        <5> QED  BY <4>1, <5>1, <5>2
      <4> QED  BY <1>1, <3>2, <4>1, <4>3 DEF OwnInv, AllRows
    <3> QED  BY <3>1, <3>2
  <2>4. CASE Clear \/ ForcedClear \/ LastClear
    <3>1. pending' = <<>> /\ handed' = handed
      BY <2>4 DEF Clear, ForcedClear, LastClear, ClearBuffer
    <3>2. Buffered' = {}  BY <3>1 DEF Buffered
    <3> QED  BY <1>1, <3>1, <3>2 DEF OwnInv, AllRows
  <2>5. CASE FlushRemaining
    <3> DEFINE rows == IF currentHour = NoHour THEN {} ELSE RowsFor(currentHour)
    <3>1. pending' = pending \o AsSequence(rows) /\ handed' = handed  BY <2>5 DEF FlushRemaining
    <3>2. IsFiniteSet(rows)  BY FS_EmptySet, RowsOfAnHour DEF StatsInv, TypeInv
    <3>3. \A row \in rows : \A i \in row.items : i.by = row.by  BY <2>1
    <3> HIDE DEF rows
    <3>4. Buffered' = Buffered \cup rows  BY <3>1, <3>2, BufferExtended
    <3> QED  BY <1>1, <3>1, <3>3, <3>4 DEF OwnInv, AllRows
  <2> QED  BY <2>2, <2>3, <2>4, <2>5
<1>3. \A i \in route_data' : i.by = process'  BY <1>1 DEF OwnInv
<1> QED  BY <1>1, <1>2, <1>3 DEF OwnInv

\* An attempt at writing the buffer fails only without a connection or with a poisoned
\* buffer; a process loses none of its own items to it unless the clock was stepped back.
LEMMA OwnAttempt ==
    ASSUME StatsInv, OwnInv, UNCHANGED clockVars,
           \/ step = "upsert" /\ Attempt("clear", "idle")
           \/ step = "forced" /\ Attempt("forcedClear", "last")
           \/ step = "last" /\ Attempt("lastClear", "exit")
    PROVE  OwnInv'
<1> USE DEF clockVars, life, accumulator
<1>1. /\ UNCHANGED <<process, stepsBack, route_data, handed, pending>>
      /\ step \notin {"down", "connecting"} /\ step' \notin {"down", "connecting"}
      /\ Running' => Running
      /\ step' = "exit" => AttemptFails \/ CommitUnacknowledged
      /\ AttemptSucceeds \/ AttemptFails \/ CommitUnacknowledged
  BY DEF Attempt, Running, CallbackSteps
<1>2. UNCHANGED <<table, excused>> \/ Stored
  BY <1>1 DEF AttemptSucceeds, AttemptFails, CommitUnacknowledged
<1>3. AllRows' \subseteq AllRows
  BY <1>1, <1>2 DEF Stored, Merged, AllRows, Buffered
<1>4. \A i \in excused' : \/ i \in excused
                          \/ /\ i.by \in Nat /\ i.by <= process
                             /\ i.by # process \/ stepsBack > 0
  <2>1. CASE Stored
    <3>1. ASSUME NEW x \in Replaced, NEW i \in x.items
          PROVE  i.by = x.by /\ x.by \in Nat /\ x.by <= process
      BY <3>1 DEF Replaced, AllRows, StatsInv, TypeInv, OwnInv
    <3> QED  BY <2>1, <3>1 DEF Stored
  <2> QED  BY <1>2, <2>1
<1>5. outages' \in Nat /\ (outages' = 0 => outages = 0 /\ pgUp' /\ conn')
  <2>1. CASE AttemptSucceeds  BY <1>1, <2>1 DEF AttemptSucceeds, OwnInv
  <2>2. CASE AttemptFails  BY <1>1, <2>2 DEF AttemptFails, Reconnect, OwnInv
  <2>3. CASE CommitUnacknowledged  BY <2>3 DEF CommitUnacknowledged, OwnInv
  <2> QED  BY <1>1, <2>1, <2>2, <2>3
<1>6. step' = "exit" => outages' > 0 \/ stepsBack > 0
  <2>1. CASE AttemptFails
    <3>1. ~conn => outages > 0  BY <1>1 DEF OwnInv
    <3>2. Poisoned => stepsBack > 0  BY PoisonIsClocks DEF PoisonNeedsClockBack
    <3> QED  BY <2>1, <3>1, <3>2 DEF AttemptFails
  <2>2. CASE CommitUnacknowledged  BY <2>2 DEF CommitUnacknowledged, OwnInv
  <2> QED  BY <1>1, <2>1, <2>2
<1>7. \A row \in AllRows' : \A i \in row.items : i.by = row.by  BY <1>3 DEF OwnInv
<1>8. \A i \in excused' : i.by \in Nat /\ i.by <= process'  BY <1>1, <1>4 DEF OwnInv
<1>9. (Running' \/ step' = "connecting") /\ stepsBack' = 0 => \A i \in excused' : i.by # process'
  BY <1>1, <1>4 DEF OwnInv
<1> QED  BY <1>1, <1>5, <1>6, <1>7, <1>8, <1>9 DEF OwnInv

\* A process that ends takes its own items with it.
LEMMA OwnEnd ==
    ASSUME StatsInv, OwnInv,
           \/ Signal \/ Killed
           \/ Exit /\ UNCHANGED <<clockVars, alerterVars, result, status, lost>>
    PROVE  OwnInv'
<1> USE DEF clockVars, life, stored, accumulator, server, buffer
<1>1. /\ UNCHANGED <<process, stepsBack, outages, pgUp, table>> /\ handed' = {}
      /\ excused' \subseteq excused \cup InBuffer \cup InHand \cup route_data
  BY DEF Signal, Interrupt, Killed, Kill, Exit, Forget
<1>2. \/ step' = "stopping" /\ UNCHANGED <<pending, route_data, conn>>
            /\ step \notin {"down", "connecting"}
      \/ step' = "down" /\ pending' = <<>> /\ route_data' = {}
  BY DEF Signal, Interrupt, Running, CallbackSteps, Killed, Kill, Exit, Forget
<1>3. AllRows' \subseteq AllRows  BY <1>1, <1>2 DEF AllRows, Buffered
<1>4. \A i \in excused' : i.by \in Nat /\ i.by <= process'
  <2>1. \A row \in AllRows : \A i \in row.items : i.by \in Nat /\ i.by <= process
    BY DEF StatsInv, TypeInv, OwnInv
  <2>2. \A i \in route_data : i.by \in Nat /\ i.by <= process
    BY DEF StatsInv, TypeInv, OwnInv
  <2> QED  BY <1>1, <2>1, <2>2 DEF InBuffer, InHand, AllRows, OwnInv
<1>5. ~Running' /\ step' \notin {"connecting", "exit"}
  BY <1>2 DEF Running, CallbackSteps
<1> QED  BY <1>1, <1>2, <1>3, <1>4, <1>5 DEF OwnInv

LEMMA OwnInitially == Init => OwnInv
BY DEF Init, StatsInit, ClockInit, OwnInv, AllRows, Buffered, Running, CallbackSteps

LEMMA OwnKeeps == ASSUME StatsInv, OwnInv, [Next]_vars PROVE OwnInv'
<1>1. CASE Elsewhere  BY <1>1, OwnElsewhere
<1>2. CASE Start  BY <1>2, OwnStart
<1>3. CASE Count  BY <1>3, OwnCount
<1>4. CASE Flush
  <2>1. UNCHANGED clockVars  BY <1>4 DEF Flush
  <2>2. CASE MaybeFlush \/ Handover \/ Clear  BY <2>1, <2>2, OwnRows
  <2>3. CASE Upsert  BY <2>1, <2>3, OwnAttempt DEF Upsert
  <2> QED  BY <1>4, <2>2, <2>3 DEF Flush
<1>5. CASE Finally
  <2>1. UNCHANGED <<clockVars, alerterVars, result, status, lost>>  BY <1>5 DEF Finally
  <2>2. CASE FlushRemaining \/ ForcedClear \/ LastClear  BY <2>1, <2>2, OwnRows
  <2>3. CASE ForcedFlush \/ LastFlush
    BY <2>1, <2>3, OwnAttempt DEF ForcedFlush, LastFlush
  <2>4. CASE NothingLeft  BY <2>1, <2>4, OwnElsewhere DEF Elsewhere
  <2>5. CASE Exit  BY <2>1, <2>5, OwnEnd
  <2> QED  BY <1>5, <2>2, <2>3, <2>4, <2>5 DEF Finally, Shutdown
<1>6. CASE Signal \/ Killed  BY <1>6, OwnEnd
<1> QED
  BY <1>1, <1>2, <1>3, <1>4, <1>5, <1>6 DEF Next, Callback, Environment, Elsewhere

-----------------------------------------------------------------------------
\* The invariants hold through every callback, shutdown, kill and outage.
THEOREM StatsInvariant == Spec => [](StatsInv /\ OwnInv)
<1>1. ASSUME StatsInv, OwnInv, [Next]_vars PROVE StatsInv'
  <2>1. CASE Elsewhere  BY <1>1, <2>1, ElsewhereKeeps
  <2>2. CASE Start  BY <1>1, <2>2, StartKeeps
  <2>3. CASE Count  BY <1>1, <2>3, CountKeeps
  <2>4. CASE Flush
    <3>1. UNCHANGED <<clockVars, result>>  BY <2>4 DEF Flush
    <3>2. CASE MaybeFlush
      BY <1>1, <3>1, <3>2, SameHourKeeps, NewHourKeeps DEF MaybeFlush
    <3>3. CASE Handover  BY <1>1, <3>1, <3>3, HandoverKeeps
    <3>4. CASE Upsert  BY <1>1, <3>1, <3>4, AttemptKeeps DEF Upsert
    <3>5. CASE Clear  BY <1>1, <3>1, <3>5, ClearKeeps
    <3> QED  BY <2>4, <3>2, <3>3, <3>4, <3>5 DEF Flush
  <2>5. CASE Finally
    <3>1. UNCHANGED <<clockVars, alerterVars, result, status, lost>>  BY <2>5 DEF Finally
    <3>2. CASE FlushRemaining  BY <1>1, <3>1, <3>2, FlushRemainingKeeps
    <3>3. CASE ForcedFlush  BY <1>1, <3>1, <3>3, AttemptKeeps DEF ForcedFlush
    <3>4. CASE LastFlush  BY <1>1, <3>1, <3>4, AttemptKeeps DEF LastFlush
    <3>5. CASE ForcedClear \/ LastClear  BY <1>1, <3>1, <3>5, ClearKeeps
    <3>6. CASE NothingLeft  BY <1>1, <3>1, <3>6, ElsewhereKeeps DEF Elsewhere
    <3>7. CASE Exit  BY <1>1, <3>1, <3>7, EndKeeps
    <3> QED  BY <2>5, <3>2, <3>3, <3>4, <3>5, <3>6, <3>7 DEF Finally, Shutdown
  <2>6. CASE Signal \/ Killed  BY <1>1, <2>6, EndKeeps
  <2> QED
    BY <1>1, <2>1, <2>2, <2>3, <2>4, <2>5, <2>6 DEF Next, Callback, Environment, Elsewhere
<1>2. StatsInv /\ OwnInv /\ [Next]_vars => (StatsInv /\ OwnInv)'  BY <1>1, OwnKeeps
<1> QED  BY StatsInitially, OwnInitially, <1>2, PTL DEF Spec

\* Every result that was counted is in the hour being accumulated, on its way, or in a row
\* of route_hourly_stats, or it has one of the excuses the code accepts.
THEOREM NoItemIsLost == Spec => []NoItemLost
<1>1. StatsInv /\ OwnInv => NoItemLost
  BY DEF NoItemLost, LossesExcused, OwnItemsKept, StatsInv, OwnInv
<1> QED  BY StatsInvariant, <1>1, PTL

\* No result is counted in two rows, nor in a row and the hour being accumulated.
THEOREM ItemsAreCountedOnce == Spec => []CountedOnce
<1>1. StatsInv => CountedOnce  BY DEF StatsInv
<1> QED  BY StatsInvariant, <1>1, PTL

\* The upsert that PostgreSQL refuses for good, two rows of one key, needs a clock that was
\* stepped back.
THEOREM PoisonIsTheClocks == Spec => []PoisonNeedsClockBack
<1> QED  BY StatsInvariant, PoisonIsClocks, PTL

-----------------------------------------------------------------------------
(***************************************************************************)
(* The alerter.                                                            *)
(***************************************************************************)
\* The alerter's state changes when a window is observed and when a process starts.
LEMMA AlerterSteps ==
    ASSUME [Next]_vars
    PROVE  \/ \E counts \in VolumeCounts, arrives \in Delivered :
                 ObserveWindow(result.matching, counts, arrives)
           \/ ForgetAlerts
           \/ UNCHANGED alerterVars
BY DEF Next, Start, ConnectPg, Callback, Persist, Observe, Report, Count, Flush, Finally,
       Environment, Tick, ClockBack, RetryTimer, Signal, Killed, Postgres, vars

JudgedInv ==
    /\ judged \in Seq(Nat) /\ alertHour \in Nat \cup {NoAlertHour}
    /\ HoursJudgedInOrder

\* Within a process every hour is judged at most once, in order, and not before it is over,
\* however often the clock is stepped back.
THEOREM HoursAreJudgedInOrder == Spec => []HoursJudgedInOrder
<1>1. Init => JudgedInv
  BY DEF Init, AlerterInit, JudgedInv, HoursJudgedInOrder
<1>2. ASSUME StatsInv, JudgedInv, [Next]_vars PROVE JudgedInv'
  <2>1. HourOf(now) \in Nat  BY <1>2, HourGrows DEF StatsInv, TypeInv
  <2>2. CASE UNCHANGED <<judged, alertHour>>
    BY <1>2, <2>2 DEF JudgedInv, HoursJudgedInOrder
  <2>3. CASE ForgetAlerts
    BY <2>3 DEF ForgetAlerts, JudgedInv, HoursJudgedInOrder
  <2>4. CASE ClosesHour /\ judged' = Append(judged, alertHour) /\ alertHour' = HourOf(now)
    <3>1. alertHour \in Nat /\ alertHour < HourOf(now)
      BY <1>2, <2>1, <2>4 DEF ClosesHour, JudgedInv
    <3>2. judged' \in Seq(Nat) /\ Len(judged') = Len(judged) + 1
          /\ judged'[Len(judged) + 1] = alertHour
          /\ \A n \in 1 .. Len(judged) : judged'[n] = judged[n] /\ judged[n] \in Nat
      BY <1>2, <2>4, <3>1 DEF JudgedInv
    <3>3. DOMAIN judged = 1 .. Len(judged) /\ DOMAIN judged' = 1 .. Len(judged) + 1
          /\ Len(judged) \in Nat
      BY <1>2, <3>2 DEF JudgedInv
    <3>4. \A n \in 1 .. Len(judged) : judged[n] < alertHour
      BY <1>2, <3>3 DEF JudgedInv, HoursJudgedInOrder
    <3>5. \A m, n \in 1 .. Len(judged) : m < n => judged[m] < judged[n]
      BY <1>2, <3>3 DEF JudgedInv, HoursJudgedInOrder
    <3>6. \A n \in DOMAIN judged' : judged'[n] < alertHour'
      BY <2>1, <2>4, <3>1, <3>2, <3>3, <3>4
    <3>7. \A m, n \in DOMAIN judged' : m < n => judged'[m] < judged'[n]
      BY <3>2, <3>3, <3>4, <3>5
    <3> QED  BY <2>1, <2>4, <3>2, <3>6, <3>7 DEF JudgedInv, HoursJudgedInOrder
  <2>5. CASE alertHour = NoAlertHour /\ judged' = judged /\ alertHour' = HourOf(now)
    <3>1. judged = <<>>
      BY <1>2, <2>5 DEF JudgedInv, HoursJudgedInOrder, NoAlertHour
    <3> QED  BY <2>1, <2>5, <3>1 DEF JudgedInv, HoursJudgedInOrder
  <2> QED
    BY <1>2, <2>2, <2>3, <2>4, <2>5, AlerterSteps
       DEF ObserveWindow, MaybeCloseHour, ClosesHour, alerterVars
<1>3. JudgedInv => HoursJudgedInOrder  BY DEF JudgedInv
<1> QED  BY <1>1, <1>2, <1>3, StatsInvariant, PTL DEF Spec

\* A check that is down while nothing alerts has a reason to go up.
EarnedInv == check = "down" /\ ~Alerting => cleared \/ forgotten

\* An alert only ends, within a process, by data that are good again.
LEMMA AlertEndsByData ==
    ASSUME NEW counts, NEW arrives, ObserveWindow(result.matching, counts, arrives),
           Alerting, ~Alerting'
    PROVE  GoodAgain(counts)
<1>1. ratioAlert' = EvaluateRatioRule(samples')
  BY DEF ObserveWindow
<1>2. CASE ratioAlert
  <2>1. ~EvaluateRatioRule(samples')  BY <1>1 DEF Alerting
  <2> QED  BY <1>2, <2>1 DEF EvaluateRatioRule, GoodAgain
<1>3. CASE volumeAlert
  <2>1. volumeAlert' = (IF ClosesHour THEN EvaluateVolumeRule(counts) ELSE volumeAlert)
    BY DEF ObserveWindow, MaybeCloseHour
  <2>2. ClosesHour /\ ~EvaluateVolumeRule(counts)  BY <1>3, <2>1 DEF Alerting
  <2> QED  BY <1>3, <2>2 DEF EvaluateVolumeRule, GoodAgain
<1> QED  BY <1>2, <1>3 DEF Alerting

\* The check never turns green by itself.
THEOREM GreenNeedsAReason == Spec => GreenIsEarned
<1>1. Init => EarnedInv  BY DEF Init, AlerterInit, EarnedInv
<1>2. ASSUME EarnedInv, [Next]_vars
      PROVE  EarnedInv' /\ (check = "down" /\ check' = "up" => cleared' \/ forgotten')
  <2>1. CASE UNCHANGED alerterVars
    BY <1>2, <2>1 DEF alerterVars, EarnedInv, Alerting
  <2>2. CASE ForgetAlerts
    BY <1>2, <2>2 DEF ForgetAlerts, EarnedInv, Alerting
  <2>3. ASSUME NEW counts \in VolumeCounts, NEW arrives \in Delivered,
               ObserveWindow(result.matching, counts, arrives)
        PROVE  EarnedInv' /\ (check = "down" /\ check' = "up" => cleared' \/ forgotten')
    <3>1. /\ cleared' = (~(arrives /\ Alerting') /\ (cleared \/ GoodAgain(counts)))
          /\ forgotten' = (~(arrives /\ Alerting') /\ forgotten)
          /\ check' = IF ~arrives THEN check ELSE IF Alerting' THEN "down" ELSE "up"
      BY <2>3 DEF ObserveWindow, PingState
    <3>2. CASE Alerting'  BY <3>1, <3>2 DEF EarnedInv
    <3>3. CASE ~Alerting' /\ check = "down"
      <4>1. cleared \/ forgotten \/ GoodAgain(counts)
        BY <1>2, <2>3, <3>3, AlertEndsByData DEF EarnedInv
      <4> QED  BY <3>1, <3>3, <4>1 DEF EarnedInv
    <3>4. CASE ~Alerting' /\ check # "down"
      BY <3>1, <3>4 DEF EarnedInv
    <3> QED  BY <3>2, <3>3, <3>4
  <2> QED  BY <1>2, <2>1, <2>2, <2>3, AlerterSteps
<1>3. ASSUME EarnedInv, [Next]_vars
      PROVE  [check = "down" /\ check' = "up" => cleared' \/ forgotten']_alerterVars
  BY <1>2, <1>3
<1> QED  BY <1>1, <1>2, <1>3, PTL DEF Spec, GreenIsEarned
===============================================================================
