----------------------- MODULE BacktestHistoryProofs -----------------------
(***************************************************************************)
(* From the pages of the API to the rows of a report, for every grid of    *)
(* candles, page size, number of pages and retries, and every range and    *)
(* threshold: a window that was fetched has no hole, what is stored of it  *)
(* keeps the growth since its first candle, and the rows of a replay or a  *)
(* simulation are what the run was worth at the end of each day.           *)
(***************************************************************************)
EXTENDS BacktestHistory, SharedLemmas

-----------------------------------------------------------------------------
(* The grid.                                                                *)

(* The time before a candle is none of a candle. *)
LEMMA NoneBetween ==
    ASSUME NEW t \in Int, t % Step = 0
    PROVE  (t - 1) % Step # 0
<1>0. Step \in Nat \ {0} /\ Step > 1
  BY CandleAssumption
<1>1. PICK k \in Int : t = Step * k
  BY <1>0, Multiple
<1>2. ASSUME (t - 1) % Step = 0 PROVE FALSE
  <2>1. t - 1 \in Int
    OBVIOUS
  <2>2. PICK l \in Int : t - 1 = Step * l
    BY <1>0, <1>2, <2>1, Multiple
  <2>3. Step * (k - l) = 1 /\ k - l \in Int
    BY <1>0, <1>1, <2>2
  <2>4. CASE k - l <= 0
    BY <1>0, <2>3, <2>4
  <2>5. CASE k - l >= 1
    BY <1>0, <2>3, <2>5
  <2>. QED
    BY <2>3, <2>4, <2>5
<1>. QED
  BY <1>2

(* The grid goes on to its last time. *)
LEMMA NextOnGrid ==
    ASSUME NEW t \in Int, t % Step = 0, t < LastTime
    PROVE  (t + Step) % Step = 0 /\ t + Step <= LastTime /\ t + Step \in Int
<1>0. Step \in Nat \ {0} /\ LastTime \in Int /\ LastTime % Step = 0
  BY CandleAssumption
<1>1. PICK k \in Int : t = Step * k
  BY <1>0, Multiple
<1>2. PICK l \in Int : LastTime = Step * l
  BY <1>0, Multiple
<1>3. t + Step = Step * (k + 1) /\ t + Step \in Int /\ k + 1 \in Int
  BY <1>0, <1>1
<1>4. (Step * (k + 1)) % Step = 0
  BY <1>0, <1>3, Multiple
<1>5. l >= k + 1
  <2>1. CASE l <= k
    <3>1. Step * l <= Step * k
      BY <1>0, <2>1
    <3>. QED
      BY <1>0, <1>1, <1>2, <3>1
  <2>. QED
    BY <2>1
<1>6. Step * (k + 1) <= Step * l
  BY <1>0, <1>5
<1>7. t + Step <= LastTime
  BY <1>2, <1>3, <1>6
<1>8. (t + Step) % Step = 0
  BY <1>3, <1>4
<1>. QED
  BY <1>3, <1>7, <1>8

(* There are finitely many candles, and they have times of the grid. *)
LEMMA CandlesAre ==
    ASSUME CandleTypeOK
    PROVE  /\ IsFiniteSet(DOMAIN candles) /\ DOMAIN candles \subseteq Int
           /\ \A t \in DOMAIN candles : t - 1 \notin DOMAIN candles
           /\ \A T : T \subseteq DOMAIN candles => IsFiniteSet(T) /\ T \subseteq Int
<1>1. clock \in Int /\ DOMAIN candles \subseteq FirstTime..clock
  BY CandleAssumption DEF CandleTypeOK
<1>2. IsFiniteSet(FirstTime..clock) /\ FirstTime..clock \subseteq Int
  BY <1>1, CandleAssumption, FS_Interval
<1>3. IsFiniteSet(DOMAIN candles) /\ DOMAIN candles \subseteq Int
  BY <1>1, <1>2, FS_Subset
<1>4. \A t \in DOMAIN candles : t % Step = 0
  BY DEF CandleTypeOK
<1>. QED
  BY <1>3, <1>4, NoneBetween, FS_Subset

-----------------------------------------------------------------------------
(* Pages.                                                                   *)

(* A page is a set of candles without a hole, up to the cursor; and it is    *)
(* empty only when there is no candle before the cursor.                    *)
LEMMA PageWhole ==
    ASSUME CandleTypeOK, NEW cursor \in Int, NEW inclusive \in BOOLEAN,
           NEW size \in Nat \ {0}
    PROVE  LET page == Page(cursor, inclusive, size)
           IN  /\ page \subseteq {t \in DOMAIN candles : t <= cursor}
               /\ \A t \in DOMAIN candles : t < cursor =>
                     (page # {} /\ (t \in page \/ t < Min(page)))
               /\ NoHole(page)
<1> DEFINE older == {t \in DOMAIN candles : t < cursor \/ (inclusive /\ t = cursor)}
           Newer(t) == {u \in older : u > t}
           page == Page(cursor, inclusive, size)
<1>1. IsFiniteSet(older) /\ older \subseteq Int
  BY CandlesAre
<1>2. page = {t \in older : Cardinality(Newer(t)) < size}
  BY DEF Page
<1>3. ASSUME NEW t \in older PROVE IsFiniteSet(Newer(t)) /\ Cardinality(Newer(t)) \in Nat
  BY <1>1, FS_Subset, FS_CardinalityType
<1>4. ASSUME NEW t \in older, NEW u \in page, u <= t PROVE t \in page
  <2>1. Newer(t) \subseteq Newer(u) /\ u \in older
    BY <1>1, <1>2, <1>4
  <2> HIDE DEF Newer
  <2>2. Cardinality(Newer(t)) <= Cardinality(Newer(u))
    BY <1>3, <2>1, FS_Subset
  <2>3. Cardinality(Newer(u)) < size /\ Cardinality(Newer(u)) \in Nat
    BY <1>2, <1>3, <2>1
  <2>. QED
    BY <1>2, <1>3, <2>2, <2>3
<1>5. older # {} => page # {}
  <2>1. SUFFICES ASSUME older # {} PROVE page # {}
    OBVIOUS
  <2>2. Max(older) \in older /\ \A u \in older : u <= Max(older)
    BY <1>1, <2>1, MinAndMax
  <2>3. Newer(Max(older)) = {}
    BY <1>1, <2>2
  <2>4. Cardinality(Newer(Max(older))) = 0
    BY <2>3, FS_EmptySet
  <2>. QED
    BY <1>2, <2>2, <2>4
<1>6. page \subseteq older
  BY <1>2
<1>7. NoHole(page)
  <2>1. ASSUME NEW t \in DOMAIN candles, NEW u \in page, NEW v \in page, u <= t, t <= v
        PROVE  t \in page
    <3>1. t \in older
      BY <1>1, <1>6, <2>1, CandlesAre
    <3>. QED
      BY <1>4, <2>1, <3>1
  <2> HIDE DEF page
  <2>. QED
    BY <2>1 DEF NoHole
<1>8. ASSUME NEW t \in DOMAIN candles, t < cursor
      PROVE  page # {} /\ (t \in page \/ t < Min(page))
  <2>1. t \in older /\ page # {}
    BY <1>5, <1>8
  <2>2. IsFiniteSet(page) /\ page \subseteq Int
    BY <1>1, <1>6, FS_Subset
  <2> HIDE DEF page, older
  <2>3. Min(page) \in page
    BY <2>1, <2>2, MinAndMax
  <2>4. t \in Int
    BY <1>1, <2>1
  <2>5. Min(page) <= t => t \in page
    BY <1>4, <2>1, <2>3
  <2>6. Min(page) \in Int
    BY <2>2, <2>3
  <2>7. Min(page) <= t \/ t < Min(page)
    BY <2>4, <2>6
  <2>8. page # {}
    BY <2>1
  <2>. QED
    BY <2>5, <2>7, <2>8
<1>9. \A t \in older : t <= cursor
  BY <1>1
<1>10. older \subseteq DOMAIN candles
  OBVIOUS
<1>. QED
  BY <1>6, <1>7, <1>8, <1>9, <1>10

(* How a page changes the fetch, by its types. *)
LEMMA JobChanges ==
    ASSUME NEW j \in Job, NEW page \in 0..MaxPages, NEW all \in SUBSET Int, NEW cursor \in Int,
           NEW phase \in {"fetching", "fetched"}
    PROVE  [j EXCEPT !.phase = phase, !.all = all, !.page = page, !.retries = 0,
                     !.cursor = cursor] \in Job
<1> DEFINE j1 == [j EXCEPT !.phase = phase, !.all = all]
           j2 == [j1 EXCEPT !.page = page, !.retries = 0, !.cursor = cursor]
<1>0. 0 \in 0..MaxRetries
  BY CandleAssumption
<1>1. j1 \in Job
  BY DEF Job
<1>2. j2 \in Job
  <2> HIDE DEF j1
  <2>. QED
    BY <1>0, <1>1 DEF Job
<1>3. [j EXCEPT !.phase = phase, !.all = all, !.page = page, !.retries = 0, !.cursor = cursor] = j2
  OBVIOUS
<1>. QED
  BY <1>2, <1>3, Zenon

(* A page that arrives leaves no hole between the pages, or ends the fetch    *)
(* with what lies in the window.                                            *)
LEMMA PageStep ==
    ASSUME CandleTypeOK, PagesMeet, PageArrives
    PROVE  (CandleTypeOK /\ PagesMeet /\ WindowWhole)'
<1>0. /\ job.phase = "fetching" /\ job.page < MaxPages /\ job.page \in Nat /\ job.cursor \in Int
      /\ job.from \in Int /\ job.to \in Int /\ job.all \subseteq DOMAIN candles
      /\ MaxPages \in Nat /\ NoHole(job.all)
      /\ job.all # {} => job.cursor = Min(job.all) - 1
      /\ UNCHANGED <<clock, candles, db, backfills, firsts>>
  BY CandleAssumption DEF CandleTypeOK, Job, PagesMeet, PageArrives
<1>1. PICK inclusive \in BOOLEAN, size \in 1..PageLimit :
        LET batch == Page(job.cursor, inclusive, size)
            all == job.all \cup batch
            over == batch = {} \/ Min(batch) <= job.from \/ job.page = MaxPages - 1
        IN  job' = IF over
                   THEN [job EXCEPT !.phase = "fetched", !.all = Kept(all),
                                    !.page = @ + 1, !.retries = 0, !.cursor = 0]
                   ELSE [job EXCEPT !.all = all, !.page = @ + 1, !.retries = 0,
                                    !.cursor = CursorBefore(Min(batch))]
  BY DEF PageArrives
<1> DEFINE batch == Page(job.cursor, inclusive, size)
           all == job.all \cup batch
           over == batch = {} \/ Min(batch) <= job.from \/ job.page = MaxPages - 1
           first == Min(job.all)
           kept == Kept(all)
           wide == {t \in DOMAIN candles : job.from <= t /\ t < job.to}
<1>2. job' = IF over
             THEN [job EXCEPT !.phase = "fetched", !.all = kept,
                              !.page = @ + 1, !.retries = 0, !.cursor = 0]
             ELSE [job EXCEPT !.all = all, !.page = @ + 1, !.retries = 0,
                              !.cursor = CursorBefore(Min(batch))]
  BY <1>1
<1>3. /\ batch \subseteq DOMAIN candles /\ \A t \in batch : t <= job.cursor
      /\ \A t \in DOMAIN candles : t < job.cursor =>
            (batch # {} /\ (t \in batch \/ t < Min(batch)))
      /\ NoHole(batch)
  <2>1. size \in Nat \ {0}
    BY CandleAssumption
  <2>. QED
    BY <1>0, <2>1, PageWhole
<1> HIDE DEF batch
<1>4. /\ \A T : T \subseteq DOMAIN candles => IsFiniteSet(T) /\ T \subseteq Int
      /\ \A t \in DOMAIN candles : t \in Int /\ t - 1 \notin DOMAIN candles
  BY CandlesAre
<1>5. job.all # {} => first \in job.all /\ \A t \in job.all : first <= t
  BY <1>0, <1>4, MinAndMax
<1>6. batch # {} => Min(batch) \in batch /\ Min(batch) \in Int /\ \A t \in batch : Min(batch) <= t
  BY <1>3, <1>4, MinAndMax
<1> HIDE DEF first
<1>7. ASSUME job.all # {}, NEW t \in DOMAIN candles, t < first
      PROVE  t < job.cursor /\ job.cursor < first
  <2>1. first \in DOMAIN candles /\ first \in Int /\ t \in Int
    BY <1>0, <1>4, <1>5, <1>7
  <2>2. t # first - 1
    BY <1>4, <1>7, <2>1
  <2>. QED
    BY <1>0, <1>7, <2>1, <2>2 DEF first
<1>8. ASSUME NEW t \in DOMAIN candles, NEW u \in all, NEW v \in all, u <= t, t <= v
      PROVE  t \in all
  <2>0. t \in Int /\ u \in Int /\ v \in Int /\ (job.all # {} => first \in Int)
    BY <1>0, <1>3, <1>4, <1>5, <1>8
  <2>1. CASE job.all = {}
    BY <1>3, <1>8, <2>1 DEF NoHole
  <2>2. CASE job.all # {} /\ first <= t
    <3>1. job.cursor < t
      BY <1>0, <2>0, <2>2 DEF first
    <3>2. v \in job.all
      BY <1>0, <1>3, <1>8, <2>0, <3>1
    <3>. QED
      BY <1>0, <1>5, <1>8, <2>2, <3>2 DEF NoHole
  <2>3. CASE job.all # {} /\ t < first
    <3>1. t < job.cursor /\ u \notin job.all
      BY <1>5, <1>7, <1>8, <2>0, <2>3
    <3>2. u \in batch /\ batch # {} /\ Min(batch) <= u
      BY <1>6, <1>8, <3>1
    <3>3. ~(t < Min(batch))
      BY <1>6, <1>8, <2>0, <3>2
    <3>. QED
      BY <1>3, <3>1, <3>3
  <2>. QED
    BY <2>0, <2>1, <2>2, <2>3
<1>9. all \subseteq DOMAIN candles
  BY <1>0, <1>3
<1>10. NoHole(all)
  <2> HIDE DEF all
  <2>. QED
    BY <1>8 DEF NoHole
<1>11. CASE over
  <2>1. /\ job' = [job EXCEPT !.phase = "fetched", !.all = kept,
                              !.page = @ + 1, !.retries = 0, !.cursor = 0]
        /\ job.page < MaxPages - 1 => (batch = {} \/ Min(batch) <= job.from)
    BY <1>0, <1>2, <1>11
  <2>2. /\ kept \subseteq DOMAIN candles /\ kept \subseteq wide /\ kept \subseteq all
        /\ \A t \in all : t \in wide => t \in kept
    BY <1>9 DEF Kept
  <2> HIDE DEF over, kept, all
  <2>3. CandleTypeOK'
    <3>1. job' \in Job
      <4>1. job \in Job /\ job.page + 1 \in 0..MaxPages /\ 0 \in 0..MaxRetries /\ kept \in SUBSET Int
        BY <1>0, <1>4, <2>2, CandleAssumption DEF CandleTypeOK
      <4>2. 0 \in Int /\ "fetched" \in {"fetching", "fetched"}
        OBVIOUS
      <4>3. job' = [job EXCEPT !.phase = "fetched", !.all = kept, !.page = job.page + 1,
                               !.retries = 0, !.cursor = 0]
        BY <2>1
      <4>. QED
        BY <4>1, <4>2, <4>3, JobChanges
    <3>2. job'.all = kept
      BY <2>1 DEF CandleTypeOK, Job
    <3>. QED
      BY <1>0, <2>2, <3>1, <3>2 DEF CandleTypeOK
  <2>4. NoHole(kept)
    <3>1. ASSUME NEW t \in DOMAIN candles, NEW u \in kept, NEW v \in kept, u <= t, t <= v
          PROVE  t \in kept
      <4>1. t \in all
        BY <1>10, <2>2, <3>1 DEF NoHole
      <4>2. t \in Int /\ u \in wide /\ v \in wide /\ u \in Int /\ v \in Int
        BY <1>4, <2>2
      <4>3. t \in wide
        BY <1>0, <3>1, <4>2
      <4>. QED
        BY <2>2, <4>1, <4>3
    <3>. QED
      BY <3>1 DEF NoHole
  <2>5. ASSUME kept # {}
        PROVE  kept = {t \in wide : Min(kept) <= t /\ t <= Max(kept)}
    <3>1. Min(kept) \in kept /\ Max(kept) \in kept /\ \A y \in kept : Min(kept) <= y /\ y <= Max(kept)
      BY <1>4, <2>2, <2>5, MinAndMax
    <3>2. ASSUME NEW t \in wide, Min(kept) <= t, t <= Max(kept) PROVE t \in kept
      BY <2>4, <3>1, <3>2 DEF NoHole
    <3>. QED
      BY <2>2, <3>1, <3>2
  <2>6. ASSUME kept # {}, job.page < MaxPages - 1 PROVE Min(kept) = Min(wide)
    <3> DEFINE x == Min(kept)
    <3>1. x \in kept /\ \A y \in kept : x <= y
      BY <1>4, <2>2, <2>6, MinAndMax
    <3> HIDE DEF x
    <3>2. ASSUME NEW t \in wide, t < x PROVE FALSE
      <4>1. t \in DOMAIN candles /\ t \notin all /\ x \in all /\ t \in Int /\ x \in Int /\ job.from <= t
        <5>1. t \in Int /\ x \in Int /\ ~(x <= t)
          BY <1>4, <2>2, <3>1, <3>2
        <5>. QED
          BY <2>2, <3>1, <3>2, <5>1
      <4>2. CASE batch # {}
        <5>1. Min(batch) <= job.from /\ Min(batch) \in all
          BY <1>6, <2>1, <2>6, <4>2 DEF all
        <5>2. Min(batch) <= t /\ t <= x
          BY <1>0, <1>6, <3>2, <4>1, <4>2, <5>1
        <5>. QED
          BY <1>10, <4>1, <5>1, <5>2 DEF NoHole
      <4>3. CASE batch = {}
        <5>1. job.all # {} /\ first \in all
          BY <1>5, <4>1, <4>3 DEF all
        <5>2. CASE first <= t
          BY <1>10, <3>2, <4>1, <5>1, <5>2 DEF NoHole
        <5>3. CASE t < first
          BY <1>3, <1>7, <4>1, <4>3, <5>1, <5>3
        <5>4. first \in Int
          BY <1>4, <1>9, <5>1
        <5>. QED
          BY <4>1, <5>2, <5>3, <5>4
      <4>. QED
        BY <4>2, <4>3
    <3>3. IsFiniteSet(wide) /\ wide \subseteq Int /\ x \in wide
      BY <1>4, <2>2, <3>1
    <3>4. \A t \in wide : x <= t
      BY <3>2, <3>3
    <3> HIDE DEF wide
    <3>. QED
      BY <3>3, <3>4, MinIs DEF x
  <2>7. (job.page + 1 < MaxPages) => job.page < MaxPages - 1
    BY <1>0
  <2>8. WindowWhole'
    <3>1. /\ job'.all = kept /\ job'.page = job.page + 1 /\ job'.from = job.from /\ job'.to = job.to
          /\ candles' = candles
      BY <1>0, <2>1 DEF CandleTypeOK, Job
    <3>2. {t \in DOMAIN candles' : job'.from <= t /\ t < job'.to} = wide
      BY <3>1
    <3> HIDE DEF wide
    <3>. QED
      BY <2>5, <2>6, <2>7, <3>1, <3>2 DEF WindowWhole
  <2>9. PagesMeet'
    BY <1>0, <2>1, <2>4 DEF PagesMeet, NoHole, CandleTypeOK, Job
  <2>. QED
    BY <2>3, <2>8, <2>9
<1>12. CASE ~over
  <2>1. /\ job' = [job EXCEPT !.all = all, !.page = @ + 1, !.retries = 0,
                              !.cursor = Min(batch) - 1]
        /\ batch # {} /\ job.page + 1 < MaxPages
    BY <1>0, <1>2, <1>12 DEF CursorBefore
  <2>2. Min(all) = Min(batch)
    <3>1. IsFiniteSet(all) /\ all \subseteq Int /\ Min(batch) \in all
      BY <1>4, <1>6, <1>9, <2>1
    <3>2. \A t \in all : Min(batch) <= t
      <4>1. ASSUME NEW t \in job.all PROVE Min(batch) <= t
        <5>1. job.cursor = first - 1 /\ first <= t /\ first \in Int /\ t \in Int
          BY <1>0, <1>4, <1>5 DEF first
        <5>2. Min(batch) <= job.cursor
          BY <1>3, <1>6, <2>1
        <5>. QED
          BY <1>6, <2>1, <5>1, <5>2
      <4>. QED
        BY <1>6, <2>1, <4>1
    <3> HIDE DEF all
    <3>. QED
      BY <3>1, <3>2, MinIs
  <2> HIDE DEF over, all
  <2>3. CandleTypeOK'
    <3>1. job' \in Job
      <4>1. job \in Job /\ job.page + 1 \in 0..MaxPages /\ 0 \in 0..MaxRetries /\ all \in SUBSET Int
            /\ Min(batch) - 1 \in Int
        BY <1>0, <1>4, <1>6, <1>9, <2>1, CandleAssumption DEF CandleTypeOK
      <4>. QED
        BY <2>1, <4>1 DEF Job
    <3>2. job'.all = all
      BY <2>1 DEF CandleTypeOK, Job
    <3>. QED
      BY <1>0, <1>9, <3>1, <3>2 DEF CandleTypeOK
  <2>4. job'.all = all /\ job'.phase = "fetching" /\ job'.page = job.page + 1
        /\ job'.cursor = Min(batch) - 1 /\ candles' = candles
    BY <1>0, <2>1 DEF CandleTypeOK, Job
  <2>5. PagesMeet' /\ WindowWhole'
    BY <1>10, <2>1, <2>2, <2>4 DEF PagesMeet, WindowWhole, NoHole
  <2>. QED
    BY <2>3, <2>5
<1>. QED
  BY <1>11, <1>12

-----------------------------------------------------------------------------
(* The growth that candles make.                                            *)

Traded == [t \in DOMAIN candles |-> candles[t].volume]

LEMMA VolumeIsSum ==
    ASSUME CandleTypeOK, NEW T, T \subseteq DOMAIN candles
    PROVE  /\ VolumeOf(T) = SumOf(Traded, T) /\ VolumeOf(T) \in Nat
           /\ IsFiniteSet(T) /\ \A t \in T : Traded[t] \in Volumes /\ Traded[t] \in Nat
<1>1. VolumeOf(T) = SumOf(Traded, T)
  BY Zenon DEF VolumeOf, SumOf, Traded
<1>2. IsFiniteSet(T)
  BY CandlesAre
<1>3. \A t \in T : Traded[t] \in Volumes /\ Traded[t] \in Nat
  BY CandleAssumption DEF CandleTypeOK, Traded
<1>4. SumOf(Traded, T) \in Nat
  BY <1>2, <1>3, SumOfSplit
<1>. QED
  BY <1>1, <1>2, <1>3, <1>4

(* What the growth counts are the candles up to its own; so it is the same   *)
(* after more candles have closed, and for all fetches with one beginning.  *)
GrowthOver(volume) ==
    IF GrowthOf(volume) >= Word * Word THEN Word * Word - 1 ELSE GrowthOf(volume)

LEMMA GrowthIs ==
    ASSUME CandleTypeOK, NEW all, all \subseteq DOMAIN candles, NEW t
    PROVE  /\ GrowthAt(all, t) = GrowthOver(VolumeOf({u \in all : u <= t}))
           /\ GrowthAt(all, t) \in U128
<1> DEFINE volume == VolumeOf({u \in all : u <= t})
<1>1. GrowthAt(all, t) = GrowthOver(volume)
  BY DEF GrowthAt, GrowthOver
<1>2. {u \in all : u <= t} \subseteq DOMAIN candles
  OBVIOUS
<1>3. volume \in Nat
  BY <1>2, VolumeIsSum
<1> HIDE DEF volume
<1>4. Word \div PoolLiquidity \in Nat
  <2>1. Word \in Nat /\ PoolLiquidity \in Nat \ {0}
    BY WordAssumption, CandleAssumption
  <2>. QED
    BY <2>1, DivMono
<1>5. GrowthOf(volume) \in Nat
  BY <1>3, <1>4 DEF GrowthOf
<1>6. Word * Word \in Nat \ {0}
  BY WordAssumption
<1>7. GrowthOver(volume) \in U128
  BY <1>5, <1>6 DEF GrowthOver, U128
<1>. QED
  BY <1>1, <1>7 DEF volume

GrowthCounted ==
    \A first, s : GrowthAt({u \in DOMAIN candles : first <= u}, s)
         = GrowthOver(SumOf(Traded, {u \in {v \in DOMAIN candles : first <= v} : u <= s}))

LEMMA GrowthCounts == GrowthCounted
BY Zenon DEF GrowthCounted, GrowthAt, GrowthOver, VolumeOf, SumOf, Traded

LEMMA GrowthStays ==
    ASSUME CandleTypeOK, NEW first \in Int, NEW s \in Int,
           \A t \in DOMAIN candles : t \in DOMAIN candles' /\ candles'[t] = candles[t],
           \A t \in DOMAIN candles' : t \in DOMAIN candles \/ ~(t <= s)
    PROVE  GrowthAt({u \in DOMAIN candles : first <= u}, s)'
               = GrowthAt({u \in DOMAIN candles : first <= u}, s)
<1> DEFINE T == {u \in DOMAIN candles : first <= u /\ u <= s}
<1>1. {u \in {v \in DOMAIN candles : first <= v} : u <= s} = T
  OBVIOUS
<1>2. {u \in {v \in DOMAIN candles' : first <= v} : u <= s} = T
  BY CandlesAre
<1>3. T \subseteq DOMAIN candles
  OBVIOUS
<1> HIDE DEF T
<1>4. IsFiniteSet(T) /\ \A t \in T : Traded[t] \in Int
  <2>1. IsFiniteSet(T) /\ \A t \in T : Traded[t] \in Nat
    BY <1>3, VolumeIsSum, Zenon
  <2>. QED
    BY <2>1
<1>5. \A t \in T : Traded[t] = Traded'[t]
  BY <1>3 DEF Traded
<1>6. SumOf(Traded, T) = SumOf(Traded', T)
  BY <1>4, <1>5, SumOfSame
<1>7. GrowthAt({u \in DOMAIN candles : first <= u}, s)
         = GrowthOver(SumOf(Traded, {u \in {v \in DOMAIN candles : first <= v} : u <= s}))
  BY GrowthCounts DEF GrowthCounted
<1>8. GrowthCounted'
  BY GrowthCounts, PTL
<1>9. GrowthAt({u \in DOMAIN candles : first <= u}, s)'
         = GrowthOver(SumOf(Traded', {u \in {v \in DOMAIN candles' : first <= v} : u <= s}))
  BY <1>8 DEF GrowthCounted
<1>. QED
  BY <1>9, <1>1, <1>2, <1>6, <1>7, <1>8

(* The rows made of a fetch: a baseline row, and each candle once, with the  *)
(* growth of all candles since the first.                                   *)
LEMMA RowsOf ==
    ASSUME CandleTypeOK, NEW all, all \subseteq DOMAIN candles, all # {}, NoHole(all)
    PROVE  /\ \A r \in Synthesized(all) :
                  /\ r \in TickRow /\ r.slot \in all \cup {Min(all) - 1}
                  /\ IF r.slot = Min(all) - 1 THEN BaselineRow(r, Min(all))
                     ELSE r.slot \in all /\ CandleRow(r, Min(all))
           /\ \A s \in all \cup {Min(all) - 1} : \E r \in Synthesized(all) : r.slot = s
           /\ \A r1, r2 \in Synthesized(all) : r1.slot = r2.slot => r1 = r2
<1> DEFINE first == Min(all)
           Row(slot, t, growth) == [slot |-> slot, time |-> t, price |-> candles[t].close,
                                    liquidity |-> PoolLiquidity, growth |-> growth]
<1>1. first \in all /\ \A t \in all : first <= t
  BY CandlesAre, MinAndMax
<1>2. Synthesized(all) = {Row(first - 1, first, 0)} \cup {Row(t, t, GrowthAt(all, t)) : t \in all}
  BY DEF Synthesized
<1>3. /\ \A t \in all : t \in Nat \ {0} /\ t \in DOMAIN candles /\ candles[t].close \in Closes
      /\ first - 1 \notin all
  <2>1. FirstTime > 0
    BY CandleAssumption
  <2>2. \A t \in DOMAIN candles : t \in Nat \ {0} /\ candles[t].close \in Closes
    BY <2>1, CandleAssumption DEF CandleTypeOK
  <2>3. first - 1 \notin DOMAIN candles
    BY <1>1, CandlesAre
  <2>. QED
    BY <2>2, <2>3
<1> HIDE DEF first
<1>4. 0 \in U128 /\ PoolLiquidity \in {0, PoolLiquidity}
  <2>1. Word * Word \in Nat \ {0}
    BY WordAssumption
  <2>. QED
    BY <2>1 DEF U128
<1>5. ASSUME NEW t \in all
      PROVE  /\ GrowthAt(all, t) \in U128
             /\ GrowthAt(all, t) = GrowthAt({u \in DOMAIN candles : first <= u}, t)
  <2>1. {u \in all : u <= t} = {u \in {v \in DOMAIN candles : first <= v} : u <= t}
    BY <1>1, <1>5 DEF NoHole
  <2>2. {v \in DOMAIN candles : first <= v} \subseteq DOMAIN candles
    OBVIOUS
  <2>3. GrowthAt(all, t) = GrowthOver(VolumeOf({u \in all : u <= t})) /\ GrowthAt(all, t) \in U128
    BY GrowthIs
  <2>4. GrowthAt({u \in DOMAIN candles : first <= u}, t)
           = GrowthOver(VolumeOf({u \in {v \in DOMAIN candles : first <= v} : u <= t}))
    BY <2>2, GrowthIs
  <2>. QED
    BY <2>1, <2>3, <2>4
<1>6. /\ Row(first - 1, first, 0) \in TickRow /\ Row(first - 1, first, 0).slot = first - 1
      /\ BaselineRow(Row(first - 1, first, 0), first)
  BY <1>1, <1>3, <1>4 DEF TickRow, BaselineRow
<1>7. ASSUME NEW t \in all
      PROVE  LET r == Row(t, t, GrowthAt(all, t))
             IN  r \in TickRow /\ r.slot = t /\ CandleRow(r, first) /\ t # first - 1
  BY <1>1, <1>3, <1>4, <1>5 DEF TickRow, CandleRow
<1> HIDE DEF Row
<1>8. ASSUME NEW r \in Synthesized(all)
      PROVE  \/ r = Row(first - 1, first, 0) /\ r.slot = first - 1
             \/ \E t \in all : r = Row(t, t, GrowthAt(all, t)) /\ r.slot = t
  BY <1>2, <1>6, <1>7
<1>9. \A r \in Synthesized(all) :
         /\ r \in TickRow /\ r.slot \in all \cup {first - 1}
         /\ IF r.slot = first - 1 THEN BaselineRow(r, first)
            ELSE r.slot \in all /\ CandleRow(r, first)
  BY <1>6, <1>7, <1>8
<1>10. \A s \in all \cup {first - 1} : \E r \in Synthesized(all) : r.slot = s
  BY <1>2, <1>6, <1>7
<1>11. \A r1, r2 \in Synthesized(all) : r1.slot = r2.slot => r1 = r2
  BY <1>3, <1>8
<1>. QED
  BY <1>9, <1>10, <1>11 DEF first

-----------------------------------------------------------------------------
(* The inductive invariant of the stored history.                           *)

LEMMA HistoryStarts ==
    ASSUME HistoryInit PROVE CandleInv
<1>1. /\ clock = FirstTime - Step /\ DOMAIN candles = {} /\ job = Idle /\ DOMAIN db = {}
      /\ backfills = 0 /\ firsts = {}
  BY DEF HistoryInit
<1>2. (FirstTime - Step) % Step = 0 /\ FirstTime - Step \in FirstTime - Step..LastTime
  <2>1. Step \in Nat \ {0} /\ FirstTime \in Int /\ FirstTime % Step = 0
    BY CandleAssumption
  <2>2. PICK k \in Int : FirstTime = Step * k
    BY <2>1, Multiple
  <2>3. FirstTime - Step = Step * (k - 1) /\ k - 1 \in Int
    BY <2>1, <2>2
  <2>4. (Step * (k - 1)) % Step = 0
    BY <2>1, <2>3, Multiple
  <2>. QED
    BY <2>3, <2>4, CandleAssumption
<1>3. Idle \in Job /\ Idle.all = {} /\ Idle.phase = "idle"
  BY CandleAssumption DEF Idle, Job
<1>4. CandleTypeOK
  BY <1>1, <1>2, <1>3, CandleAssumption, FS_EmptySet DEF CandleTypeOK
<1>5. WindowWhole /\ PagesMeet /\ StoredWhole
  BY <1>1, <1>3 DEF WindowWhole, PagesMeet, NoHole, StoredWhole
<1>. QED
  BY <1>4, <1>5 DEF CandleInv

(* A new candle is later than all that was fetched or stored. *)
LEMMA CandleStep ==
    ASSUME CandleInv, CandleCloses
    PROVE  CandleInv'
<1>0. CandleTypeOK /\ WindowWhole /\ PagesMeet /\ StoredWhole
  BY DEF CandleInv
<1>1. /\ clock \in Int /\ clock % Step = 0 /\ clock < LastTime /\ clock' = clock + Step
      /\ Step \in Nat \ {0} /\ FirstTime \in Nat /\ LastTime \in Nat
      /\ FirstTime - Step <= clock
      /\ UNCHANGED <<job, db, backfills, firsts>>
  BY <1>0, CandleAssumption DEF CandleCloses, CandleTypeOK
<1>2. clock' \in FirstTime..LastTime /\ clock' % Step = 0 /\ clock < clock' /\ clock' \in Int
  <2>1. (clock + Step) % Step = 0 /\ clock + Step <= LastTime
    BY <1>1, NextOnGrid
  <2>. QED
    BY <1>1, <2>1
<1>3. /\ DOMAIN candles \subseteq DOMAIN candles'
      /\ DOMAIN candles' \subseteq DOMAIN candles \cup {clock'}
      /\ \A t \in DOMAIN candles : t \in Int /\ t < clock' /\ candles'[t] = candles[t]
      /\ \A t \in DOMAIN candles' : candles'[t] \in [close : Closes, volume : Volumes]
  <2>1. \A t \in DOMAIN candles :
           t \in Int /\ t < clock' /\ candles[t] \in [close : Closes, volume : Volumes]
    BY <1>0, <1>1, <1>2 DEF CandleTypeOK
  <2>2. CASE UNCHANGED candles
    BY <2>1, <2>2
  <2>3. CASE \E close \in Closes, volume \in Volumes :
                candles' = [t \in DOMAIN candles \cup {clock'} |->
                               IF t = clock' THEN [close |-> close, volume |-> volume]
                               ELSE candles[t]]
    BY <2>1, <2>3
  <2>. QED
    BY <2>2, <2>3 DEF CandleCloses
<1>4. CandleTypeOK'
  <2>1. \A t \in DOMAIN candles' : t \in FirstTime..clock' /\ t % Step = 0
    BY <1>0, <1>1, <1>2, <1>3 DEF CandleTypeOK
  <2>. QED
    BY <1>0, <1>1, <1>2, <1>3, <2>1 DEF CandleTypeOK
<1>5. job.all \subseteq DOMAIN candles /\ firsts \subseteq DOMAIN candles
  BY <1>0 DEF CandleTypeOK
<1>6. PagesMeet'
  BY <1>0, <1>1, <1>2, <1>3, <1>5 DEF PagesMeet, NoHole
<1>7. WindowWhole'
  <2> DEFINE wide == {t \in DOMAIN candles : job.from <= t /\ t < job.to}
             wider == {t \in DOMAIN candles' : job.from <= t /\ t < job.to}
  <2>1. SUFFICES ASSUME job.phase = "fetched", job.all # {}
                 PROVE  /\ job.all = {t \in wider : Min(job.all) <= t /\ t <= Max(job.all)}
                        /\ job.page < MaxPages => Min(job.all) = Min(wider)
    BY <1>1 DEF WindowWhole
  <2>2. /\ job.all = {t \in wide : Min(job.all) <= t /\ t <= Max(job.all)}
        /\ job.page < MaxPages => Min(job.all) = Min(wide)
    BY <1>0, <2>1 DEF WindowWhole
  <2>3. /\ Min(job.all) \in job.all /\ Max(job.all) \in job.all
        /\ \A t \in job.all : Min(job.all) <= t /\ t <= Max(job.all)
    BY <1>0, <1>5, <2>1, CandlesAre, MinAndMax
  <2>4. \A t \in wider : t \in wide \/ t = clock'
    BY <1>3
  <2>5. wide \subseteq wider /\ wide \subseteq DOMAIN candles /\ job.all \subseteq wide
    BY <1>3, <2>2
  <2>6. job.all = {t \in wider : Min(job.all) <= t /\ t <= Max(job.all)}
    <3>1. Max(job.all) \in Int /\ Max(job.all) < clock'
      BY <1>3, <1>5, <2>3
    <3>2. ~(clock' <= Max(job.all))
      BY <1>2, <3>1
    <3> HIDE DEF wide, wider
    <3>. QED
      BY <2>2, <2>4, <2>5, <3>2
  <2>7. ASSUME job.page < MaxPages PROVE Min(job.all) = Min(wider)
    <3>1. IsFiniteSet(wide) /\ wide \subseteq Int /\ IsFiniteSet(wider) /\ wider \subseteq Int
      <4>1. IsFiniteSet(wide) /\ wide \subseteq Int
        BY <1>0, <2>5, CandlesAre
      <4>2. IsFiniteSet(wide \cup {clock'}) /\ wider \subseteq wide \cup {clock'}
        BY <2>4, <4>1, FS_AddElement
      <4>3. IsFiniteSet(wider)
        BY <4>2, FS_Subset
      <4>. QED
        BY <1>2, <4>1, <4>2, <4>3
    <3>2. Min(job.all) \in wide /\ Min(job.all) \in DOMAIN candles
      BY <1>5, <2>3, <2>5
    <3>3. \A t \in wide : Min(job.all) <= t
      <4> HIDE DEF wide, wider
      <4>1. wide # {}
        BY <3>2
      <4>2. \A t \in wide : Min(wide) <= t
        BY <3>1, <4>1, MinAndMax
      <4>. QED
        BY <2>2, <2>7, <4>2
    <3>4. Min(job.all) <= clock'
      <4>1. Min(job.all) \in Int /\ Min(job.all) < clock'
        BY <1>3, <3>2
      <4>. QED
        BY <1>2, <4>1
    <3>5. \A t \in wider : Min(job.all) <= t
      BY <2>4, <3>3, <3>4
    <3>6. Min(job.all) \in wider
      BY <2>5, <3>2
    <3> HIDE DEF wide, wider
    <3>. QED
      BY <3>1, <3>5, <3>6, MinIs
  <2>. QED
    BY <2>6, <2>7
<1>8. StoredWhole'
  <2>1. SUFFICES ASSUME NEW s \in DOMAIN db, s >= FirstTime - 1
                 PROVE  \E first \in firsts :
                          /\ BaselineRow(db[s], first) \/ CandleRow(db[s], first)'
                          /\ \A u \in DOMAIN candles' :
                                 first <= u /\ u <= db[s].time => u \in DOMAIN db
    <3> HIDE DEF CandleInv
    <3>. QED
      BY <1>1, <2>1 DEF StoredWhole, BaselineRow, CandleRow
  <2>2. PICK first \in firsts :
          /\ BaselineRow(db[s], first) \/ CandleRow(db[s], first)
          /\ \A u \in DOMAIN candles : first <= u /\ u <= db[s].time => u \in DOMAIN db
    BY <1>0, <2>1 DEF StoredWhole
  <2>3. first \in Int /\ first \in DOMAIN candles
    BY <1>3, <1>5
  <2>4. db[s].time \in DOMAIN candles
    BY <1>5, <2>2 DEF BaselineRow, CandleRow
  <2>5. \A u \in DOMAIN candles' : u <= db[s].time => u \in DOMAIN candles
    BY <1>2, <1>3, <2>4
  <2>6. ASSUME CandleRow(db[s], first) PROVE CandleRow(db[s], first)'
    <3>1. db[s].slot = db[s].time /\ db[s].time \in Int
      BY <1>3, <2>4, <2>6 DEF CandleRow
    <3>2. GrowthAt({u \in DOMAIN candles : first <= u}, db[s].slot)'
             = GrowthAt({u \in DOMAIN candles : first <= u}, db[s].slot)
      <4> DEFINE x == db[s].slot
      <4>1. x \in Int /\ db' = db
        BY <1>1, <3>1
      <4>2. \A t \in DOMAIN candles : t \in DOMAIN candles' /\ candles'[t] = candles[t]
        BY <1>3
      <4>3. \A t \in DOMAIN candles' : t \in DOMAIN candles \/ ~(t <= x)
        BY <2>5, <3>1
      <4>4. PICK y \in Int : y = x
        BY <4>1
      <4>5. GrowthAt({u \in DOMAIN candles : first <= u}, y)'
             = GrowthAt({u \in DOMAIN candles : first <= u}, y)
        BY <1>0, <2>3, <4>2, <4>3, <4>4, GrowthStays
      <4>6. x' = x
        BY <4>1
      <4>. QED
        BY <4>4, <4>5, <4>6
    <3>. QED
      BY <1>1, <1>3, <2>6, <3>2 DEF CandleRow
  <2>. QED
    BY <2>2, <2>5, <2>6
<1>. QED
  BY <1>4, <1>6, <1>7, <1>8 DEF CandleInv

LEMMA RowStays ==
    ASSUME CandleTypeOK, UNCHANGED candles, NEW r \in TickRow, NEW first \in Int
    PROVE  CandleRow(r, first)' <=> CandleRow(r, first)
<1>1. PICK s \in Int : s = r.slot
  BY DEF TickRow
<1>2. \A t \in DOMAIN candles : t \in DOMAIN candles' /\ candles'[t] = candles[t]
  OBVIOUS
<1>3. \A t \in DOMAIN candles' : t \in DOMAIN candles \/ ~(t <= s)
  OBVIOUS
<1>4. GrowthAt({u \in DOMAIN candles : first <= u}, s)'
         = GrowthAt({u \in DOMAIN candles : first <= u}, s)
  BY <1>2, <1>3, GrowthStays
<1>. QED
  BY <1>1, <1>4 DEF CandleRow

(* A row of watch lies among its own slots. *)
LEMMA WatchStep ==
    ASSUME CandleInv, WatchStores
    PROVE  CandleInv'
<1>0. CandleTypeOK /\ WindowWhole /\ PagesMeet /\ StoredWhole
  BY DEF CandleInv
<1>1. UNCHANGED <<clock, candles, job, backfills, firsts>> /\ clock >= FirstTime
  BY DEF WatchStores
<1>2. PICK close \in Closes, growth \in WatchGrowths, liquidity \in {0, PoolLiquidity} :
        db' = [s \in DOMAIN db \cup {Cardinality(WatchSlots) + 1} |->
                  IF s = Cardinality(WatchSlots) + 1
                  THEN [slot |-> Cardinality(WatchSlots) + 1, time |-> clock + 1,
                        price |-> close, liquidity |-> liquidity, growth |-> growth]
                  ELSE db[s]]
  BY Zenon DEF WatchStores
<1> DEFINE slot == Cardinality(WatchSlots) + 1
           row == [slot |-> slot, time |-> clock + 1, price |-> close,
                   liquidity |-> liquidity, growth |-> growth]
<1>3. slot \in Nat /\ slot < FirstTime - 1
  <2>1. IsFiniteSet(WatchSlots)
    BY <1>0, FS_Subset DEF CandleTypeOK, WatchSlots
  <2>2. Cardinality(WatchSlots) \in Nat /\ Cardinality(WatchSlots) < MaxWatchRows
    BY <2>1, FS_CardinalityType DEF WatchStores
  <2>3. MaxWatchRows \in Nat /\ FirstTime \in Nat /\ MaxWatchRows < FirstTime - 1
    BY CandleAssumption
  <2>. QED
    BY <2>2, <2>3
<1>4. row \in TickRow /\ row.slot = slot
  <2>1. clock + 1 \in Nat
    BY <1>0, <1>1, CandleAssumption DEF CandleTypeOK
  <2>2. growth \in U128
    BY CandleAssumption
  <2> HIDE DEF slot
  <2>. QED
    BY <1>3, <2>1, <2>2 DEF TickRow
<1>5. /\ DOMAIN db' = DOMAIN db \cup {slot} /\ db'[slot] = row
      /\ \A s \in DOMAIN db : s # slot => db'[s] = db[s]
  <2> HIDE DEF slot
  <2>. QED
    BY <1>2 DEF slot
<1> HIDE DEF slot, row
<1>6. CandleTypeOK'
  <2>1. IsFiniteSet(DOMAIN db')
    BY <1>0, <1>5, FS_AddElement DEF CandleTypeOK
  <2>2. \A s \in DOMAIN db' : db'[s] \in TickRow /\ db'[s].slot = s
    BY <1>0, <1>4, <1>5 DEF CandleTypeOK
  <2>. QED
    BY <1>0, <1>1, <2>1, <2>2 DEF CandleTypeOK
<1>7. WindowWhole' /\ PagesMeet'
  BY <1>0, <1>1 DEF WindowWhole, PagesMeet, NoHole
<1>8. StoredWhole'
  <2>1. SUFFICES ASSUME NEW s \in DOMAIN db', s >= FirstTime - 1
                 PROVE  \E first \in firsts :
                          /\ BaselineRow(db'[s], first) \/ CandleRow(db'[s], first)
                          /\ \A u \in DOMAIN candles :
                                 first <= u /\ u <= db'[s].time => u \in DOMAIN db'
    <3>1. \A r \in TickRow, first \in firsts : CandleRow(r, first)' <=> CandleRow(r, first)
      <4>1. firsts \subseteq Int
        BY <1>0, CandlesAre DEF CandleTypeOK
      <4>. QED
        BY <1>0, <1>1, <4>1, RowStays
    <3>2. \A s \in DOMAIN db' : db'[s] \in TickRow
      BY <1>6 DEF CandleTypeOK
    <3>. QED
      BY <1>1, <2>1, <3>1, <3>2 DEF StoredWhole, BaselineRow
  <2>2. s \in DOMAIN db /\ db'[s] = db[s]
    BY <1>3, <1>5, <2>1, CandleAssumption
  <2>. QED
    BY <1>0, <1>5, <2>1, <2>2 DEF StoredWhole
<1>. QED
  BY <1>6, <1>7, <1>8 DEF CandleInv

(* What a backfill stores is whole, and what was there stays. *)
LEMMA StoreStep ==
    ASSUME CandleInv, job.all # {}, UNCHANGED <<clock, candles, backfills>>, job' = Idle,
           db' = Inserted(Synthesized(job.all)), firsts' = firsts \cup {Min(job.all)}
    PROVE  CandleInv'
<1>0. CandleTypeOK /\ WindowWhole /\ PagesMeet /\ StoredWhole
  BY DEF CandleInv
<1> DEFINE rows == Synthesized(job.all)
           first == Min(job.all)
           slots == job.all \cup {first - 1}
<1>1. job.all \subseteq DOMAIN candles /\ NoHole(job.all)
  BY <1>0 DEF CandleTypeOK, PagesMeet
<1>2. first \in job.all /\ \A t \in job.all : first <= t
  BY <1>0, <1>1, CandlesAre, MinAndMax
<1>3. /\ \A r \in rows :
            /\ r \in TickRow /\ r.slot \in slots
            /\ IF r.slot = first - 1 THEN BaselineRow(r, first)
               ELSE r.slot \in job.all /\ CandleRow(r, first)
      /\ \A s \in slots : \E r \in rows : r.slot = s
  BY <1>0, <1>1, RowsOf
<1>4. /\ DOMAIN db' = DOMAIN db \cup slots
      /\ \A s \in DOMAIN db : db'[s] = db[s]
      /\ \A s \in slots : s \notin DOMAIN db => db'[s] \in rows /\ db'[s].slot = s
  <2>1. db' = [s \in DOMAIN db \cup {r.slot : r \in rows} |->
                 IF s \in DOMAIN db THEN db[s] ELSE CHOOSE r \in rows : r.slot = s]
    BY DEF Inserted
  <2>2. {r.slot : r \in rows} = slots
    BY <1>3
  <2> HIDE DEF rows, slots
  <2>3. \A s \in slots : (CHOOSE r \in rows : r.slot = s) \in rows
                         /\ (CHOOSE r \in rows : r.slot = s).slot = s
    BY <1>3
  <2>. QED
    BY <2>1, <2>2, <2>3
<1>5. first \in Int /\ job.all \subseteq Int /\ firsts \subseteq Int /\ DOMAIN candles \subseteq Int
  BY <1>0, <1>1, <1>2, CandlesAre DEF CandleTypeOK
<1> HIDE DEF rows, first
<1>6. CandleTypeOK'
  <2>1. IsFiniteSet(DOMAIN db')
    <3>1. IsFiniteSet(job.all) /\ IsFiniteSet(DOMAIN db)
      BY <1>0, <1>1, CandlesAre DEF CandleTypeOK
    <3>2. IsFiniteSet(slots)
      BY <3>1, FS_AddElement
    <3> HIDE DEF slots
    <3>3. IsFiniteSet(DOMAIN db \cup slots)
      BY <3>1, <3>2, FS_Union
    <3>4. DOMAIN db' = DOMAIN db \cup slots
      BY <1>4
    <3>. QED
      BY <3>3, <3>4
  <2>2. \A s \in DOMAIN db' : db'[s] \in TickRow /\ db'[s].slot = s
    BY <1>0, <1>3, <1>4 DEF CandleTypeOK
  <2>3. Idle \in Job /\ Idle.all = {}
    BY CandleAssumption DEF Idle, Job
  <2>4. firsts' \subseteq DOMAIN candles
    BY <1>0, <1>1, <1>2 DEF CandleTypeOK, first
  <2>. QED
    BY <1>0, <2>1, <2>2, <2>3, <2>4 DEF CandleTypeOK
<1>7. WindowWhole' /\ PagesMeet'
  BY DEF WindowWhole, PagesMeet, NoHole, Idle
<1>8. StoredWhole'
  <2>1. SUFFICES ASSUME NEW s \in DOMAIN db', s >= FirstTime - 1
                 PROVE  \E f \in firsts \cup {first} :
                          /\ BaselineRow(db'[s], f) \/ CandleRow(db'[s], f)
                          /\ \A u \in DOMAIN candles :
                                 f <= u /\ u <= db'[s].time => u \in DOMAIN db'
    <3>1. \A r \in TickRow, f \in firsts' : CandleRow(r, f)' <=> CandleRow(r, f)
      BY <1>0, <1>5, RowStays DEF first
    <3>2. \A x \in DOMAIN db' : db'[x] \in TickRow
      BY <1>6 DEF CandleTypeOK
    <3>3. firsts' = firsts \cup {first}
      BY DEF first
    <3>. QED
      BY <2>1, <3>1, <3>2, <3>3 DEF StoredWhole, BaselineRow
  <2>2. CASE s \in DOMAIN db
    BY <1>0, <1>4, <2>1, <2>2 DEF StoredWhole
  <2>3. CASE s \notin DOMAIN db
    <3>1. db'[s] \in rows /\ s \in slots
      BY <1>4, <2>3
    <3>2. BaselineRow(db'[s], first) \/ (db'[s].slot \in job.all /\ CandleRow(db'[s], first))
      BY <1>3, <3>1
    <3>3. db'[s].time \in job.all
      BY <1>2, <3>2 DEF BaselineRow, CandleRow
    <3>4. ASSUME NEW u \in DOMAIN candles, first <= u, u <= db'[s].time PROVE u \in DOMAIN db'
      BY <1>1, <1>2, <1>4, <3>3, <3>4 DEF NoHole
    <3>. QED
      BY <3>2, <3>4
  <2>. QED
    BY <2>2, <2>3
<1>. QED
  BY <1>6, <1>7, <1>8 DEF CandleInv

(* The steps that change nothing but the fetch. *)
LEMMA JobStep ==
    ASSUME CandleInv, UNCHANGED <<clock, candles, db, firsts>>,
           backfills' \in 0..MaxBackfills, job' \in Job, job'.all \subseteq DOMAIN candles,
           WindowWhole', PagesMeet'
    PROVE  CandleInv'
<1>0. CandleTypeOK /\ StoredWhole
  BY DEF CandleInv
<1>1. CandleTypeOK'
  BY <1>0 DEF CandleTypeOK
<1>2. StoredWhole'
  <2>1. \A r \in TickRow, f \in firsts : CandleRow(r, f)' <=> CandleRow(r, f)
    <3>1. firsts \subseteq Int
      BY <1>0, CandlesAre DEF CandleTypeOK
    <3>. QED
      BY <1>0, <3>1, RowStays
  <2>2. \A x \in DOMAIN db : db[x] \in TickRow
    BY <1>0 DEF CandleTypeOK
  <2>. QED
    BY <1>0, <2>1, <2>2 DEF StoredWhole, BaselineRow
<1>. QED
  BY <1>1, <1>2 DEF CandleInv

LEMMA JobEnds ==
    ASSUME CandleInv, job' = Idle, UNCHANGED <<clock, candles, db, backfills, firsts>>
    PROVE  CandleInv'
<1>1. /\ Idle \in Job /\ Idle.all = {} /\ Idle.phase = "idle" /\ backfills \in 0..MaxBackfills
  BY CandleAssumption DEF CandleInv, CandleTypeOK, Job, Idle
<1>2. WindowWhole' /\ PagesMeet'
  BY <1>1 DEF WindowWhole, PagesMeet, NoHole
<1>. QED
  BY <1>1, <1>2, JobStep

LEMMA HistoryStep ==
    ASSUME CandleInv, FetchNext \/ UNCHANGED history
    PROVE  CandleInv'
<1>0. /\ CandleTypeOK /\ WindowWhole /\ PagesMeet /\ StoredWhole
      /\ job \in Job /\ job.all \subseteq DOMAIN candles /\ backfills \in 0..MaxBackfills
      /\ Idle \in Job /\ Idle.all = {} /\ Idle.phase = "idle"
  BY CandleAssumption DEF CandleInv, CandleTypeOK, Job, Idle
<1>2. ASSUME NEW command \in {"backfill", "research"}, NEW from \in Midnights, NEW to \in Midnights,
             Fetching(command, from, to)
      PROVE  CandleInv'
  <2>1. /\ job' = [Idle EXCEPT !.phase = "fetching", !.command = command,
                               !.from = from, !.to = to, !.cursor = to]
        /\ UNCHANGED <<clock, candles, db, firsts>> /\ backfills' = backfills + 1
        /\ backfills < MaxBackfills
    BY <1>2 DEF Fetching
  <2>2. from \in Int /\ to \in Int
    BY CandleAssumption DEF Midnights
  <2>3. /\ job' = [phase |-> "fetching", command |-> command, from |-> from, to |-> to,
                    cursor |-> to, page |-> 0, retries |-> 0, all |-> {}]
    BY <2>1 DEF Idle
  <2>4. job' \in Job /\ job'.all = {} /\ job'.phase = "fetching" /\ job'.page < MaxPages
    BY <2>2, <2>3, CandleAssumption DEF Job
  <2>5. WindowWhole' /\ PagesMeet'
    BY <2>4 DEF WindowWhole, PagesMeet, NoHole
  <2>6. backfills' \in 0..MaxBackfills
    BY <1>0, <2>1, CandleAssumption
  <2>. QED
    BY <2>1, <2>4, <2>5, <2>6, JobStep
<1>3. CASE RateLimited
  <2>1. /\ job' = [job EXCEPT !.retries = @ + 1] /\ job.retries < MaxRetries
        /\ UNCHANGED <<clock, candles, db, backfills, firsts>>
    BY <1>3 DEF RateLimited
  <2>2. job' \in Job /\ job'.all = job.all /\ job'.phase = job.phase /\ job'.from = job.from
        /\ job'.to = job.to /\ job'.page = job.page /\ job'.cursor = job.cursor
    <3>1. job.retries + 1 \in 0..MaxRetries
      BY <1>0, <2>1, CandleAssumption DEF Job
    <3>. QED
      BY <1>0, <2>1, <3>1 DEF Job
  <2>3. WindowWhole' /\ PagesMeet'
    BY <1>0, <2>1, <2>2 DEF WindowWhole, PagesMeet, NoHole
  <2>. QED
    BY <1>0, <2>1, <2>2, <2>3, JobStep
<1>4. CASE FetchFails \/ ResearchSkips
  BY <1>4, JobEnds DEF FetchFails, ResearchSkips
<1>5. CASE BackfillEnds
  <2>1. CASE UNCHANGED <<db, firsts>>
    BY <1>5, <2>1, JobEnds DEF BackfillEnds
  <2>2. CASE ~UNCHANGED <<db, firsts>>
    BY <1>5, <2>2, StoreStep DEF BackfillEnds
  <2>. QED
    BY <2>1, <2>2
<1>6. CASE PageArrives
  <2>1. CandleTypeOK' /\ PagesMeet' /\ WindowWhole'
    BY <1>0, <1>6, PageStep
  <2>2. UNCHANGED <<clock, candles, db, backfills, firsts>>
    BY <1>6 DEF PageArrives
  <2>3. job' \in Job /\ job'.all \subseteq DOMAIN candles
    BY <2>1, <2>2 DEF CandleTypeOK
  <2>. QED
    BY <1>0, <2>1, <2>2, <2>3, JobStep
<1>7. CASE UNCHANGED history
  <2>1. UNCHANGED <<clock, candles, job, db, backfills, firsts>>
    BY <1>7 DEF history
  <2>2. WindowWhole' /\ PagesMeet'
    BY <1>0, <2>1 DEF WindowWhole, PagesMeet, NoHole
  <2>. QED
    BY <1>0, <2>1, <2>2, JobStep
<1>. QED
  BY <1>2, <1>3, <1>4, <1>5, <1>6, <1>7, CandleStep, WatchStep
  DEF FetchNext, StartBackfill, StartResearch

-----------------------------------------------------------------------------
(* Reading the rows back.                                                   *)

(* Sorting yields every row once, each before the next. *)
LEMMA RowsInOrder ==
    ASSUME NEW rows, IsFiniteSet(rows), rows \subseteq TickRow,
           \A r, s \in rows : r.slot = s.slot => r = s
    PROVE  LET q == InReadOrder(rows)
           IN  /\ q \in Seq(rows) /\ (rows # {} <=> q # <<>>)
               /\ \A j, k \in DOMAIN q : j < k => Before(q[j], q[k])
               /\ \A r \in rows : \E k \in DOMAIN q : q[k] = r
<1> DEFINE n == Cardinality(rows)
           order == {p \in rows \X rows : Before(p[1], p[2])}
           q == InReadOrder(rows)
<1>1. n \in Nat
  BY FS_CardinalityType
<1>2. \A r, s \in rows : <<r, s>> \in order <=> Before(r, s)
  OBVIOUS
<1>3. StrictOrder(order, rows)
  <2>1. \A r \in rows : r.time \in Int /\ r.slot \in Int
    BY DEF TickRow
  <2>2. \A r \in rows : ~Before(r, r)
    BY <2>1 DEF Before
  <2>3. \A r, s, u \in rows : Before(r, s) /\ Before(s, u) => Before(r, u)
    BY <2>1 DEF Before
  <2>4. \A r, s \in rows : r = s \/ Before(r, s) \/ Before(s, r)
    BY <2>1 DEF Before
  <2> HIDE DEF order
  <2>. QED
    BY <1>2, <2>2, <2>3, <2>4 DEF StrictOrder
<1>4. \A r \in rows : BeforeIn(order, rows, r) = {s \in rows : Before(s, r)}
  BY <1>2 DEF BeforeIn
<1> HIDE DEF order
<1>5. /\ \A k \in 1..n : \E r \in rows : Cardinality(BeforeIn(order, rows, r)) = k - 1
      /\ \A r \in rows : Cardinality(BeforeIn(order, rows, r)) \in 0..n - 1
      /\ \A r, s \in rows :
            <<r, s>> \in order
            <=> Cardinality(BeforeIn(order, rows, r)) < Cardinality(BeforeIn(order, rows, s))
  BY <1>3, EveryPlaceTaken
<1>6. q = [k \in 1..n |-> CHOOSE r \in rows : Cardinality({s \in rows : Before(s, r)}) = k - 1]
  BY DEF InReadOrder
<1> HIDE DEF q, n
<1>7. \A k \in 1..n : q[k] \in rows /\ Cardinality(BeforeIn(order, rows, q[k])) = k - 1
  <2>1. SUFFICES ASSUME NEW k \in 1..n
                 PROVE  q[k] \in rows /\ Cardinality(BeforeIn(order, rows, q[k])) = k - 1
    OBVIOUS
  <2>2. q[k] = CHOOSE r \in rows : Cardinality({s \in rows : Before(s, r)}) = k - 1
    BY <1>6
  <2>3. \E r \in rows : Cardinality({s \in rows : Before(s, r)}) = k - 1
    BY <1>4, <1>5
  <2>4. q[k] \in rows /\ Cardinality({s \in rows : Before(s, q[k])}) = k - 1
    BY <2>2, <2>3
  <2>. QED
    BY <1>4, <2>4
<1>8. q \in Seq(rows) /\ DOMAIN q = 1..n /\ Len(q) = n
  <2>1. q \in [1..n -> rows]
    BY <1>6, <1>7
  <2>. QED
    BY <1>1, <2>1
<1>9. \A j, k \in DOMAIN q : j < k => Before(q[j], q[k])
  <2>1. SUFFICES ASSUME NEW j \in 1..n, NEW k \in 1..n, j < k PROVE Before(q[j], q[k])
    BY <1>8
  <2>2. Cardinality(BeforeIn(order, rows, q[j])) < Cardinality(BeforeIn(order, rows, q[k]))
    BY <1>1, <1>7, <2>1
  <2>. QED
    BY <1>2, <1>5, <1>7, <2>2
<1>10. ASSUME NEW r \in rows PROVE \E k \in DOMAIN q : q[k] = r
  <2>1. PICK k \in 1..n : Cardinality(BeforeIn(order, rows, r)) = k - 1
    <3>1. Cardinality(BeforeIn(order, rows, r)) \in 0..n - 1
      BY <1>5
    <3>2. Cardinality(BeforeIn(order, rows, r)) + 1 \in 1..n
      BY <1>1, <3>1
    <3>. QED
      BY <3>1, <3>2
  <2>2. ~(<<r, q[k]>> \in order) /\ ~(<<q[k], r>> \in order)
    BY <1>1, <1>5, <1>7, <2>1
  <2>3. r = q[k]
    BY <1>3, <1>7, <2>2 DEF StrictOrder
  <2>. QED
    BY <1>8, <2>3
<1>11. rows # {} <=> q # <<>>
  <2>1. rows # {} <=> n # 0
    BY FS_EmptySet DEF n
  <2>2. n # 0 <=> q # <<>>
    BY <1>1, <1>8
  <2>. QED
    BY <2>1, <2>2
<1>. QED
  BY <1>8, <1>9, <1>10, <1>11 DEF q

-----------------------------------------------------------------------------
(* What the rows so far were worth.                                         *)

Paid == [k \in DOMAIN trace |-> trace[k].paid]
Losses == [k \in DOMAIN trace |-> trace[k].il]

TraceSums ==
    /\ \A k : FeesAfter(k) = SumOf(Paid, 1..k)
    /\ \A moves : LossOf(moves) = SumOf(Losses, moves)

LEMMA TraceIsSummed == TraceSums
<1>1. \A k : FeesAfter(k) = SumOf(Paid, 1..k)
  BY Zenon DEF FeesAfter, SumOf, Paid
<1>2. \A moves : LossOf(moves) = SumOf(Losses, moves)
  BY Zenon DEF LossOf, SumOf, Losses
<1>. QED
  BY <1>1, <1>2 DEF TraceSums

LEMMA UptoFinite ==
    ASSUME NEW n \in Nat
    PROVE  \A S : S \subseteq 1..n => IsFiniteSet(S) /\ S \subseteq Int
<1>1. IsFiniteSet(1..n) /\ 1..n \subseteq Int
  BY FS_Interval
<1>. QED
  BY <1>1, FS_Subset

(* The values of the sums, while the trace is as long as n. *)
LEMMA WorthTypes ==
    ASSUME trace \in Seq(TraceEntry), NEW n \in Nat, n = Len(trace)
    PROVE  /\ \A k \in 0..n : /\ FeesAfter(k) \in Nat
                              /\ MovedUpto(k) \subseteq 1..n /\ LossOf(MovedUpto(k)) \in Int
           /\ \A k \in 1..n : LossAfter(k) \in Int
<1>1. \A k \in 1..n : /\ trace[k] \in TraceEntry /\ trace[k].il \in Int
                      /\ Paid[k] \in Nat /\ Losses[k] \in Int
  <2>1. DOMAIN trace = 1..n /\ \A k \in 1..n : trace[k] \in TraceEntry
    OBVIOUS
  <2>2. \A e \in TraceEntry : e.paid \in Nat /\ e.il \in Int
    BY DEF TraceEntry
  <2>3. \A k \in 1..n : Paid[k] = trace[k].paid /\ Losses[k] = trace[k].il
    BY <2>1 DEF Paid, Losses
  <2>. QED
    BY <2>1, <2>2, <2>3
<1>2. ASSUME NEW k \in 0..n
      PROVE  FeesAfter(k) \in Nat /\ MovedUpto(k) \subseteq 1..n /\ LossOf(MovedUpto(k)) \in Int
  <2>1. 1..k \subseteq 1..n /\ MovedUpto(k) \subseteq 1..n
    BY DEF MovedUpto
  <2>2. IsFiniteSet(1..k) /\ IsFiniteSet(MovedUpto(k))
    BY <2>1, UptoFinite
  <2>3. SumOf(Paid, 1..k) \in Nat
    <3>1. \A j \in 1..k : Paid[j] \in Nat
      BY <1>1, <2>1
    <3>. QED
      BY <2>2, <3>1, SumOfSplit
  <2>4. SumOf(Losses, MovedUpto(k)) \in Int
    <3>1. \A j \in MovedUpto(k) : Losses[j] \in Int
      BY <1>1, <2>1
    <3>. QED
      BY <2>2, <3>1, SumOfInt
  <2>. QED
    BY <2>1, <2>3, <2>4, TraceIsSummed DEF TraceSums
<1>3. ASSUME NEW k \in 1..n PROVE LossAfter(k) \in Int
  <2>1. trace[k].il \in Int
    BY <1>1
  <2>2. k - 1 \in 0..n
    OBVIOUS
  <2>3. LossOf(MovedUpto(k - 1)) \in Int
    BY <1>2, <2>2, Zenon
  <2>4. PICK a \in Int, b \in Int : a = trace[k].il /\ b = LossOf(MovedUpto(k - 1))
    BY <2>1, <2>3
  <2>5. LossAfter(k) = a + b
    BY <2>4 DEF LossAfter
  <2>. QED
    BY <2>4, <2>5
<1>. QED
  BY <1>2, <1>3

(* A new entry changes nothing of what went before, and adds its own.        *)
LEMMA EntryAdds ==
    ASSUME trace \in Seq(TraceEntry), NEW n \in Nat, n = Len(trace),
           NEW e \in TraceEntry, trace' = Append(trace, e)
    PROVE  /\ trace' \in Seq(TraceEntry) /\ Len(trace') = n + 1 /\ DOMAIN trace' = 1..n + 1
           /\ trace'[n + 1] = e /\ \A k \in 1..n : trace'[k] = trace[k]
           /\ \A k \in 0..n : FeesAfter(k)' = FeesAfter(k) /\ MovedUpto(k)' = MovedUpto(k)
           /\ \A k \in 1..n : LossAfter(k)' = LossAfter(k)
           /\ FeesAfter(n + 1)' = FeesAfter(n) + e.paid
           /\ MovedUpto(n + 1)' = IF e.moved THEN MovedUpto(n) \cup {n + 1} ELSE MovedUpto(n)
           /\ LossOf(MovedUpto(n + 1))'
                  = LossOf(MovedUpto(n)) + (IF e.moved THEN e.il ELSE 0)
           /\ LossAfter(n + 1)' = e.il + LossOf(MovedUpto(n))
<1>1. /\ trace' \in Seq(TraceEntry) /\ Len(trace') = n + 1 /\ DOMAIN trace' = 1..n + 1
      /\ trace'[n + 1] = e /\ \A k \in 1..n : trace'[k] = trace[k]
      /\ DOMAIN trace = 1..n
  OBVIOUS
<1>2. /\ \A k \in 1..n : /\ Paid[k] \in Nat /\ Paid'[k] = Paid[k]
                         /\ Losses[k] \in Int /\ Losses'[k] = Losses[k]
      /\ Paid'[n + 1] = e.paid /\ Losses'[n + 1] = e.il /\ e.paid \in Nat /\ e.il \in Int
      /\ e.moved \in BOOLEAN
  <2>1. \A x \in TraceEntry : x.paid \in Nat /\ x.il \in Int /\ x.moved \in BOOLEAN
    BY DEF TraceEntry
  <2>2. \A k \in 1..n : trace[k] \in TraceEntry
    BY <1>1
  <2>3. \A k \in 1..n : Paid[k] = trace[k].paid /\ Losses[k] = trace[k].il
    BY <1>1 DEF Paid, Losses
  <2>4. \A k \in 1..n + 1 : Paid'[k] = trace'[k].paid /\ Losses'[k] = trace'[k].il
    BY <1>1 DEF Paid, Losses
  <2>5. n + 1 \in 1..n + 1 /\ \A k \in 1..n : k \in 1..n + 1
    OBVIOUS
  <2>6. \A k \in 1..n : /\ Paid[k] \in Nat /\ Paid'[k] = Paid[k]
                         /\ Losses[k] \in Int /\ Losses'[k] = Losses[k]
    BY <1>1, <2>1, <2>2, <2>3, <2>4, <2>5
  <2>. QED
    BY <1>1, <2>1, <2>4, <2>5, <2>6
<1>3. TraceSums /\ TraceSums'
  BY TraceIsSummed, PTL
<1>4. /\ \A k : FeesAfter(k)' = SumOf(Paid', 1..k)
      /\ \A moves : LossOf(moves)' = SumOf(Losses', moves)
  BY <1>3 DEF TraceSums
<1>5. ASSUME NEW k \in 0..n
      PROVE  FeesAfter(k)' = FeesAfter(k) /\ MovedUpto(k)' = MovedUpto(k)
  <2>0. 1..k \subseteq 1..n
    OBVIOUS
  <2>1. IsFiniteSet(1..k) /\ \A j \in 1..k : Paid[j] \in Int /\ Paid[j] = Paid'[j]
    <3>1. \A j \in 1..k : j \in 1..n
      BY <2>0
    <3>2. \A j \in 1..k : Paid[j] \in Int /\ Paid[j] = Paid'[j]
      BY <1>2, <3>1
    <3>. QED
      BY <2>0, <3>2, UptoFinite
  <2>2. SumOf(Paid, 1..k) = SumOf(Paid', 1..k)
    BY <2>1, SumOfSame
  <2>3. FeesAfter(k)' = FeesAfter(k)
    BY <1>3, <1>4, <2>2 DEF TraceSums
  <2>4. MovedUpto(k)' = MovedUpto(k)
    BY <1>1 DEF MovedUpto
  <2>. QED
    BY <2>3, <2>4
<1>6. ASSUME NEW moves, moves \subseteq 1..n
      PROVE  LossOf(moves)' = LossOf(moves) /\ IsFiniteSet(moves) /\ LossOf(moves) \in Int
  <2>1. IsFiniteSet(moves) /\ \A j \in moves : Losses[j] \in Int /\ Losses[j] = Losses'[j]
    BY <1>2, <1>6, UptoFinite
  <2>2. SumOf(Losses, moves) = SumOf(Losses', moves) /\ SumOf(Losses, moves) \in Int
    BY <2>1, SumOfSame, SumOfInt
  <2>. QED
    BY <1>3, <1>4, <2>1, <2>2 DEF TraceSums
<1>7. \A k \in 0..n : MovedUpto(k) \subseteq 1..n
  BY DEF MovedUpto
<1>8. FeesAfter(n + 1)' = FeesAfter(n) + e.paid
  <2>1. 1..n + 1 = (1..n) \cup {n + 1} /\ n + 1 \notin 1..n /\ IsFiniteSet(1..n)
    <3>1. 1..n + 1 = (1..n) \cup {n + 1} /\ n + 1 \notin 1..n
      OBVIOUS
    <3>. QED
      BY <3>1, UptoFinite
  <2>2. \A j \in (1..n) \cup {n + 1} : Paid'[j] \in Int
    BY <1>2
  <2>3. SumOf(Paid', (1..n) \cup {n + 1}) = Paid'[n + 1] + SumOf(Paid', 1..n)
    BY <2>1, <2>2, SumOfAdd
  <2>4. FeesAfter(n + 1)' = Paid'[n + 1] + FeesAfter(n)'
    BY <1>4, <2>1, <2>3
  <2>5. FeesAfter(n)' = FeesAfter(n) /\ FeesAfter(n) \in Nat
    BY <1>5, WorthTypes
  <2>. QED
    BY <1>2, <2>4, <2>5
<1>9. MovedUpto(n + 1)' = IF e.moved THEN MovedUpto(n) \cup {n + 1} ELSE MovedUpto(n)
  BY <1>1 DEF MovedUpto
<1>10. LossOf(MovedUpto(n + 1))' = SumOf(Losses', MovedUpto(n + 1)')
  BY <1>4
<1>11. LossOf(MovedUpto(n + 1))' = LossOf(MovedUpto(n)) + (IF e.moved THEN e.il ELSE 0)
  <2> DEFINE M == MovedUpto(n)
  <2>1. M \subseteq 1..n /\ n + 1 \notin M
    BY <1>7
  <2> HIDE DEF M
  <2>2. LossOf(M) = SumOf(Losses', M) /\ IsFiniteSet(M) /\ LossOf(M) \in Int
    BY <1>4, <1>6, <2>1
  <2>3. \A j \in M \cup {n + 1} : Losses'[j] \in Int
    BY <1>2, <2>1
  <2>4. SumOf(Losses', M \cup {n + 1}) = Losses'[n + 1] + SumOf(Losses', M)
    BY <2>1, <2>2, <2>3, SumOfAdd
  <2>5. CASE e.moved
    <3>1. MovedUpto(n + 1)' = M \cup {n + 1}
      BY <1>9, <2>5 DEF M
    <3>2. LossOf(MovedUpto(n + 1))' = SumOf(Losses', M \cup {n + 1})
      BY <1>10, <3>1, Zenon
    <3>3. LossOf(MovedUpto(n + 1))' = Losses'[n + 1] + LossOf(M)
      BY <2>2, <2>4, <3>2, Zenon
    <3>. QED
      BY <1>2, <2>2, <2>5, <3>3 DEF M
  <2>6. CASE ~e.moved
    BY <1>9, <1>10, <2>2, <2>6 DEF M
  <2>. QED
    BY <2>5, <2>6 DEF M
<1>12. ASSUME NEW k \in 1..n PROVE LossAfter(k)' = LossAfter(k)
  <2>1. k - 1 \in 0..n
    OBVIOUS
  <2>2. MovedUpto(k - 1)' = MovedUpto(k - 1) /\ MovedUpto(k - 1) \subseteq 1..n
    BY <1>5, <1>7, <2>1
  <2>3. LossOf(MovedUpto(k - 1))' = SumOf(Losses', MovedUpto(k - 1)')
    BY <1>4
  <2>4. SumOf(Losses', MovedUpto(k - 1)) = LossOf(MovedUpto(k - 1))
    BY <1>4, <1>6, <2>2
  <2>. QED
    BY <1>1, <2>2, <2>3, <2>4 DEF LossAfter
<1>13. LossAfter(n + 1)' = e.il + LossOf(MovedUpto(n))
  <2>1. (n + 1) - 1 = n
    OBVIOUS
  <2>2. LossAfter(n + 1)' = e.il + LossOf(MovedUpto(n))'
    BY <1>1, <2>1 DEF LossAfter
  <2>3. LossOf(MovedUpto(n))' = SumOf(Losses', MovedUpto(n)')
    BY <1>4
  <2>4. MovedUpto(n)' = MovedUpto(n) /\ MovedUpto(n) \subseteq 1..n
    BY <1>5, <1>7
  <2>5. SumOf(Losses', MovedUpto(n)) = LossOf(MovedUpto(n))
    BY <1>4, <1>6, <2>4
  <2>. QED
    BY <2>2, <2>3, <2>4, <2>5
<1>. QED
  BY <1>1, <1>5, <1>8, <1>9, <1>11, <1>12, <1>13

-----------------------------------------------------------------------------
(* The days.                                                                *)

DaysRise == \A j, k \in DOMAIN trace : j <= k => trace[j].day <= trace[k].day

(* Rows are read by time, and a day of a simulation follows the one before. *)
LEMMA DaysInOrder ==
    ASSUME ReplayTypeOK, StreamInOrder
    PROVE  DaysRise
<1>1. CASE stream = <<>>
  <2>1. \A k \in DOMAIN trace : k \in Int /\ trace[k].day = k
    BY <1>1 DEF StreamInOrder, ReplayTypeOK
  <2>. QED
    BY <2>1 DEF DaysRise
<1>2. CASE stream # <<>>
  <2>1. SUFFICES ASSUME NEW j \in DOMAIN trace, NEW k \in DOMAIN trace, j <= k
                 PROVE  trace[j].day <= trace[k].day
    BY DEF DaysRise
  <2>2. j \in DOMAIN stream /\ k \in DOMAIN stream /\ j \in Int /\ k \in Int
    BY <1>2 DEF ReplayTypeOK
  <2>3. stream[j] \in TickRow /\ stream[k] \in TickRow
    BY <2>2 DEF ReplayTypeOK
  <2>4. stream[j].time \in Nat /\ stream[k].time \in Nat
    BY <2>3 DEF TickRow
  <2>5. stream[j].time <= stream[k].time
    BY <2>1, <2>2, <2>4 DEF StreamInOrder, Before
  <2>6. stream[j].time \div DayLength <= stream[k].time \div DayLength
    BY <2>4, <2>5, CandleAssumption, DivMono
  <2>7. trace[j].day = stream[j].time \div DayLength /\ trace[k].day = stream[k].time \div DayLength
    BY <1>2 DEF StreamInOrder, DayOf, Day
  <2>. QED
    BY <2>6, <2>7
<1>. QED
  BY <1>1, <1>2

(* The last of a day's entries. *)
LastMarked ==
    \A d, m : /\ m \in DOMAIN trace /\ trace[m].day = d
              /\ \A k \in DOMAIN trace : trace[k].day = d => k <= m
              => LastOf(d) = m

LEMMA LastIsMarked == trace \in Seq(TraceEntry) => LastMarked
<1>1. SUFFICES ASSUME trace \in Seq(TraceEntry), NEW d, NEW m, m \in DOMAIN trace, trace[m].day = d,
                      \A k \in DOMAIN trace : trace[k].day = d => k <= m
               PROVE  LastOf(d) = m
  BY DEF LastMarked
<1> DEFINE S == {k \in DOMAIN trace : trace[k].day = d}
<1>2. PICK n \in Nat : n = Len(trace) /\ DOMAIN trace = 1..n
  BY <1>1
<1>3. S \subseteq 1..n
  BY <1>2
<1>4. m \in S /\ \A k \in S : k <= m
  BY <1>1
<1> HIDE DEF S
<1>5. S \in SUBSET Int /\ \A k \in S : m >= k
  BY <1>3, <1>4
<1>6. Max(S) = m
  BY <1>4, <1>5, MaxIs
<1>. QED
  BY <1>6 DEF LastOf, S

LEMMA LastIs ==
    ASSUME trace \in Seq(TraceEntry), NEW n \in Nat, n = Len(trace)
    PROVE  /\ \A d \in TraceDays : /\ LastOf(d) \in 1..n /\ trace[LastOf(d)].day = d
                                   /\ \A k \in 1..n : trace[k].day = d => k <= LastOf(d)
           /\ TraceDays \subseteq Int /\ IsFiniteSet(TraceDays)
<1>1. DOMAIN trace = 1..n /\ IsFiniteSet(1..n) /\ 1..n \subseteq Int
  <2>1. DOMAIN trace = 1..n /\ 1..n \subseteq 1..n
    OBVIOUS
  <2>. QED
    BY <2>1, UptoFinite
<1>2. ASSUME NEW d \in TraceDays
      PROVE  /\ LastOf(d) \in 1..n /\ trace[LastOf(d)].day = d
             /\ \A k \in 1..n : trace[k].day = d => k <= LastOf(d)
  <2> DEFINE S == {k \in 1..n : trace[k].day = d}
  <2>1. S # {} /\ S \subseteq 1..n
    BY <1>1, <1>2 DEF TraceDays
  <2>2. LastOf(d) = Max(S)
    BY <1>1 DEF LastOf
  <2> HIDE DEF S
  <2>3. Max(S) \in S /\ \A y \in S : y <= Max(S)
    BY <2>1, UptoFinite, MinAndMax
  <2>. QED
    BY <2>2, <2>3 DEF S
<1>3. TraceDays \subseteq Int /\ IsFiniteSet(TraceDays)
  <2>1. \A e \in TraceEntry : e.day \in Int
    BY DEF TraceEntry
  <2>2. \A k \in 1..n : trace[k] \in TraceEntry
    BY <1>1
  <2>3. TraceDays = {trace[k].day : k \in 1..n}
    BY <1>1 DEF TraceDays
  <2>4. IsFiniteSet({trace[k].day : k \in 1..n})
    <3> DEFINE S == 1..n
               f == [k \in S |-> trace[k].day]
               T == {trace[k].day : k \in S}
    <3>1. IsFiniteSet(S)
      BY <1>1
    <3> HIDE DEF S
    <3>2. f \in Surjection(S, T)
      BY DEF Surjection
    <3>3. IsFiniteSet(T)
      BY <3>1, <3>2, FS_Surjection
    <3>. QED
      BY <3>3 DEF S
  <2>. QED
    BY <2>1, <2>2, <2>3, <2>4
<1>. QED
  BY <1>2, <1>3

(* A new entry leaves the last ones of the other days, and what they make of *)
(* a row right.                                                             *)
LEMMA DaysStay ==
    ASSUME trace \in Seq(TraceEntry), NEW n \in Nat, n = Len(trace),
           NEW e \in TraceEntry, trace' = Append(trace, e)
    PROVE  /\ TraceDays' = TraceDays \cup {e.day} /\ LastOf(e.day)' = n + 1
           /\ \A d \in TraceDays \ {e.day} : LastOf(d)' = LastOf(d)
           /\ \A r, d : d \in TraceDays \ {e.day} => (DayRowRight(r, d)' <=> DayRowRight(r, d))
<1>1. /\ trace' \in Seq(TraceEntry) /\ Len(trace') = n + 1 /\ DOMAIN trace' = 1..n + 1
      /\ trace'[n + 1] = e /\ \A k \in 1..n : trace'[k] = trace[k]
      /\ \A k \in 0..n : FeesAfter(k)' = FeesAfter(k)
      /\ \A k \in 1..n : LossAfter(k)' = LossAfter(k)
  BY EntryAdds
<1>2. DOMAIN trace = 1..n /\ 1..n + 1 = (1..n) \cup {n + 1} /\ n + 1 \notin 1..n
  OBVIOUS
<1>3. TraceDays' = TraceDays \cup {e.day}
  BY <1>1, <1>2 DEF TraceDays
<1>4. (trace \in Seq(TraceEntry) => LastMarked)'
  BY LastIsMarked, PTL
<1>5. LastMarked'
  BY <1>1, <1>4
<1>6. LastOf(e.day)' = n + 1
  <2>1. n + 1 \in DOMAIN trace' /\ trace'[n + 1].day = e.day /\ \A k \in DOMAIN trace' : k <= n + 1
    BY <1>1
  <2>. QED
    BY <1>5, <2>1 DEF LastMarked
<1>7. ASSUME NEW d \in TraceDays \ {e.day} PROVE LastOf(d)' = LastOf(d) /\ LastOf(d) \in 1..n
  <2>1. PICK m \in 1..n : m = LastOf(d) /\ trace[m].day = d
                          /\ \A k \in 1..n : trace[k].day = d => k <= m
    BY LastIs
  <2>2. m \in DOMAIN trace' /\ trace'[m].day = d
    BY <1>1, <1>2, <2>1
  <2>3. \A k \in DOMAIN trace' : trace'[k].day = d => k <= m
    BY <1>1, <1>2, <2>1, <1>7
  <2>4. LastOf(d)' = m
    BY <1>5, <2>2, <2>3 DEF LastMarked
  <2>. QED
    BY <2>1, <2>4
<1>8. ASSUME NEW r, NEW d, d \in TraceDays \ {e.day}
      PROVE  DayRowRight(r, d)' <=> DayRowRight(r, d)
  <2>1. PICK m \in 1..n : m = LastOf(d) /\ m = LastOf(d)'
    BY <1>7, <1>8
  <2>2. FeesAfter(LastOf(d))' = FeesAfter(LastOf(d))
    <3>1. FeesAfter(LastOf(d))' = FeesAfter(m)'
      BY <2>1 DEF FeesAfter
    <3>2. m \in 0..n
      OBVIOUS
    <3>. QED
      BY <1>1, <2>1, <3>1, <3>2
  <2>3. LossAfter(LastOf(d))' = LossAfter(LastOf(d))
    <3>1. LossAfter(LastOf(d))' = LossAfter(m)'
      BY <2>1 DEF LossAfter, MovedUpto
    <3>. QED
      BY <1>1, <2>1, <3>1
  <2>4. (\E k \in DOMAIN trace' : trace'[k].day = d /\ trace'[k].inRange)
        <=> (\E k \in DOMAIN trace : trace[k].day = d /\ trace[k].inRange)
    BY <1>1, <1>2, <1>8
  <2>5. trace'[LastOf(d)'].price = trace[LastOf(d)].price
    BY <1>1, <2>1
  <2>. QED
    BY <2>2, <2>3, <2>4, <2>5 DEF DayRowRight
<1>. QED
  BY <1>3, <1>6, <1>7, <1>8

-----------------------------------------------------------------------------
(* The rows of the days.                                                    *)

(* A day after all others takes the next place. *)
LEMMA LastPlace ==
    ASSUME NEW D, IsFiniteSet(D), D \subseteq Int, NEW c \in Int, \A d \in D : d < c
    PROVE  /\ Cardinality(D) \in Nat /\ Cardinality(D \cup {c}) = Cardinality(D) + 1
           /\ {e \in D \cup {c} : e < c} = D
           /\ \A d \in D : {e \in D \cup {c} : e < d} = {e \in D : e < d}
<1>1. c \notin D
  OBVIOUS
<1>2. Cardinality(D) \in Nat /\ Cardinality(D \cup {c}) = Cardinality(D) + 1
  BY <1>1, FS_CardinalityType, FS_AddElement
<1>3. ~(c < c) /\ \A d \in D : ~(c < d)
  OBVIOUS
<1>4. {e \in D \cup {c} : e < c} = D
  BY <1>3
<1>5. \A d \in D : {e \in D \cup {c} : e < d} = {e \in D : e < d}
  BY <1>3
<1>. QED
  BY <1>2, <1>4, <1>5

LEMMA RowAppended ==
    ASSUME days \in Seq(DayRows), NEW row \in DayRows, NEW l \in Nat, l = Len(days),
           days' = Append(days, row)
    PROVE  /\ days' \in Seq(DayRows) /\ Len(days') = l + 1 /\ DOMAIN days' = 1..l + 1
           /\ DOMAIN days = 1..l /\ days'[l + 1] = row /\ \A k \in 1..l : days'[k] = days[k]
OBVIOUS

PlaceOf(D, d) == Cardinality({e \in D : e < d}) + 1

RowAt(n, d) ==
    /\ n \in DOMAIN days /\ DayRowRight(days[n], d)
    /\ days[n].net = days[n].fees + days[n].il

LEMMA RowsAreAt ==
    RowsInPlace <=> /\ Len(days) = Cardinality(FlushedDays)
                    /\ \A d \in FlushedDays : \A n : n = PlaceOf(FlushedDays, d) => RowAt(n, d)
BY DEF RowsInPlace, RowAt, PlaceOf

LEMMA RowsAreAtNext ==
    RowsInPlace' <=> /\ Len(days') = Cardinality(FlushedDays')
                     /\ \A d \in FlushedDays' : \A n : n = PlaceOf(FlushedDays', d) => RowAt(n, d)'
BY DEF RowsInPlace, RowAt, PlaceOf

(* A row is added for the day that is the last, and the others stay right.   *)
LEMMA RowAdded ==
    ASSUME RowsInPlace, days \in Seq(DayRows),
           IsFiniteSet(FlushedDays), FlushedDays \subseteq Int,
           NEW c \in Int, \A d \in FlushedDays : d < c, FlushedDays' = FlushedDays \cup {c},
           NEW row \in DayRows, days' = Append(days, row),
           DayRowRight(row, c)', row.net = row.fees + row.il,
           \A r, d : d \in FlushedDays => (DayRowRight(r, d)' <=> DayRowRight(r, d))
    PROVE  RowsInPlace' /\ days' \in Seq(DayRows)
<1>1. PICK D : D = FlushedDays
  OBVIOUS
<1>2. Len(days) = Cardinality(D) /\ \A d \in D : \A n : n = PlaceOf(D, d) => RowAt(n, d)
  BY <1>1, RowsAreAt
<1>3. /\ Cardinality(D) \in Nat /\ Cardinality(D \cup {c}) = Cardinality(D) + 1
      /\ {e \in D \cup {c} : e < c} = D
      /\ \A d \in D : {e \in D \cup {c} : e < d} = {e \in D : e < d}
  <2>1. IsFiniteSet(D) /\ D \subseteq Int /\ \A d \in D : d < c
    BY <1>1
  <2>. QED
    BY <2>1, LastPlace
<1>4. PICK l \in Nat : l = Len(days) /\ l = Cardinality(D)
  BY <1>2, <1>3
<1>5. /\ days' \in Seq(DayRows) /\ Len(days') = l + 1 /\ DOMAIN days' = 1..l + 1
      /\ DOMAIN days = 1..l /\ days'[l + 1] = row /\ \A k \in 1..l : days'[k] = days[k]
  <2>1. l = Len(days)
    BY <1>4
  <2>. QED
    BY <2>1, RowAppended
<1>6. ASSUME NEW d \in D, NEW n, n = PlaceOf(D \cup {c}, d) PROVE RowAt(n, d)'
  <2>1. n = PlaceOf(D, d)
    BY <1>3, <1>6 DEF PlaceOf
  <2>2. PICK r : r = days[n]
    OBVIOUS
  <2>3. n \in 1..l /\ DayRowRight(r, d) /\ r.net = r.fees + r.il
    BY <1>2, <1>5, <2>1, <2>2 DEF RowAt
  <2>4. DayRowRight(r, d)' /\ days'[n] = r /\ n \in DOMAIN days'
    BY <1>1, <1>5, <2>2, <2>3
  <2>. QED
    BY <2>3, <2>4 DEF RowAt, DayRowRight
<1>7. ASSUME NEW n, n = PlaceOf(D \cup {c}, c) PROVE RowAt(n, c)'
  <2>1. n = l + 1
    BY <1>3, <1>4, <1>7 DEF PlaceOf
  <2>2. days'[n] = row /\ n \in DOMAIN days'
    BY <1>5, <2>1
  <2>. QED
    BY <2>2 DEF RowAt, DayRowRight
<1>8. Len(days') = Cardinality(FlushedDays') /\ FlushedDays' = D \cup {c}
  BY <1>1, <1>3, <1>4, <1>5
<1>9. \A d \in FlushedDays' : \A n : n = PlaceOf(FlushedDays', d) => RowAt(n, d)'
  BY <1>6, <1>7, <1>8
<1>. QED
  BY <1>5, <1>8, <1>9, RowsAreAtNext

(* No row is added, and all stay right. *)
LEMMA RowsKept ==
    ASSUME RowsInPlace, FlushedDays' = FlushedDays, days' = days,
           \A r, d : d \in FlushedDays => (DayRowRight(r, d)' <=> DayRowRight(r, d))
    PROVE  RowsInPlace'
<1>1. /\ Len(days) = Cardinality(FlushedDays)
      /\ \A d \in FlushedDays : \A n : n = PlaceOf(FlushedDays, d) => RowAt(n, d)
  BY RowsAreAt
<1>2. ASSUME NEW d \in FlushedDays, NEW n, RowAt(n, d) PROVE RowAt(n, d)'
  <2>1. PICK r : r = days[n]
    OBVIOUS
  <2>2. DayRowRight(r, d)'
    BY <1>2, <2>1 DEF RowAt
  <2>. QED
    BY <1>2, <2>1, <2>2 DEF RowAt, DayRowRight
<1>. QED
  BY <1>1, <1>2, RowsAreAtNext

-----------------------------------------------------------------------------
(* The steps of a replay and of a simulation.                               *)

(* What a trace that stays the same leaves alone. *)
LEMMA TraceStays ==
    ASSUME trace' = trace
    PROVE  /\ \A k : FeesAfter(k)' = FeesAfter(k) /\ MovedUpto(k)' = MovedUpto(k)
           /\ \A moves : LossOf(moves)' = LossOf(moves)
           /\ \A k : LossAfter(k)' = LossAfter(k)
           /\ TraceDays' = TraceDays
           /\ \A r, d : DayRowRight(r, d)' <=> DayRowRight(r, d)
<1>1. Paid' = Paid /\ Losses' = Losses
  BY DEF Paid, Losses
<1>2. TraceSums /\ TraceSums'
  BY TraceIsSummed, PTL
<1>3. \A k : FeesAfter(k)' = FeesAfter(k)
  BY <1>1, <1>2 DEF TraceSums
<1>4. \A moves : LossOf(moves)' = LossOf(moves)
  BY <1>1, <1>2 DEF TraceSums
<1>5. \A k : MovedUpto(k)' = MovedUpto(k)
  BY DEF MovedUpto
<1>6. ASSUME NEW k PROVE LossAfter(k)' = LossAfter(k)
  <2>1. PICK moves : moves = MovedUpto(k - 1)
    OBVIOUS
  <2>2. MovedUpto(k - 1)' = moves
    BY <1>5, <2>1
  <2>3. LossOf(MovedUpto(k - 1))' = LossOf(moves)'
    BY <2>2 DEF LossOf
  <2>. QED
    BY <1>4, <2>1, <2>3 DEF LossAfter
<1>7. TraceDays' = TraceDays
  BY DEF TraceDays
<1>8. \A d : LastOf(d)' = LastOf(d)
  BY DEF LastOf
<1>9. ASSUME NEW r, NEW d PROVE DayRowRight(r, d)' <=> DayRowRight(r, d)
  <2>1. PICK m : m = LastOf(d)
    OBVIOUS
  <2>2. LastOf(d)' = m
    BY <1>8, <2>1
  <2>3. FeesAfter(LastOf(d))' = FeesAfter(m)' /\ LossAfter(LastOf(d))' = LossAfter(m)'
    BY <2>2 DEF FeesAfter, LossAfter, MovedUpto
  <2>4. trace'[LastOf(d)'].price = trace[LastOf(d)].price
    BY <2>1, <2>2
  <2>. QED
    BY <1>3, <1>6, <2>1, <2>3, <2>4 DEF DayRowRight
<1>. QED
  BY <1>3, <1>4, <1>5, <1>6, <1>7, <1>9

(* What an entry does to the accumulators, of a replay or a simulation. *)
Accumulates(e) ==
    /\ trace' = Append(trace, e) /\ done' = done + 1 /\ fees' = fees + e.paid
    /\ realized' = (IF e.moved THEN realized + e.il ELSE realized)
    /\ unrealized' = (IF e.moved THEN 0 ELSE e.il)
    /\ rebalances' = (IF e.moved THEN rebalances + 1 ELSE rebalances)

LEMMA EntryWorth ==
    ASSUME ReplayTypeOK, WorthToDate, NEW e \in TraceEntry, Accumulates(e)
    PROVE  /\ fees' = FeesAfter(done)' /\ realized' = LossOf(MovedUpto(done))'
           /\ rebalances' = Cardinality(MovedUpto(done))'
           /\ realized' + unrealized' = LossAfter(done)'
           /\ realized' + unrealized' = realized + e.il
           /\ fees' \in Nat /\ realized' \in Int /\ unrealized' \in Int /\ rebalances' \in Nat
           /\ trace' \in Seq(TraceEntry) /\ done' = Len(trace') /\ trace' # <<>>
<1>1. PICK n \in Nat : n = Len(trace) /\ n = done
  BY DEF ReplayTypeOK
<1>2. /\ trace \in Seq(TraceEntry) /\ fees \in Nat /\ realized \in Int /\ unrealized \in Int
      /\ rebalances \in Nat
  BY DEF ReplayTypeOK
<1>3. /\ fees = FeesAfter(n) /\ realized = LossOf(MovedUpto(n))
      /\ rebalances = Cardinality(MovedUpto(n))
  BY <1>1 DEF WorthToDate
<1>4. /\ e.paid \in Nat /\ e.il \in Int /\ e.moved \in BOOLEAN
  BY DEF TraceEntry
<1>5. /\ trace' = Append(trace, e) /\ done' = n + 1 /\ fees' = fees + e.paid
      /\ realized' = (IF e.moved THEN realized + e.il ELSE realized)
      /\ unrealized' = (IF e.moved THEN 0 ELSE e.il)
      /\ rebalances' = (IF e.moved THEN rebalances + 1 ELSE rebalances)
  BY <1>1 DEF Accumulates
<1>6. /\ trace' \in Seq(TraceEntry) /\ Len(trace') = n + 1
      /\ FeesAfter(n + 1)' = FeesAfter(n) + e.paid
      /\ MovedUpto(n + 1)' = IF e.moved THEN MovedUpto(n) \cup {n + 1} ELSE MovedUpto(n)
      /\ LossOf(MovedUpto(n + 1))' = LossOf(MovedUpto(n)) + (IF e.moved THEN e.il ELSE 0)
      /\ LossAfter(n + 1)' = e.il + LossOf(MovedUpto(n))
  BY <1>1, <1>2, <1>5, EntryAdds
<1>7. /\ FeesAfter(done)' = FeesAfter(n + 1)' /\ MovedUpto(done)' = MovedUpto(n + 1)'
      /\ LossAfter(done)' = LossAfter(n + 1)'
      /\ LossOf(MovedUpto(done))' = LossOf(MovedUpto(n + 1))'
  BY <1>5 DEF FeesAfter, LossAfter, MovedUpto
<1>8. /\ fees' \in Nat /\ realized' \in Int /\ unrealized' \in Int /\ rebalances' \in Nat
      /\ realized' + unrealized' = realized + e.il
  BY <1>2, <1>4, <1>5
<1>9. rebalances' = Cardinality(MovedUpto(done)')
  <2>1. PICK M : M = MovedUpto(n)
    OBVIOUS
  <2>2. M \subseteq 1..n
    BY <2>1 DEF MovedUpto
  <2>3. n + 1 \notin M /\ IsFiniteSet(M)
    <3>1. n + 1 \notin 1..n
      OBVIOUS
    <3>. QED
      BY <2>2, <3>1, UptoFinite
  <2>4. Cardinality(M \cup {n + 1}) = Cardinality(M) + 1
    BY <2>3, FS_AddElement
  <2>5. MovedUpto(done)' = IF e.moved THEN M \cup {n + 1} ELSE M
    BY <1>6, <1>7, <2>1
  <2>. QED
    BY <1>3, <1>4, <1>5, <2>1, <2>4, <2>5
<1>10. trace' # <<>> /\ done' = Len(trace')
  BY <1>5, <1>6
<1>11. fees' = FeesAfter(done)' /\ realized' = LossOf(MovedUpto(done))'
  BY <1>2, <1>3, <1>4, <1>5, <1>6, <1>7
<1>12. realized' + unrealized' = LossAfter(done)'
  <2>1. LossAfter(done)' = e.il + realized
    BY <1>3, <1>6, <1>7
  <2>. QED
    BY <1>2, <1>4, <1>8, <2>1
<1>. QED
  BY <1>6, <1>8, <1>9, <1>10, <1>11, <1>12

(* The entry of a row of the stream. *)
LEMMA RowEntry ==
    ASSUME ReplayTypeOK, StreamInOrder, ReplayRow
    PROVE  \E e \in TraceEntry :
             /\ Accumulates(e) /\ e.day = DayOf(stream[done + 1])
             /\ e.price = stream[done + 1].price
             /\ UNCHANGED <<replay, stream, config>> /\ range' \in Ranges
             /\ LET newDay == done > 0 /\ e.day # trace[done].day
                IN  /\ days' = IF newDay THEN Flushed ELSE days
                    /\ today' = [inRange |-> e.inRange \/ (~newDay /\ today.inRange),
                                 price |-> stream[done + 1].price]
<1>1. PICK n \in Nat : n = done /\ n = Len(trace) /\ n < Len(stream) /\ stream # <<>>
  BY DEF ReplayTypeOK, ReplayRow
<1>2. n + 1 \in DOMAIN stream /\ n + 1 \in 1..Len(stream) /\ \A k \in DOMAIN stream : stream[k] \in TickRow
  BY <1>1 DEF ReplayTypeOK
<1> DEFINE row == stream[n + 1]
           inRange == InRange(price_to_tick(row.price), price_to_tick(range.lower),
                              price_to_tick(range.upper))
           il == Loss(row.price)
           moves == Signal(row.price, fees + Gain(n + 1) + realized + il)
           e == [day |-> DayOf(row), price |-> row.price, inRange |-> inRange,
                 paid |-> Gain(n + 1), il |-> il, moved |-> moves]
           newDay == n + 1 > 1 /\ DayOf(row) # DayOf(stream[(n + 1) - 1])
<1>3. row.price \in Closes /\ row.price \in Int /\ row.time \in Nat
  BY <1>2, CandleAssumption DEF TickRow
<1>4. /\ days' = IF newDay THEN Flushed ELSE days
      /\ today' = [inRange |-> inRange \/ (~newDay /\ today.inRange), price |-> row.price]
      /\ fees' = fees + Gain(n + 1)
      /\ realized' = IF moves THEN realized + il ELSE realized
      /\ unrealized' = IF moves THEN 0 ELSE il
      /\ rebalances' = IF moves THEN rebalances + 1 ELSE rebalances
      /\ range' = IF moves THEN RangeAround(row.price, FactorLower, FactorUpper) ELSE range
      /\ done' = n + 1
      /\ trace' = Append(trace, e)
      /\ UNCHANGED <<replay, stream, config>>
  BY <1>1 DEF ReplayRow
<1>5. DayOf(row) \in Int
  BY <1>3, CandleAssumption, DivMono DEF DayOf, Day
<1>6. inRange \in BOOLEAN /\ moves \in BOOLEAN
  BY DEF InRange, Signal, should_rebalance
<1>7. il \in Int
  <2>1. range \in Ranges
    BY DEF ReplayTypeOK
  <2>. QED
    BY <1>3, <2>1, ReplayAssumption DEF Loss
<1>8. Gain(n + 1) \in Nat
  <2>1. CASE n = 0 \/ row.liquidity = 0
    BY <2>1 DEF Gain
  <2>2. CASE ~(n = 0 \/ row.liquidity = 0)
    <3>1. Word * Word \in Nat \ {0}
      BY WordAssumption
    <3>2. n \in DOMAIN stream /\ (n + 1) - 1 = n
      BY <1>1, <1>2, <2>2
    <3>3. row.growth \in U128 /\ stream[n].growth \in U128
      BY <1>2, <3>2 DEF TickRow
    <3>4. row.growth - stream[n].growth \in Int
      BY <3>1, <3>3 DEF U128
    <3>5. WrappingSub(row.growth, stream[n].growth) \in Nat
      <4>1. PICK a \in Int : a = row.growth - stream[n].growth
        BY <3>4
      <4>2. PICK k \in Int, r \in 0..((Word * Word) - 1) : a % (Word * Word) = r
        BY <3>1, Split
      <4>. QED
        BY <3>1, <4>1, <4>2 DEF WrappingSub
    <3>6. Gain(n + 1) = PositionLiquidity * WrappingSub(row.growth, stream[n].growth)
      BY <2>2, <3>2 DEF Gain
    <3>7. PositionLiquidity \in Nat
      BY ReplayAssumption
    <3>. QED
      BY <3>5, <3>6, <3>7
  <2>. QED
    BY <2>1, <2>2
<1>9. e \in TraceEntry
  <2> HIDE DEF inRange, il, moves
  <2>. QED
    BY <1>3, <1>5, <1>6, <1>7, <1>8 DEF TraceEntry
<1>10. Accumulates(e)
  <2> HIDE DEF inRange, il, moves
  <2>. QED
    BY <1>1, <1>4 DEF Accumulates
<1>11. newDay <=> done > 0 /\ e.day # trace[done].day
  <2>1. CASE n = 0
    BY <1>1, <2>1
  <2>2. CASE n # 0
    <3>1. n \in DOMAIN trace /\ (n + 1) - 1 = n
      BY <1>1, <2>2 DEF ReplayTypeOK
    <3>2. trace[n].day = DayOf(stream[n])
      BY <1>1, <3>1 DEF StreamInOrder
    <3>. QED
      BY <1>1, <2>2, <3>1, <3>2
  <2>. QED
    BY <2>1, <2>2
<1>12. range' \in Ranges
  <2>1. range \in Ranges /\ RangeAround(row.price, FactorLower, FactorUpper) \in Ranges
    BY <1>3 DEF ReplayTypeOK, Ranges
  <2>. QED
    BY <1>4, <2>1
<1>13. /\ e.day = DayOf(stream[done + 1]) /\ e.price = stream[done + 1].price
       /\ e.inRange = inRange /\ row = stream[done + 1]
  BY <1>1
<1> HIDE DEF e, inRange, newDay, row
<1>14. WITNESS e \in TraceEntry
<1>. QED
  BY <1>4, <1>10, <1>11, <1>12, <1>13

(* The days that are flushed, of a replay: all but the last. *)
LEMMA FlushedOfReplay ==
    ASSUME ReplayTypeOK, StreamInOrder, replay \in {"stored", "fetched"}
    PROVE  /\ IsFiniteSet(FlushedDays) /\ FlushedDays \subseteq Int
           /\ FlushedDays \subseteq TraceDays /\ IsFiniteSet(TraceDays) /\ TraceDays \subseteq Int
           /\ done = 0 => TraceDays = {} /\ FlushedDays = {}
           /\ done > 0 => /\ done \in DOMAIN trace /\ trace[done].day \in TraceDays
                          /\ FlushedDays = TraceDays \ {trace[done].day}
                          /\ \A d \in TraceDays : d <= trace[done].day
                          /\ LastOf(trace[done].day) = done
<1>1. PICK n \in Nat : n = done /\ n = Len(trace) /\ DOMAIN trace = 1..n /\ trace \in Seq(TraceEntry)
  BY DEF ReplayTypeOK
<1>2. IsFiniteSet(TraceDays) /\ TraceDays \subseteq Int
  BY <1>1, LastIs
<1>3. FlushedDays \subseteq TraceDays
  BY DEF FlushedDays
<1>4. IsFiniteSet(FlushedDays) /\ FlushedDays \subseteq Int
  BY <1>2, <1>3, FS_Subset
<1>5. done = 0 => TraceDays = {} /\ FlushedDays = {}
  <2>1. n = 0 => 1..n = {}
    OBVIOUS
  <2>. QED
    BY <1>1, <1>3, <2>1 DEF TraceDays
<1>6. ASSUME n > 0
      PROVE  /\ n \in DOMAIN trace /\ trace[n].day \in TraceDays
             /\ FlushedDays = TraceDays \ {trace[n].day}
             /\ \A d \in TraceDays : d <= trace[n].day
             /\ LastOf(trace[n].day) = n
  <2>1. n \in DOMAIN trace /\ trace[n].day \in TraceDays
    BY <1>1, <1>6 DEF TraceDays
  <2>2. FlushedDays = TraceDays \ {trace[n].day}
    BY <1>1, <1>6 DEF FlushedDays
  <2>3. \A d \in TraceDays : d <= trace[n].day
    BY <1>1, <2>1, DaysInOrder DEF TraceDays, DaysRise
  <2>4. LastOf(trace[n].day) = n
    BY <1>1, <2>1, LastIsMarked DEF LastMarked
  <2>. QED
    BY <2>1, <2>2, <2>3, <2>4
<1>. QED
  BY <1>1, <1>2, <1>3, <1>4, <1>5, <1>6

(* The row that a flush writes for the current day is right. *)
LEMMA FlushIsRight ==
    ASSUME ReplayInv, replay \in {"stored", "fetched"}, done > 0
    PROVE  LET row == DayRow(today.price, today.inRange, fees, FlushedIl)
           IN  /\ row \in DayRows /\ row.net = row.fees + row.il
               /\ DayRowRight(row, trace[done].day)
<1>0. ReplayTypeOK /\ StreamInOrder /\ WorthToDate
  BY DEF ReplayInv
<1>1. LastOf(trace[done].day) = done /\ done \in DOMAIN trace
  BY <1>0, FlushedOfReplay
<1>2. /\ fees = FeesAfter(done) /\ realized + unrealized = LossAfter(done)
      /\ today.inRange <=> \E k \in DOMAIN trace :
                              trace[k].day = trace[done].day /\ trace[k].inRange
      /\ today.price = trace[done].price
  BY <1>0, <1>1 DEF WorthToDate, ReplayTypeOK
<1>3. /\ fees \in Nat /\ realized \in Int /\ unrealized \in Int
      /\ today.price \in Int /\ today.inRange \in BOOLEAN
  BY <1>0 DEF ReplayTypeOK
<1>4. DayRow(today.price, today.inRange, fees, FlushedIl)
        = [price |-> today.price, inRange |-> today.inRange, fees |-> fees,
           il |-> realized + unrealized, net |-> fees + (realized + unrealized)]
  BY DEF DayRow, FlushedIl
<1>. QED
  BY <1>1, <1>2, <1>3, <1>4 DEF DayRows, DayRowRight

LEMMA ReplayRowStep ==
    ASSUME ReplayInv, ReplayRow
    PROVE  ReplayInv'
<1>0. ReplayTypeOK /\ StreamInOrder /\ WorthToDate /\ RowsInPlace
  BY DEF ReplayInv
<1>1. /\ replay \in {"stored", "fetched"} /\ stream # <<>> /\ done = Len(trace)
      /\ trace \in Seq(TraceEntry) /\ days \in Seq(DayRows) /\ done < Len(stream)
  BY <1>0 DEF ReplayTypeOK, ReplayRow
<1>2. PICK n \in Nat : n = done /\ n = Len(trace) /\ DOMAIN trace = 1..n
  BY <1>1
<1>3. PICK e \in TraceEntry :
         /\ Accumulates(e) /\ e.day = DayOf(stream[done + 1])
         /\ e.price = stream[done + 1].price
         /\ UNCHANGED <<replay, stream, config>> /\ range' \in Ranges
         /\ LET newDay == done > 0 /\ e.day # trace[done].day
            IN  /\ days' = IF newDay THEN Flushed ELSE days
                /\ today' = [inRange |-> e.inRange \/ (~newDay /\ today.inRange),
                             price |-> stream[done + 1].price]
  BY <1>0, RowEntry
<1> DEFINE newDay == n > 0 /\ e.day # trace[n].day
<1>4. /\ trace' = Append(trace, e) /\ done' = n + 1
      /\ days' = IF newDay THEN Flushed ELSE days
      /\ today' = [inRange |-> e.inRange \/ (~newDay /\ today.inRange),
                   price |-> stream[n + 1].price]
      /\ e.day = DayOf(stream[n + 1]) /\ e.price = stream[n + 1].price
      /\ UNCHANGED <<replay, stream, config>>
  BY <1>2, <1>3 DEF Accumulates
<1>5. /\ fees' = FeesAfter(done)' /\ realized' = LossOf(MovedUpto(done))'
      /\ rebalances' = Cardinality(MovedUpto(done))'
      /\ realized' + unrealized' = LossAfter(done)'
      /\ fees' \in Nat /\ realized' \in Int /\ unrealized' \in Int /\ rebalances' \in Nat
      /\ trace' \in Seq(TraceEntry) /\ done' = Len(trace') /\ trace' # <<>>
  BY <1>0, <1>3, EntryWorth
<1>6. /\ DOMAIN trace' = 1..n + 1 /\ trace'[n + 1] = e /\ \A k \in 1..n : trace'[k] = trace[k]
      /\ 1..n + 1 = (1..n) \cup {n + 1}
  BY <1>1, <1>2, <1>4
<1>7. StreamInOrder'
  BY <1>0, <1>1, <1>2, <1>4, <1>6 DEF StreamInOrder, DayOf, Day
<1>8. /\ e.inRange \in BOOLEAN /\ e.day \in Int
      /\ stream[n + 1].price \in Int /\ today.inRange \in BOOLEAN
  <2>1. n + 1 \in DOMAIN stream
    BY <1>1, <1>2 DEF ReplayTypeOK
  <2>2. stream[n + 1] \in TickRow
    BY <1>0, <2>1 DEF ReplayTypeOK
  <2>3. \A r \in TickRow : r.price \in Int
    BY CandleAssumption DEF TickRow
  <2>4. \A x \in TraceEntry : x.inRange \in BOOLEAN /\ x.day \in Int
    BY DEF TraceEntry
  <2>. QED
    BY <1>0, <2>2, <2>3, <2>4 DEF ReplayTypeOK
<1>9. TraceDays \subseteq Int /\ \A d \in TraceDays : n > 0 /\ d <= trace[n].day /\ trace[n].day <= e.day
  <2>1. /\ TraceDays \subseteq Int
        /\ done = 0 => TraceDays = {}
        /\ done > 0 => \A d \in TraceDays : d <= trace[done].day
    BY <1>0, <1>1, FlushedOfReplay
  <2>2. ASSUME n > 0 PROVE trace[n].day <= e.day
    <3>1. n \in DOMAIN stream /\ n + 1 \in DOMAIN stream /\ n < n + 1 /\ n \in DOMAIN trace
      BY <1>0, <1>1, <1>2, <2>2 DEF ReplayTypeOK
    <3>2. Before(stream[n], stream[n + 1])
      BY <1>0, <3>1 DEF StreamInOrder
    <3>3. stream[n].time \in Nat /\ stream[n + 1].time \in Nat
      <4>1. stream[n] \in TickRow /\ stream[n + 1] \in TickRow
        BY <1>0, <3>1 DEF ReplayTypeOK
      <4>. QED
        BY <4>1 DEF TickRow
    <3>4. stream[n].time <= stream[n + 1].time
      BY <3>2, <3>3 DEF Before
    <3>5. stream[n].time \div DayLength <= stream[n + 1].time \div DayLength
      BY <3>3, <3>4, CandleAssumption, DivMono
    <3>6. trace[n].day = stream[n].time \div DayLength
      BY <1>0, <1>1, <3>1 DEF StreamInOrder, DayOf, Day
    <3>. QED
      BY <1>4, <3>5, <3>6 DEF DayOf, Day
  <2>3. ASSUME NEW d \in TraceDays
        PROVE  n > 0 /\ d <= trace[n].day /\ trace[n].day <= e.day
    <3>1. n > 0
      BY <1>2, <2>1
    <3>. QED
      BY <1>2, <2>1, <2>2, <3>1
  <2>. QED
    BY <2>1, <2>3
<1>10. today'.inRange <=> /\ stream' # <<>>
                          /\ \E k \in DOMAIN trace' :
                                trace'[k].day = trace'[done'].day /\ trace'[k].inRange
  <2>1. today.inRange <=> \E k \in DOMAIN trace : trace[k].day = trace[n].day /\ trace[k].inRange
    BY <1>0, <1>1, <1>2 DEF WorthToDate
  <2>2. (\E k \in DOMAIN trace' : trace'[k].day = trace'[done'].day /\ trace'[k].inRange)
        <=> \/ e.inRange
            \/ \E k \in 1..n : trace[k].day = e.day /\ trace[k].inRange
    BY <1>4, <1>6
  <2>3. (\E k \in 1..n : trace[k].day = e.day /\ trace[k].inRange) => ~newDay
    <3>1. SUFFICES ASSUME NEW k \in 1..n, trace[k].day = e.day PROVE ~newDay
      OBVIOUS
    <3>2. n \in 1..n
      OBVIOUS
    <3>3. e.day \in TraceDays /\ trace[n].day \in TraceDays
      BY <1>2, <3>1, <3>2 DEF TraceDays
    <3>4. e.day <= trace[n].day /\ trace[n].day <= e.day /\ trace[n].day \in Int
      BY <1>9, <3>3
    <3>. QED
      BY <1>8, <3>4
  <2>4. ~newDay => (today.inRange <=> \E k \in 1..n : trace[k].day = e.day /\ trace[k].inRange)
    BY <1>2, <2>1
  <2>5. today'.inRange <=> e.inRange \/ (~newDay /\ today.inRange)
    BY <1>4
  <2>. QED
    BY <1>1, <1>4, <2>2, <2>3, <2>4, <2>5
<1>11. WorthToDate'
  <2>1. today'.price = trace'[done'].price
    BY <1>4, <1>6
  <2>. QED
    BY <1>5, <1>10, <2>1 DEF WorthToDate
<1>12. /\ TraceDays' = TraceDays \cup {e.day} /\ LastOf(e.day)' = n + 1
       /\ \A r, d : d \in TraceDays \ {e.day} => (DayRowRight(r, d)' <=> DayRowRight(r, d))
  BY <1>1, <1>2, <1>4, DaysStay
<1>13. FlushedDays' = (TraceDays \cup {e.day}) \ {e.day}
  BY <1>1, <1>4, <1>5, <1>6, <1>12 DEF FlushedDays
<1>14. RowsInPlace' /\ days' \in Seq(DayRows)
  <2>1. /\ IsFiniteSet(FlushedDays) /\ FlushedDays \subseteq Int
        /\ FlushedDays \subseteq TraceDays
        /\ n = 0 => TraceDays = {} /\ FlushedDays = {}
        /\ n > 0 => /\ trace[n].day \in TraceDays
                    /\ FlushedDays = TraceDays \ {trace[n].day}
                    /\ \A d \in TraceDays : d <= trace[n].day
    BY <1>0, <1>1, <1>2, FlushedOfReplay
  <2>2. CASE ~newDay
    <3>1. FlushedDays' = FlushedDays /\ FlushedDays \subseteq TraceDays \ {e.day}
      <4>1. CASE n = 0
        BY <1>13, <2>1, <4>1
      <4>2. CASE n # 0
        BY <1>13, <2>1, <2>2, <4>2
      <4>. QED
        BY <4>1, <4>2
    <3>2. days' = days
      BY <1>4, <2>2
    <3>3. RowsInPlace'
      BY <1>0, <1>12, <3>1, <3>2, RowsKept
    <3>. QED
      BY <1>1, <3>2, <3>3
  <2>3. CASE newDay
    <3>1. PICK c \in Int : c = trace[n].day /\ c # e.day /\ c \in TraceDays
      BY <1>9, <2>1, <2>3
    <3>2. e.day \notin TraceDays
      BY <1>8, <1>9, <3>1
    <3>3. FlushedDays' = FlushedDays \cup {c} /\ \A d \in FlushedDays : d < c
      BY <1>13, <2>1, <2>3, <3>1, <3>2
    <3>4. PICK row \in DayRows : /\ row = DayRow(today.price, today.inRange, fees, FlushedIl)
                                 /\ row.net = row.fees + row.il /\ DayRowRight(row, c)
      BY <1>1, <1>2, <2>3, <3>1, FlushIsRight
    <3>5. days' = Append(days, row)
      BY <1>4, <2>3, <3>4 DEF Flushed
    <3>6. DayRowRight(row, c)'
      BY <1>12, <3>1, <3>4
    <3>7. \A r, d : d \in FlushedDays => (DayRowRight(r, d)' <=> DayRowRight(r, d))
      BY <1>12, <2>1, <3>2
    <3>. QED
      BY <1>0, <1>1, <2>1, <3>3, <3>4, <3>5, <3>6, <3>7, RowAdded
  <2>. QED
    BY <2>2, <2>3
<1>15. ReplayTypeOK'
  <2>1. today' \in [inRange : BOOLEAN, price : Int]
    BY <1>4, <1>8
  <2>2. done' <= (IF stream' = <<>> THEN SimulatedDays ELSE Len(stream'))
    BY <1>0, <1>1, <1>2, <1>4 DEF ReplayTypeOK
  <2>3. replay' \in {"stored", "fetched"} /\ stream' # <<>> /\ stream' \in Seq(TickRow)
        /\ config' \in RebalanceConfig
    BY <1>0, <1>1, <1>4 DEF ReplayTypeOK
  <2>. QED
    BY <1>3, <1>5, <1>14, <2>1, <2>2, <2>3 DEF ReplayTypeOK
<1>. QED
  BY <1>7, <1>11, <1>14, <1>15 DEF ReplayInv

(* The last flush. *)
LEMMA FlushLastStep ==
    ASSUME ReplayInv, FlushLast
    PROVE  ReplayInv'
<1>0. ReplayTypeOK /\ StreamInOrder /\ WorthToDate /\ RowsInPlace
  BY DEF ReplayInv
<1>1. /\ replay \in {"stored", "fetched"} /\ stream # <<>> /\ done = Len(stream) /\ done = Len(trace)
      /\ stream \in Seq(TickRow) /\ trace \in Seq(TraceEntry) /\ days \in Seq(DayRows)
      /\ days' = Flushed /\ replay' = "done"
      /\ UNCHANGED <<stream, config, done, range, fees, realized, unrealized, today,
                     rebalances, trace>>
  BY <1>0 DEF ReplayTypeOK, FlushLast
<1>2. done > 0 /\ trace # <<>>
  <2>1. \A q \in Seq(TickRow) : q # <<>> => Len(q) > 0
    OBVIOUS
  <2>2. done > 0
    BY <1>1, <2>1
  <2>. QED
    BY <1>1, <2>2
<1>3. /\ \A k : FeesAfter(k)' = FeesAfter(k) /\ MovedUpto(k)' = MovedUpto(k)
      /\ \A moves : LossOf(moves)' = LossOf(moves)
      /\ \A k : LossAfter(k)' = LossAfter(k)
      /\ TraceDays' = TraceDays
      /\ \A r, d : DayRowRight(r, d)' <=> DayRowRight(r, d)
  BY <1>1, TraceStays
<1>4. StreamInOrder'
  BY <1>0, <1>1 DEF StreamInOrder, DayOf, Day
<1>5. WorthToDate'
  <2>1. PICK n : n = done
    OBVIOUS
  <2>2. /\ FeesAfter(done)' = FeesAfter(n)' /\ LossAfter(done)' = LossAfter(n)'
        /\ MovedUpto(done)' = MovedUpto(n)'
    BY <1>1, <2>1 DEF FeesAfter, LossAfter, MovedUpto
  <2>3. PICK moves : moves = MovedUpto(n)
    OBVIOUS
  <2>4. MovedUpto(done)' = moves
    BY <1>3, <2>2, <2>3
  <2>5. LossOf(MovedUpto(done))' = LossOf(moves)'
    BY <2>4 DEF LossOf
  <2>. QED
    BY <1>0, <1>1, <1>3, <2>1, <2>2, <2>3, <2>4, <2>5 DEF WorthToDate
<1>6. RowsInPlace' /\ days' \in Seq(DayRows)
  <2>1. /\ IsFiniteSet(FlushedDays) /\ FlushedDays \subseteq Int /\ TraceDays \subseteq Int
        /\ trace[done].day \in TraceDays /\ FlushedDays = TraceDays \ {trace[done].day}
        /\ \A d \in TraceDays : d <= trace[done].day
    BY <1>0, <1>1, <1>2, FlushedOfReplay
  <2>2. PICK c \in Int : c = trace[done].day
    BY <2>1
  <2>3. FlushedDays' = FlushedDays \cup {c} /\ \A d \in FlushedDays : d < c
    BY <1>1, <1>3, <2>1, <2>2 DEF FlushedDays
  <2>4. PICK row \in DayRows : /\ row = DayRow(today.price, today.inRange, fees, FlushedIl)
                               /\ row.net = row.fees + row.il /\ DayRowRight(row, c)
    BY <1>1, <1>2, <2>2, FlushIsRight
  <2>5. days' = Append(days, row)
    BY <1>1, <2>4 DEF Flushed
  <2>6. DayRowRight(row, c)'
    BY <1>3, <2>4
  <2>. QED
    BY <1>0, <1>1, <1>3, <2>1, <2>3, <2>4, <2>5, <2>6, RowAdded
<1>7. ReplayTypeOK'
  BY <1>0, <1>1, <1>2, <1>6 DEF ReplayTypeOK
<1>. QED
  BY <1>4, <1>5, <1>6, <1>7 DEF ReplayInv

(* The entry of a simulated day, and the row it writes. *)
LEMMA SimulatedEntry ==
    ASSUME ReplayTypeOK, NEW price \in Closes, SimulatedDay(price)
    PROVE  \E e \in TraceEntry :
             /\ Accumulates(e) /\ e.day = done + 1 /\ e.price = price
             /\ UNCHANGED <<stream, config, today>>
             /\ days' = Append(days, DayRow(price, e.inRange, fees + e.paid, realized + e.il))
             /\ range' \in SimulatedRanges /\ stream = <<>> /\ done < SimulatedDays
             /\ replay' = IF done + 1 = SimulatedDays THEN "done" ELSE "simulated"
<1>1. /\ replay = "simulated" /\ stream = <<>> /\ range \in SimulatedRanges /\ range \in Ranges
      /\ done \in Nat /\ done < SimulatedDays /\ config \in RebalanceConfig
  BY DEF ReplayTypeOK, SimulatedDay
<1> DEFINE inRange == range.lower <= price /\ price <= range.upper
           paid == IF inRange THEN DailyFees ELSE 0
           il == Loss(price)
           moves == config.outOfRange /\ Signal(price, fees + paid + realized + il)
           half == (range.upper - range.lower) \div 2
           e == [day |-> done', price |-> price, inRange |-> inRange, paid |-> paid,
                 il |-> il, moved |-> moves]
<1>2. /\ days' = Append(days, DayRow(price, inRange, fees + paid, realized + il))
      /\ fees' = fees + paid
      /\ realized' = IF moves THEN realized + il ELSE realized
      /\ unrealized' = IF moves THEN 0 ELSE il
      /\ rebalances' = IF moves THEN rebalances + 1 ELSE rebalances
      /\ range' = IF moves THEN RangeAround(price, half, half) ELSE range
      /\ done' = done + 1
      /\ trace' = Append(trace, e)
      /\ replay' = IF done' = SimulatedDays THEN "done" ELSE replay
      /\ UNCHANGED <<stream, config, today>>
  BY DEF SimulatedDay
<1>3. inRange \in BOOLEAN /\ moves \in BOOLEAN
  BY DEF Signal, should_rebalance, InRange
<1>4. il \in Int
  BY <1>1, ReplayAssumption DEF Loss
<1>5. paid \in Nat
  BY ReplayAssumption
<1>6. half = HalfWidth
  <2>1. PriceUpper - PriceLower \in Int
    BY ReplayAssumption
  <2>2. HalfWidth \in Int
    BY <2>1, Split DEF HalfWidth
  <2>3. CASE range = CommandRange
    BY <2>3 DEF CommandRange, HalfWidth
  <2>4. ASSUME NEW c \in Closes, range = RangeAround(c, HalfWidth, HalfWidth) PROVE half = HalfWidth
    <3>1. PICK h \in Int : h = HalfWidth
      BY <2>2
    <3>2. c \in Int
      BY CandleAssumption
    <3>3. range.upper = c + h /\ range.lower = c - h
      BY <2>4, <3>1 DEF RangeAround
    <3>4. PICK w \in Int : w = range.upper - range.lower /\ w = 2 * h + 0
      BY <3>2, <3>3
    <3>5. w \div 2 = h
      BY <3>4, ModOf
    <3>. QED
      BY <3>1, <3>4, <3>5
  <2>. QED
    BY <1>1, <2>3, <2>4 DEF SimulatedRanges
<1>7. range' \in SimulatedRanges
  BY <1>1, <1>2, <1>6 DEF SimulatedRanges
<1> HIDE DEF inRange, il, moves, paid
<1>8. e \in TraceEntry
  <2>1. price \in Int
    BY CandleAssumption
  <2>. QED
    BY <1>1, <1>2, <1>3, <1>4, <1>5, <2>1 DEF TraceEntry
<1>9. Accumulates(e) /\ e.day = done + 1 /\ e.price = price
  BY <1>2 DEF Accumulates
<1>10. days' = Append(days, DayRow(price, e.inRange, fees + e.paid, realized + e.il))
  BY <1>2
<1>11. replay' = IF done + 1 = SimulatedDays THEN "done" ELSE "simulated"
  BY <1>1, <1>2
<1>12. UNCHANGED <<stream, config, today>>
  BY <1>2
<1> HIDE DEF e
<1>13. WITNESS e \in TraceEntry
<1>. QED
  BY <1>1, <1>7, <1>9, <1>10, <1>11, <1>12

LEMMA SimulatedDayStep ==
    ASSUME ReplayInv, NEW price \in Closes, SimulatedDay(price)
    PROVE  ReplayInv'
<1>0. ReplayTypeOK /\ StreamInOrder /\ WorthToDate /\ RowsInPlace
  BY DEF ReplayInv
<1>1. PICK e \in TraceEntry :
         /\ Accumulates(e) /\ e.day = done + 1 /\ e.price = price
         /\ UNCHANGED <<stream, config, today>>
         /\ days' = Append(days, DayRow(price, e.inRange, fees + e.paid, realized + e.il))
         /\ range' \in SimulatedRanges /\ stream = <<>> /\ done < SimulatedDays
         /\ replay' = IF done + 1 = SimulatedDays THEN "done" ELSE "simulated"
  BY <1>0, SimulatedEntry
<1>2. /\ trace \in Seq(TraceEntry) /\ days \in Seq(DayRows) /\ replay = "simulated"
      /\ fees \in Nat /\ realized \in Int
  BY <1>0 DEF ReplayTypeOK, SimulatedDay
<1>3. PICK n \in Nat : n = done /\ n = Len(trace) /\ DOMAIN trace = 1..n
  BY <1>0, <1>2 DEF ReplayTypeOK
<1>4. trace' = Append(trace, e) /\ done' = n + 1 /\ fees' = fees + e.paid /\ e.day = n + 1
  BY <1>1, <1>3 DEF Accumulates
<1>5. /\ fees' = FeesAfter(done)' /\ realized' = LossOf(MovedUpto(done))'
      /\ rebalances' = Cardinality(MovedUpto(done))'
      /\ realized' + unrealized' = LossAfter(done)' /\ realized' + unrealized' = realized + e.il
      /\ fees' \in Nat /\ realized' \in Int /\ unrealized' \in Int /\ rebalances' \in Nat
      /\ trace' \in Seq(TraceEntry) /\ done' = Len(trace') /\ trace' # <<>>
  BY <1>0, <1>1, EntryWorth
<1>6. /\ DOMAIN trace' = 1..n + 1 /\ trace'[n + 1] = e /\ \A k \in 1..n : trace'[k] = trace[k]
      /\ 1..n + 1 = (1..n) \cup {n + 1}
  BY <1>2, <1>3, <1>4
<1>7. stream' = <<>> /\ \A k \in 1..n : trace[k].day = k
  BY <1>0, <1>1, <1>3 DEF StreamInOrder
<1>8. StreamInOrder'
  BY <1>4, <1>6, <1>7 DEF StreamInOrder
<1>9. WorthToDate'
  <2>1. today' = today /\ ~today.inRange
    BY <1>0, <1>1 DEF WorthToDate, ReplayTypeOK
  <2>. QED
    BY <1>5, <1>7, <2>1 DEF WorthToDate
<1>10. /\ TraceDays' = TraceDays \cup {n + 1} /\ LastOf(n + 1)' = n + 1
       /\ \A r, d : d \in TraceDays \ {n + 1} => (DayRowRight(r, d)' <=> DayRowRight(r, d))
  BY <1>2, <1>3, <1>4, DaysStay
<1>11. /\ FlushedDays = TraceDays /\ FlushedDays' = TraceDays \cup {n + 1}
  BY <1>1, <1>2, <1>10 DEF FlushedDays
<1>12. TraceDays = 1..n /\ IsFiniteSet(TraceDays) /\ TraceDays \subseteq Int
  <2>1. TraceDays = 1..n
    BY <1>3, <1>7 DEF TraceDays
  <2>. QED
    BY <1>2, <1>3, <2>1, LastIs
<1>13. RowsInPlace' /\ days' \in Seq(DayRows)
  <2>1. PICK c \in Int : c = n + 1 /\ c \notin TraceDays /\ \A d \in TraceDays : d < c
    BY <1>12
  <2>2. e.inRange \in BOOLEAN /\ e.paid \in Nat /\ e.il \in Int /\ price \in Int
    BY CandleAssumption DEF TraceEntry
  <2>3. PICK row : row = DayRow(price, e.inRange, fees + e.paid, realized + e.il)
    OBVIOUS
  <2>4. row = [price |-> price, inRange |-> e.inRange, fees |-> fees + e.paid,
               il |-> realized + e.il, net |-> (fees + e.paid) + (realized + e.il)]
    BY <2>3 DEF DayRow
  <2>5. fees + e.paid \in Nat /\ realized + e.il \in Int
        /\ (fees + e.paid) + (realized + e.il) \in Int
    <3>1. fees \in Nat /\ realized \in Int
      BY <1>2
    <3>. QED
      BY <2>2, <3>1
  <2>6. row \in DayRows /\ row.net = row.fees + row.il
    BY <2>2, <2>4, <2>5 DEF DayRows
  <2>7. DayRowRight(row, c)'
    <3>1. LastOf(c)' = done'
      BY <1>4, <1>10, <2>1
    <3>2. FeesAfter(LastOf(c))' = FeesAfter(done)' /\ LossAfter(LastOf(c))' = LossAfter(done)'
      BY <3>1 DEF FeesAfter, LossAfter, MovedUpto
    <3>3. row.fees = fees' /\ row.il = realized' + unrealized' /\ row.inRange = e.inRange
      BY <1>4, <1>5, <2>4
    <3>4. e.inRange <=> \E k \in DOMAIN trace' : trace'[k].day = c /\ trace'[k].inRange
      <4>1. \A k \in 1..n : trace'[k].day # c
        BY <1>6, <1>7, <2>1
      <4>2. trace'[n + 1].day = c
        BY <1>4, <1>6, <2>1
      <4>. QED
        BY <1>6, <4>1, <4>2
    <3>5. row.price = trace'[LastOf(c)'].price
      BY <1>1, <1>4, <1>6, <2>4, <3>1
    <3>. QED
      BY <1>5, <3>2, <3>3, <3>4, <3>5 DEF DayRowRight
  <2>8. days' = Append(days, row)
    BY <1>1, <2>3
  <2>9. \A r, d : d \in FlushedDays => (DayRowRight(r, d)' <=> DayRowRight(r, d))
    BY <1>10, <1>11, <2>1
  <2>10. /\ FlushedDays' = FlushedDays \cup {c} /\ \A d \in FlushedDays : d < c
         /\ IsFiniteSet(FlushedDays) /\ FlushedDays \subseteq Int
    BY <1>11, <1>12, <2>1
  <2>. QED
    BY <1>0, <1>2, <2>6, <2>7, <2>8, <2>9, <2>10, RowAdded
<1>14. ReplayTypeOK'
  <2>1. /\ replay' \in {"simulated", "done"}
        /\ replay' = "simulated" => done' < SimulatedDays
        /\ done' <= SimulatedDays
    BY <1>1, <1>3, <1>4, ReplayAssumption
  <2>2. range' \in SimulatedRanges /\ range' \in Ranges
    BY <1>1 DEF Ranges
  <2>. QED
    BY <1>0, <1>1, <1>5, <1>7, <1>13, <2>1, <2>2 DEF ReplayTypeOK
<1>. QED
  BY <1>8, <1>9, <1>13, <1>14 DEF ReplayInv

-----------------------------------------------------------------------------
(* What is replayed is in order, and the loop starts.                       *)

LEMMA RowsFinite ==
    ASSUME NEW slots, IsFiniteSet(slots), NEW rows, \A r \in rows : r.slot \in slots,
           \A r, s \in rows : r.slot = s.slot => r = s
    PROVE  IsFiniteSet(rows)
<1> DEFINE f == [r \in rows |-> r.slot]
<1>1. f \in Injection(rows, slots)
  BY DEF Injection, IsInjective
<1>. QED
  BY <1>1, FS_Injection

(* The rows of a window of the table. *)
LEMMA StoredRows ==
    ASSUME CandleTypeOK, NEW from, NEW to
    PROVE  LET q == read_ticks(from, to)
           IN  /\ q \in Seq(TickRow) /\ \A j, k \in DOMAIN q : j < k => Before(q[j], q[k])
               /\ \A k \in DOMAIN q : \E s \in DOMAIN db :
                      q[k] = db[s] /\ from <= db[s].time /\ db[s].time < to
               /\ \A s \in DOMAIN db : from <= db[s].time /\ db[s].time < to
                      => \E k \in DOMAIN q : q[k] = db[s]
<1> DEFINE rows == {db[s] : s \in {x \in DOMAIN db : from <= db[x].time /\ db[x].time < to}}
           q == InReadOrder(rows)
<1>1. IsFiniteSet(DOMAIN db) /\ \A s \in DOMAIN db : db[s] \in TickRow /\ db[s].slot = s
  BY DEF CandleTypeOK
<1>2. /\ rows \subseteq TickRow /\ \A r \in rows : r.slot \in DOMAIN db /\ r = db[r.slot]
  BY <1>1
<1>3. read_ticks(from, to) = q
  BY DEF read_ticks
<1>8. /\ \A r \in rows : \E s \in DOMAIN db : r = db[s] /\ from <= db[s].time /\ db[s].time < to
      /\ \A s \in DOMAIN db : from <= db[s].time /\ db[s].time < to => db[s] \in rows
  OBVIOUS
<1> HIDE DEF rows
<1>4. \A r, s \in rows : r.slot = s.slot => r = s
  BY <1>2
<1>5. IsFiniteSet(rows)
  BY <1>1, <1>2, <1>4, RowsFinite
<1>6. /\ q \in Seq(rows) /\ \A j, k \in DOMAIN q : j < k => Before(q[j], q[k])
      /\ \A r \in rows : \E k \in DOMAIN q : q[k] = r
  BY <1>2, <1>4, <1>5, RowsInOrder
<1> HIDE DEF q
<1>7. q \in Seq(TickRow) /\ \A k \in DOMAIN q : q[k] \in rows
  BY <1>2, <1>6
<1>. QED
  BY <1>3, <1>6, <1>7, <1>8

(* The rows made of a fetch. *)
LEMMA FetchedRows ==
    ASSUME CandleTypeOK, NEW all, all \subseteq DOMAIN candles, all # {}, NoHole(all)
    PROVE  LET q == InReadOrder(Synthesized(all))
           IN  /\ q \in Seq(TickRow) /\ \A j, k \in DOMAIN q : j < k => Before(q[j], q[k])
               /\ \A k \in DOMAIN q : q[k] \in Synthesized(all)
               /\ \A r \in Synthesized(all) : \E k \in DOMAIN q : q[k] = r
<1> DEFINE rows == Synthesized(all)
           slots == all \cup {Min(all) - 1}
           q == InReadOrder(rows)
<1>1. /\ \A r \in rows : r \in TickRow /\ r.slot \in slots
      /\ \A r1, r2 \in rows : r1.slot = r2.slot => r1 = r2
  BY RowsOf
<1>2. IsFiniteSet(slots)
  BY CandlesAre, FS_AddElement
<1> HIDE DEF rows, slots
<1>3. IsFiniteSet(rows) /\ rows \subseteq TickRow
  BY <1>1, <1>2, RowsFinite
<1>4. /\ q \in Seq(rows) /\ \A j, k \in DOMAIN q : j < k => Before(q[j], q[k])
      /\ \A r \in rows : \E k \in DOMAIN q : q[k] = r
  BY <1>1, <1>3, RowsInOrder
<1> HIDE DEF q
<1>5. q \in Seq(TickRow) /\ \A k \in DOMAIN q : q[k] \in rows
  BY <1>3, <1>4
<1>. QED
  BY <1>4, <1>5 DEF q, rows

(* Nothing of the loop moves but what it is given. *)
LEMMA WorthStays ==
    ASSUME ReplayInv, UNCHANGED <<done, range, fees, realized, unrealized, today, days,
                                  rebalances, trace>>,
           FlushedDays' = FlushedDays, stream' = stream \/ trace = <<>>
    PROVE  WorthToDate' /\ RowsInPlace'
<1>0. ReplayTypeOK /\ WorthToDate /\ RowsInPlace
  BY DEF ReplayInv
<1>1. /\ \A k : FeesAfter(k)' = FeesAfter(k) /\ MovedUpto(k)' = MovedUpto(k)
      /\ \A moves : LossOf(moves)' = LossOf(moves)
      /\ \A k : LossAfter(k)' = LossAfter(k)
      /\ \A r, d : DayRowRight(r, d)' <=> DayRowRight(r, d)
  BY TraceStays
<1>2. WorthToDate'
  <2>1. PICK n : n = done
    OBVIOUS
  <2>2. /\ FeesAfter(done)' = FeesAfter(n)' /\ LossAfter(done)' = LossAfter(n)'
        /\ MovedUpto(done)' = MovedUpto(n)'
    BY <2>1 DEF FeesAfter, LossAfter, MovedUpto
  <2>3. PICK moves : moves = MovedUpto(n)
    OBVIOUS
  <2>4. MovedUpto(done)' = moves
    BY <1>1, <2>2, <2>3
  <2>5. LossOf(MovedUpto(done))' = LossOf(moves)'
    BY <2>4 DEF LossOf
  <2>6. /\ fees' = FeesAfter(done)' /\ realized' = LossOf(MovedUpto(done))'
        /\ rebalances' = Cardinality(MovedUpto(done)')
        /\ trace' # <<>> => realized' + unrealized' = LossAfter(done)'
    BY <1>0, <1>1, <2>1, <2>2, <2>3, <2>4, <2>5 DEF WorthToDate
  <2>7. today'.inRange <=> /\ stream' # <<>>
                           /\ \E k \in DOMAIN trace' :
                                 trace'[k].day = trace'[done'].day /\ trace'[k].inRange
    <3>1. CASE stream' = stream
      BY <1>0, <3>1 DEF WorthToDate
    <3>2. CASE trace = <<>>
      <4>1. DOMAIN trace = {} /\ DOMAIN trace' = {}
        BY <3>2
      <4>. QED
        BY <1>0, <4>1 DEF WorthToDate
    <3>. QED
      BY <3>1, <3>2
  <2>8. trace' # <<>> /\ stream' # <<>> => today'.price = trace'[done'].price
    BY <1>0 DEF WorthToDate
  <2>. QED
    BY <2>6, <2>7, <2>8 DEF WorthToDate
<1>3. RowsInPlace'
  BY <1>0, <1>1, RowsKept
<1>. QED
  BY <1>2, <1>3

LEMMA LoopStays ==
    ASSUME ReplayInv, UNCHANGED loop
    PROVE  ReplayInv'
<1>0. ReplayTypeOK /\ StreamInOrder
  BY DEF ReplayInv
<1>1. UNCHANGED <<replay, stream, config, done, range, fees, realized, unrealized, today, days,
                  rebalances, trace>>
  BY DEF loop
<1>2. FlushedDays' = FlushedDays
  BY <1>1 DEF FlushedDays, TraceDays
<1>3. WorthToDate' /\ RowsInPlace'
  BY <1>1, <1>2, WorthStays
<1>4. ReplayTypeOK'
  BY <1>0, <1>1 DEF ReplayTypeOK
<1>5. StreamInOrder'
  BY <1>0, <1>1 DEF StreamInOrder, DayOf, Day
<1>. QED
  BY <1>3, <1>4, <1>5 DEF ReplayInv

LEMMA StartStep ==
    ASSUME ReplayInv, replay = "none", config' \in RebalanceConfig, stream' \in Seq(TickRow),
           \A j, k \in DOMAIN stream' : j < k => Before(stream'[j], stream'[k]),
           \/ replay' \in {"stored", "fetched"} /\ stream' # <<>>
           \/ replay' = "simulated" /\ stream' = <<>>,
           UNCHANGED <<done, range, fees, realized, unrealized, today, days, rebalances, trace>>
    PROVE  ReplayInv'
<1>0. ReplayTypeOK
  BY DEF ReplayInv
<1>1. /\ stream = <<>> /\ trace = <<>> /\ done = 0 /\ range \in SimulatedRanges
      /\ DOMAIN trace = {} /\ DOMAIN trace' = {} /\ trace' = <<>>
  BY <1>0 DEF ReplayTypeOK
<1>2. FlushedDays' = FlushedDays
  BY <1>1 DEF FlushedDays, TraceDays
<1>3. WorthToDate' /\ RowsInPlace'
  BY <1>1, <1>2, WorthStays
<1>4. StreamInOrder'
  BY <1>1 DEF StreamInOrder, DayOf, Day
<1>5. ReplayTypeOK'
  <2>1. 0 <= (IF stream' = <<>> THEN SimulatedDays ELSE Len(stream')) /\ 0 < SimulatedDays
    BY ReplayAssumption
  <2>. QED
    BY <1>0, <1>1, <2>1 DEF ReplayTypeOK
<1>. QED
  BY <1>3, <1>4, <1>5 DEF ReplayInv

LEMMA ReplayStarts ==
    ASSUME ReplayInit
    PROVE  ReplayInv
<1>1. /\ replay = "none" /\ stream = <<>> /\ trace = <<>> /\ DOMAIN trace = {} /\ days = <<>>
      /\ done = 0 /\ range = CommandRange /\ fees = 0 /\ realized = 0 /\ unrealized = 0
      /\ today = [inRange |-> FALSE, price |-> EntryPrice] /\ rebalances = 0
      /\ config = [outOfRange |-> FALSE, nearEdge |-> 0, minNet |-> 0]
  BY DEF ReplayInit
<1>2. ReplayTypeOK
  <2>1. range \in SimulatedRanges /\ range \in Ranges
    BY <1>1 DEF SimulatedRanges, Ranges
  <2>2. config \in RebalanceConfig /\ today \in [inRange : BOOLEAN, price : Int]
    BY <1>1, ReplayAssumption DEF RebalanceConfig
  <2>3. /\ stream \in Seq(TickRow) /\ trace \in Seq(TraceEntry) /\ days \in Seq(DayRows)
        /\ done = Len(trace)
    BY <1>1
  <2>4. done <= SimulatedDays
    BY <1>1, ReplayAssumption
  <2>. QED
    BY <1>1, <2>1, <2>2, <2>3, <2>4 DEF ReplayTypeOK
<1>3. StreamInOrder
  BY <1>1 DEF StreamInOrder
<1>4. WorthToDate
  <2>1. 1..0 = {} /\ MovedUpto(0) = {}
    BY DEF MovedUpto
  <2>2. FeesAfter(0) = 0 /\ LossOf({}) = 0
    BY <2>1, TraceIsSummed, SumOfEmpty DEF TraceSums
  <2>. QED
    BY <1>1, <2>1, <2>2, FS_EmptySet DEF WorthToDate
<1>5. RowsInPlace
  <2>1. FlushedDays = {}
    BY <1>1 DEF FlushedDays, TraceDays
  <2>. QED
    BY <1>1, <2>1, FS_EmptySet DEF RowsInPlace
<1>. QED
  BY <1>2, <1>3, <1>4, <1>5 DEF ReplayInv

-----------------------------------------------------------------------------
(* The rows of one backfill, and what they pay.                             *)

LEMMA VolumeGrows ==
    ASSUME CandleTypeOK, NEW T, T \subseteq DOMAIN candles, NEW S, S \subseteq T
    PROVE  /\ VolumeOf(S) \in Nat /\ VolumeOf(T) \in Nat /\ VolumeOf(T \ S) \in Nat
           /\ VolumeOf(T) = VolumeOf(S) + VolumeOf(T \ S)
<1>1. /\ VolumeOf(T) = SumOf(Traded, T) /\ IsFiniteSet(T) /\ \A t \in T : Traded[t] \in Nat
      /\ VolumeOf(T) \in Nat
  BY VolumeIsSum
<1>2. S \subseteq DOMAIN candles /\ T \ S \subseteq DOMAIN candles
  OBVIOUS
<1>3. /\ VolumeOf(S) = SumOf(Traded, S) /\ VolumeOf(S) \in Nat
      /\ VolumeOf(T \ S) = SumOf(Traded, T \ S) /\ VolumeOf(T \ S) \in Nat
  BY <1>2, VolumeIsSum
<1>4. SumOf(Traded, T) = SumOf(Traded, S) + SumOf(Traded, T \ S)
  BY <1>1, SumOfSplit
<1>. QED
  BY <1>1, <1>3, <1>4

LEMMA GrowthMono ==
    ASSUME NEW a \in Nat, NEW b \in Nat, a <= b
    PROVE  GrowthOver(a) <= GrowthOver(b)
<1>1. PICK g \in Nat : g = Word \div PoolLiquidity
  <2>1. Word \in Nat /\ PoolLiquidity \in Nat \ {0}
    BY WordAssumption, CandleAssumption
  <2>. QED
    BY <2>1, DivMono
<1>2. PICK w \in Nat : w = Word * Word
  BY WordAssumption
<1>3. PICK x \in Nat, y \in Nat : x = a * g /\ y = b * g /\ x <= y
  <2>1. a * g \in Nat /\ b * g \in Nat
    OBVIOUS
  <2>2. a * g <= b * g
    <3>1. b * g = a * g + (b - a) * g /\ b - a \in Nat
      OBVIOUS
    <3>2. (b - a) * g \in Nat
      BY <3>1
    <3>. QED
      BY <2>1, <3>1, <3>2
  <2>. QED
    BY <2>1, <2>2
<1>4. GrowthOf(a) = x /\ GrowthOf(b) = y
  BY <1>1, <1>3 DEF GrowthOf
<1>. QED
  BY <1>2, <1>3, <1>4 DEF GrowthOver

(* The growth of a candle's row, by the volume since the first. *)
VolumeSince(first, s) == VolumeOf({u \in DOMAIN candles : first <= u /\ u <= s})

LEMMA GrowthSince ==
    ASSUME CandleTypeOK, NEW first, NEW s
    PROVE  /\ GrowthAt({u \in DOMAIN candles : first <= u}, s) = GrowthOver(VolumeSince(first, s))
           /\ VolumeSince(first, s) \in Nat
<1> DEFINE all == {u \in DOMAIN candles : first <= u}
<1>1. all \subseteq DOMAIN candles /\ {u \in DOMAIN candles : first <= u /\ u <= s} \subseteq DOMAIN candles
  OBVIOUS
<1>2. {u \in all : u <= s} = {u \in DOMAIN candles : first <= u /\ u <= s}
  OBVIOUS
<1> HIDE DEF all
<1>3. GrowthAt(all, s) = GrowthOver(VolumeOf({u \in all : u <= s}))
  BY <1>1, GrowthIs
<1>4. VolumeSince(first, s) \in Nat
  BY <1>1, VolumeIsSum DEF VolumeSince
<1>. QED
  BY <1>2, <1>3, <1>4 DEF VolumeSince, all

(* Growth does not fall along the rows of one backfill. *)
LEMMA StreamGrows ==
    ASSUME CandleInv, ReplayInv, OneBackfill, StreamWhole
    PROVE  Growing
<1>0. CandleTypeOK /\ \A k \in DOMAIN stream : stream[k] \in TickRow
  BY DEF CandleInv, ReplayInv, ReplayTypeOK
<1>1. PICK first \in DOMAIN candles :
         \A k \in DOMAIN stream : BaselineRow(stream[k], first) \/ CandleRow(stream[k], first)
  BY DEF StreamWhole
<1>2. DOMAIN candles \subseteq Int /\ first \in Int
  BY <1>0, CandlesAre
<1>3. \A k \in DOMAIN stream : stream[k].liquidity # 0
  BY <1>1, CandleAssumption DEF BaselineRow, CandleRow
<1>4. ASSUME NEW j \in DOMAIN stream, NEW k \in DOMAIN stream, j <= k
      PROVE  stream[j].growth <= stream[k].growth
  <2>1. /\ stream[j].growth \in Nat /\ stream[k].growth \in Nat
        /\ stream[j].time \in Int /\ stream[k].time \in Int
        /\ stream[j].slot \in Int /\ stream[k].slot \in Int
    <3>1. \A x \in U128 : x \in Nat
      BY WordAssumption DEF U128
    <3>. QED
      BY <1>0, <3>1 DEF TickRow
  <2>2. CASE j = k
    BY <2>1, <2>2
  <2>3. CASE BaselineRow(stream[j], first)
    BY <2>1, <2>3 DEF BaselineRow
  <2>4. CASE j # k /\ CandleRow(stream[j], first)
    <3>1. j < k
      <4>1. j \in Int /\ k \in Int
        BY DEF ReplayInv, ReplayTypeOK
      <4>. QED
        BY <1>4, <2>4, <4>1
    <3>2. Before(stream[j], stream[k])
      BY <3>1 DEF ReplayInv, StreamInOrder
    <3>3. first <= stream[j].slot /\ stream[j].time = stream[j].slot
      BY <2>4 DEF CandleRow
    <3>4. CandleRow(stream[k], first)
      <4>1. ASSUME BaselineRow(stream[k], first) PROVE FALSE
        BY <1>2, <2>1, <3>2, <3>3, <4>1 DEF BaselineRow, Before
      <4>. QED
        BY <1>1, <4>1
    <3>5. stream[k].time = stream[k].slot /\ stream[j].slot <= stream[k].slot
      <4>1. stream[k].time = stream[k].slot
        BY <3>4 DEF CandleRow
      <4>. QED
        BY <2>1, <3>2, <3>3, <4>1 DEF Before
    <3>6. /\ stream[j].growth = GrowthOver(VolumeSince(first, stream[j].slot))
          /\ stream[k].growth = GrowthOver(VolumeSince(first, stream[k].slot))
          /\ VolumeSince(first, stream[j].slot) \in Nat
          /\ VolumeSince(first, stream[k].slot) \in Nat
      BY <1>0, <2>4, <3>4, GrowthSince DEF CandleRow
    <3>7. VolumeSince(first, stream[j].slot) <= VolumeSince(first, stream[k].slot)
      <4> DEFINE S == {u \in DOMAIN candles : first <= u /\ u <= stream[j].slot}
                 T == {u \in DOMAIN candles : first <= u /\ u <= stream[k].slot}
      <4>1. \A u \in DOMAIN candles : u <= stream[j].slot => u <= stream[k].slot
        BY <1>2, <2>1, <3>5
      <4>2. S \subseteq T /\ T \subseteq DOMAIN candles
        BY <4>1
      <4> HIDE DEF S, T
      <4>3. VolumeOf(S) \in Nat /\ VolumeOf(T \ S) \in Nat /\ VolumeOf(T) = VolumeOf(S) + VolumeOf(T \ S)
        BY <1>0, <4>2, VolumeGrows
      <4>4. VolumeOf(S) <= VolumeOf(T)
        BY <4>3
      <4>. QED
        BY <4>4 DEF VolumeSince, S, T
    <3>. QED
      BY <3>6, <3>7, GrowthMono
  <2>. QED
    BY <1>1, <2>2, <2>3, <2>4
<1>. QED
  BY <1>3, <1>4 DEF Growing

(* A row pays what the growth is above the one before. *)
LEMMA GrowthPaidStep ==
    ASSUME ReplayInv, GrowthPaid, ReplayRow
    PROVE  GrowthPaid'
<1>1. /\ replay \in {"stored", "fetched"} /\ UNCHANGED <<replay, stream>>
      /\ done' = done + 1 /\ fees' = fees + Gain(done + 1) /\ done < Len(stream)
  BY DEF ReplayRow
<1>2. PICK n \in Nat : n = done /\ n + 1 \in DOMAIN stream /\ stream # <<>>
  BY <1>1 DEF ReplayInv, ReplayTypeOK
<1>3. ASSUME Growing
      PROVE  fees' = PositionLiquidity * (stream[n + 1].growth - stream[1].growth)
  <2>1. PositionLiquidity \in Nat
    BY ReplayAssumption
  <2>2. CASE n = 0
    <3>1. fees = 0 /\ Gain(1) = 0 /\ fees' = 0
      BY <1>1, <1>2, <1>3, <2>2 DEF GrowthPaid, Gain
    <3>2. stream[1].growth \in Int
      <4>1. stream[1] \in TickRow
        BY <1>2, <2>2 DEF ReplayInv, ReplayTypeOK
      <4>. QED
        BY <4>1 DEF TickRow, U128
    <3>. QED
      BY <2>1, <2>2, <3>1, <3>2
  <2>3. CASE n # 0
    <3>1. n \in DOMAIN stream /\ 1 \in DOMAIN stream /\ (n + 1) - 1 = n
      BY <1>2, <2>3 DEF ReplayInv, ReplayTypeOK
    <3>2. stream[n] \in TickRow /\ stream[n + 1] \in TickRow /\ stream[1] \in TickRow
      BY <1>2, <3>1 DEF ReplayInv, ReplayTypeOK
    <3>3. PICK a \in U128, b \in U128, c \in U128 :
             a = stream[1].growth /\ b = stream[n].growth /\ c = stream[n + 1].growth
      BY <3>2 DEF TickRow
    <3>4. PICK w \in Nat \ {0} : w = Word * Word
      BY WordAssumption
    <3>5. a \in Int /\ b \in 0..w - 1 /\ c \in 0..w - 1 /\ b <= c
      BY <1>2, <1>3, <3>1, <3>3, <3>4 DEF U128, Growing
    <3>6. WrappingSub(c, b) = c - b
      <4>1. PICK r \in 0..w - 1 : r = c - b /\ c - b \in Int
        BY <3>5
      <4>2. r = w * 0 + r
        BY <4>1
      <4>3. r % w = r
        BY <4>1, <4>2, ModOf
      <4>. QED
        BY <3>4, <4>1, <4>3 DEF WrappingSub
    <3>7. Gain(n + 1) = PositionLiquidity * (c - b)
      BY <1>2, <1>3, <2>3, <3>1, <3>3, <3>6 DEF Gain, Growing
    <3>8. fees = PositionLiquidity * (b - a)
      BY <1>2, <1>3, <2>3, <3>3 DEF GrowthPaid
    <3>9. PositionLiquidity * (b - a) + PositionLiquidity * (c - b) = PositionLiquidity * (c - a)
      BY <2>1, <3>5
    <3>. QED
      BY <1>1, <1>2, <3>3, <3>7, <3>8, <3>9
  <2>. QED
    BY <2>2, <2>3
<1>4. Growing' <=> Growing
  BY <1>1 DEF Growing
<1>. QED
  BY <1>1, <1>2, <1>3, <1>4 DEF GrowthPaid

(* What is replayed does not change any more. *)
LEMMA GrowthPaidStays ==
    ASSUME GrowthPaid, UNCHANGED <<stream, done, fees>>, replay' = "done" => replay = "done"
    PROVE  GrowthPaid'
BY DEF GrowthPaid, Growing

LEMMA StreamStays ==
    ASSUME CandleTypeOK, stream \in Seq(TickRow), StreamWhole, UNCHANGED <<candles, firsts, stream>>
    PROVE  StreamWhole'
<1>1. OneBackfill' => OneBackfill
  BY DEF OneBackfill
<1>2. SUFFICES ASSUME OneBackfill
               PROVE  \E first \in DOMAIN candles :
                        /\ \A k \in DOMAIN stream :
                               BaselineRow(stream[k], first) \/ CandleRow(stream[k], first)'
                        /\ \A k \in DOMAIN stream, u \in DOMAIN candles :
                               stream[1].time <= u /\ u <= stream[k].time =>
                                   \E j \in DOMAIN stream : stream[j].slot = u
  BY <1>1 DEF StreamWhole, BaselineRow
<1>3. PICK first \in DOMAIN candles :
         /\ \A k \in DOMAIN stream : BaselineRow(stream[k], first) \/ CandleRow(stream[k], first)
         /\ \A k \in DOMAIN stream, u \in DOMAIN candles :
                stream[1].time <= u /\ u <= stream[k].time =>
                    \E j \in DOMAIN stream : stream[j].slot = u
  BY <1>2 DEF StreamWhole
<1>4. first \in Int
  BY CandlesAre
<1>5. \A r \in TickRow : CandleRow(r, first)' <=> CandleRow(r, first)
  BY <1>4, RowStays
<1>6. \A k \in DOMAIN stream : stream[k] \in TickRow
  OBVIOUS
<1>. QED
  BY <1>3, <1>5, <1>6

-----------------------------------------------------------------------------
(* The whole.                                                               *)

LEMMA PartsStep ==
    ASSUME CandleInv, ReplayInv, [Next]_vars
    PROVE  CandleInv' /\ ReplayInv'
<1>1. CASE FetchNext /\ UNCHANGED loop
  BY <1>1, HistoryStep, LoopStays
<1>2. CASE Backtest
  <2>1. PICK from \in Midnights, to \in Midnights, rebalance \in BOOLEAN, nearEdge \in NearEdges :
           StartReplay("stored", read_ticks(from, to),
                       [outOfRange |-> rebalance, nearEdge |-> nearEdge, minNet |-> 0])
    BY <1>2 DEF Backtest
  <2>2. /\ replay = "none" /\ replay' = "stored" /\ stream' = read_ticks(from, to) /\ stream' # <<>>
        /\ config' = [outOfRange |-> rebalance, nearEdge |-> nearEdge, minNet |-> 0]
        /\ UNCHANGED <<done, range, fees, realized, unrealized, today, days, rebalances, trace>>
    BY <2>1 DEF StartReplay
  <2>3. config' \in RebalanceConfig
    BY <2>2, NearEdgeAssumption DEF RebalanceConfig
  <2>4. stream' \in Seq(TickRow) /\ \A j, k \in DOMAIN stream' : j < k => Before(stream'[j], stream'[k])
    BY <2>2, StoredRows DEF CandleInv
  <2>5. ReplayInv'
    BY <2>2, <2>3, <2>4, StartStep
  <2>6. CandleInv'
    BY <1>2, HistoryStep DEF Backtest
  <2>. QED
    BY <2>5, <2>6
<1>3. CASE Research
  <2>1. PICK rebalance \in BOOLEAN :
           StartReplay("fetched", InReadOrder(Synthesized(job.all)),
                       [outOfRange |-> rebalance, nearEdge |-> NEAR_EDGE_OFF, minNet |-> 0])
    BY <1>3 DEF Research
  <2>2. /\ replay = "none" /\ replay' = "fetched" /\ stream' = InReadOrder(Synthesized(job.all))
        /\ stream' # <<>>
        /\ config' = [outOfRange |-> rebalance, nearEdge |-> NEAR_EDGE_OFF, minNet |-> 0]
        /\ UNCHANGED <<done, range, fees, realized, unrealized, today, days, rebalances, trace>>
    BY <2>1 DEF StartReplay
  <2>3. config' \in RebalanceConfig
    BY <2>2, NearEdgeAssumption DEF RebalanceConfig
  <2>4. job.all \subseteq DOMAIN candles /\ job.all # {} /\ NoHole(job.all) /\ CandleTypeOK
    <3>1. Cardinality(job.all) >= 3
      BY <1>3 DEF Research
    <3>2. job.all # {}
      BY <3>1, FS_EmptySet
    <3>. QED
      BY <3>2 DEF CandleInv, CandleTypeOK, PagesMeet
  <2>5. stream' \in Seq(TickRow) /\ \A j, k \in DOMAIN stream' : j < k => Before(stream'[j], stream'[k])
    BY <2>2, <2>4, FetchedRows
  <2>6. ReplayInv'
    BY <2>2, <2>3, <2>5, StartStep
  <2>7. CandleInv'
    BY <1>3, JobEnds DEF Research
  <2>. QED
    BY <2>6, <2>7
<1>4. CASE Simulate
  <2>1. PICK rebalance \in BOOLEAN : StartSimulation(rebalance)
    BY <1>4 DEF Simulate
  <2>2. /\ replay = "none" /\ replay' = "simulated" /\ stream' = stream /\ stream = <<>>
        /\ config' = [outOfRange |-> rebalance, nearEdge |-> 0, minNet |-> 0]
        /\ UNCHANGED <<done, range, fees, realized, unrealized, today, days, rebalances, trace>>
    BY <2>1 DEF StartSimulation, ReplayInv, ReplayTypeOK
  <2>3. config' \in RebalanceConfig
    BY <2>2 DEF RebalanceConfig
  <2>4. stream' \in Seq(TickRow) /\ DOMAIN stream' = {}
    BY <2>2
  <2>5. ReplayInv'
    BY <2>2, <2>3, <2>4, StartStep
  <2>6. CandleInv'
    BY <1>4, HistoryStep DEF Simulate
  <2>. QED
    BY <2>5, <2>6
<1>5. CASE (ReplayRow \/ FlushLast \/ \E price \in Closes : SimulatedDay(price)) /\ UNCHANGED history
  BY <1>5, HistoryStep, ReplayRowStep, FlushLastStep, SimulatedDayStep
<1>6. CASE UNCHANGED vars
  BY <1>6, HistoryStep, LoopStays DEF vars
<1>. QED
  BY <1>1, <1>2, <1>3, <1>4, <1>5, <1>6 DEF Next

LEMMA StreamWholeNext ==
    ASSUME CandleTypeOK, UNCHANGED candles, NEW q \in Seq(TickRow), q = stream',
           NEW first \in DOMAIN candles,
           \A k \in DOMAIN q : BaselineRow(q[k], first) \/ CandleRow(q[k], first),
           \A k \in DOMAIN q, u \in DOMAIN candles :
               q[1].time <= u /\ u <= q[k].time => \E j \in DOMAIN q : q[j].slot = u
    PROVE  StreamWhole'
<1>1. \A r \in TickRow : CandleRow(r, first)' <=> CandleRow(r, first)
  BY CandlesAre, RowStays
<1>2. \A k \in DOMAIN q : q[k] \in TickRow
  OBVIOUS
<1>3. \A k \in DOMAIN q : BaselineRow(q[k], first) \/ CandleRow(q[k], first)'
  BY <1>1, <1>2
<1>4. \A k \in DOMAIN stream' : BaselineRow(stream[k], first)' \/ CandleRow(stream[k], first)'
  BY <1>3 DEF BaselineRow, CandleRow
<1>5. \A k \in DOMAIN stream', u \in DOMAIN candles' :
          stream'[1].time <= u /\ u <= stream'[k].time =>
              \E j \in DOMAIN stream' : stream'[j].slot = u
  OBVIOUS
<1>. QED
  BY <1>4, <1>5 DEF StreamWhole

(* What a backtest reads of the table, and what research makes of a fetch. *)
LEMMA StoredStream ==
    ASSUME CandleInv, NEW from \in Int, NEW to \in Int, stream' = read_ticks(from, to),
           UNCHANGED <<candles, firsts>>
    PROVE  StreamWhole'
<1>0. /\ CandleTypeOK /\ StoredWhole /\ firsts \subseteq DOMAIN candles
      /\ \A s \in DOMAIN db : db[s] \in TickRow /\ db[s].slot = s
  BY DEF CandleInv, CandleTypeOK
<1>1. PICK q \in Seq(TickRow) :
         /\ q = stream'
         /\ \A j, k \in DOMAIN q : j < k => Before(q[j], q[k])
         /\ \A k \in DOMAIN q : \E s \in DOMAIN db :
                q[k] = db[s] /\ from <= db[s].time /\ db[s].time < to
         /\ \A s \in DOMAIN db : from <= db[s].time /\ db[s].time < to
                => \E k \in DOMAIN q : q[k] = db[s]
  BY <1>0, StoredRows
<1>2. SUFFICES ASSUME OneBackfill'
               PROVE  StreamWhole'
  BY DEF StreamWhole
<1>3. /\ q # <<>> /\ \A k \in DOMAIN q : q[k].slot >= FirstTime - 1
      /\ Cardinality(firsts) <= 1
  BY <1>1, <1>2 DEF OneBackfill
<1>4. 1 \in DOMAIN q /\ \A k \in DOMAIN q : q[k] \in TickRow
  BY <1>3
<1>5. ASSUME NEW k \in DOMAIN q
      PROVE  \E f \in firsts :
               /\ BaselineRow(q[k], f) \/ CandleRow(q[k], f)
               /\ \A u \in DOMAIN candles : f <= u /\ u <= q[k].time => u \in DOMAIN db
  <2>1. PICK s \in DOMAIN db : q[k] = db[s]
    BY <1>1
  <2>2. s >= FirstTime - 1
    BY <1>0, <1>3, <2>1
  <2>. QED
    BY <1>0, <2>1, <2>2 DEF StoredWhole
<1>6. PICK first \in firsts : firsts = {first}
  <2>1. PICK first \in firsts : TRUE
    BY <1>4, <1>5
  <2>2. IsFiniteSet(firsts)
    BY <1>0, CandlesAre
  <2>3. IsFiniteSet(firsts \ {first}) /\ Cardinality(firsts \ {first}) = Cardinality(firsts) - 1
    BY <2>2, FS_RemoveElement
  <2>4. Cardinality(firsts \ {first}) \in Nat /\ Cardinality(firsts) \in Nat
    BY <2>2, <2>3, FS_CardinalityType
  <2>5. Cardinality(firsts \ {first}) = 0
    BY <1>3, <2>3, <2>4
  <2>6. firsts \ {first} = {}
    BY <2>3, <2>5, FS_EmptySet
  <2>. QED
    BY <2>6
<1>7. /\ first \in DOMAIN candles /\ first \in Int /\ first - 1 \notin DOMAIN candles
      /\ \A u \in DOMAIN candles : u \in Int /\ u >= FirstTime
  <2>1. first \in DOMAIN candles
    BY <1>0, <1>6
  <2>2. \A u \in DOMAIN candles : u >= FirstTime
    BY <1>0, CandleAssumption DEF CandleTypeOK
  <2>. QED
    BY <1>0, <2>1, <2>2, CandlesAre
<1>8. \A k \in DOMAIN q : BaselineRow(q[k], first) \/ CandleRow(q[k], first)
  BY <1>5, <1>6
<1>9. ASSUME NEW k \in DOMAIN q, NEW u \in DOMAIN candles, q[1].time <= u, u <= q[k].time
      PROVE  \E j \in DOMAIN q : q[j].slot = u
  <2>1. q[1].time \in Int /\ first <= q[1].time
    <3>1. q[1].time \in Int /\ q[1].slot \in Int
      BY <1>4 DEF TickRow
    <3>2. BaselineRow(q[1], first) \/ CandleRow(q[1], first)
      BY <1>4, <1>5, <1>6
    <3>. QED
      BY <1>7, <3>1, <3>2 DEF BaselineRow, CandleRow
  <2>2. first <= u
    BY <1>7, <1>9, <2>1
  <2>3. u \in DOMAIN db
    BY <1>5, <1>6, <1>9, <2>2
  <2>4. db[u].slot = u /\ u >= FirstTime - 1
    BY <1>0, <1>7, <2>3, CandleAssumption
  <2>5. BaselineRow(db[u], first) \/ CandleRow(db[u], first)
    BY <1>0, <1>6, <2>3, <2>4 DEF StoredWhole
  <2>6. db[u].time = u
    BY <1>7, <2>4, <2>5 DEF BaselineRow, CandleRow
  <2>7. from <= u /\ u < to
    <3>1. PICK s \in DOMAIN db : q[1] = db[s] /\ from <= db[s].time
      BY <1>1, <1>4
    <3>2. PICK t \in DOMAIN db : q[k] = db[t] /\ db[t].time < to
      BY <1>1
    <3>3. q[k].time \in Int /\ u \in Int
      BY <1>4, <1>7 DEF TickRow
    <3>. QED
      BY <1>9, <2>1, <3>1, <3>2, <3>3
  <2>. QED
    BY <1>1, <2>3, <2>4, <2>6, <2>7
<1>10. \A k \in DOMAIN q, u \in DOMAIN candles :
           q[1].time <= u /\ u <= q[k].time => \E j \in DOMAIN q : q[j].slot = u
  BY <1>9
<1>. QED
  BY <1>0, <1>1, <1>7, <1>8, <1>10, StreamWholeNext

LEMMA FetchedStream ==
    ASSUME CandleInv, job.all # {}, stream' = InReadOrder(Synthesized(job.all)), UNCHANGED candles
    PROVE  StreamWhole'
<1>0. CandleTypeOK /\ job.all \subseteq DOMAIN candles /\ NoHole(job.all)
  BY DEF CandleInv, CandleTypeOK, PagesMeet
<1>1. PICK all : all = job.all /\ all # {} /\ all \subseteq DOMAIN candles /\ NoHole(all)
  BY <1>0
<1>2. PICK q \in Seq(TickRow) :
         /\ q = stream'
         /\ \A k \in DOMAIN q : q[k] \in Synthesized(all)
         /\ \A r \in Synthesized(all) : \E k \in DOMAIN q : q[k] = r
  BY <1>0, <1>1, FetchedRows
<1>3. PICK first \in all : first = Min(all) /\ first \in Int
  BY <1>0, <1>1, CandlesAre, MinAndMax
<1>4. /\ \A r \in Synthesized(all) :
            /\ r \in TickRow /\ r.slot \in all \cup {first - 1}
            /\ IF r.slot = first - 1 THEN BaselineRow(r, first)
               ELSE r.slot \in all /\ CandleRow(r, first)
      /\ \A s \in all \cup {first - 1} : \E r \in Synthesized(all) : r.slot = s
  BY <1>0, <1>1, <1>3, RowsOf
<1>5. \A k \in DOMAIN q : BaselineRow(q[k], first) \/ CandleRow(q[k], first)
  BY <1>2, <1>4
<1>6. \A k \in DOMAIN q : q[k].time \in all
  <2>1. ASSUME NEW k \in DOMAIN q PROVE q[k].time \in all
    <3>1. PICK row \in Synthesized(all) : row = q[k]
      BY <1>2
    <3>2. CASE row.slot = first - 1
      BY <1>4, <3>1, <3>2 DEF BaselineRow
    <3>3. CASE row.slot # first - 1
      BY <1>4, <3>1, <3>3 DEF CandleRow
    <3>. QED
      BY <3>2, <3>3
  <2>. QED
    BY <2>1
<1>7. ASSUME NEW k \in DOMAIN q, NEW u \in DOMAIN candles, q[1].time <= u, u <= q[k].time
      PROVE  \E j \in DOMAIN q : q[j].slot = u
  <2>1. 1 \in DOMAIN q
    BY <1>7
  <2>2. u \in all
    BY <1>1, <1>6, <1>7, <2>1 DEF NoHole
  <2>. QED
    BY <1>2, <1>4, <2>2
<1>8. \A k \in DOMAIN q, u \in DOMAIN candles :
          q[1].time <= u /\ u <= q[k].time => \E j \in DOMAIN q : q[j].slot = u
  BY <1>7
<1>. QED
  BY <1>0, <1>1, <1>2, <1>5, <1>8, StreamWholeNext

LEMMA NothingPaidYet ==
    ASSUME ReplayInv, replay = "none"
    PROVE  stream = <<>> /\ done = 0 /\ fees = 0
<1>1. /\ stream = <<>> /\ done = 0 /\ fees = FeesAfter(done)
  BY DEF ReplayInv, ReplayTypeOK, WorthToDate
<1>2. 1..0 = {}
  OBVIOUS
<1>3. FeesAfter(0) = 0
  BY <1>2, TraceIsSummed, SumOfEmpty DEF TraceSums
<1>. QED
  BY <1>1, <1>3

(* A fetch has no hole in its window, what is stored of it keeps its growth, *)
(* a replay or a simulation has accumulated what its rows were worth, and    *)
(* the rows of one backfill are read back whole.                            *)
LEMMA WholeStep ==
    ASSUME HistoryInv, [Next]_vars
    PROVE  HistoryInv'
<1>0. /\ CandleInv /\ ReplayInv /\ StreamWhole /\ GrowthPaid /\ CandleTypeOK
      /\ stream \in Seq(TickRow)
  BY DEF HistoryInv, CandleInv, ReplayInv, ReplayTypeOK
<1>1. CandleInv' /\ ReplayInv'
  BY <1>0, PartsStep
<1>2. ASSUME stream' = <<>> PROVE StreamWhole'
  BY <1>2 DEF StreamWhole, OneBackfill
<1>3. ASSUME UNCHANGED <<stream, done, fees, replay>> PROVE GrowthPaid'
  BY <1>0, <1>3, GrowthPaidStays
<1>4. ASSUME replay = "none", replay' # "done", UNCHANGED <<done, fees>> PROVE GrowthPaid'
  BY <1>0, <1>4, NothingPaidYet DEF GrowthPaid
<1>5. StreamWhole' /\ GrowthPaid'
  <2>1. CASE replay = "none" /\ UNCHANGED loop
    <3>1. UNCHANGED <<stream, done, fees, replay>>
      BY <2>1 DEF loop
    <3>2. stream' = <<>>
      BY <1>0, <2>1, <3>1, NothingPaidYet
    <3>. QED
      BY <1>2, <1>3, <3>1, <3>2
  <2>2. CASE Backtest
    <3>1. PICK from \in Int, to \in Int :
             /\ stream' = read_ticks(from, to) /\ replay = "none" /\ replay' = "stored"
             /\ UNCHANGED <<done, fees, candles, firsts>>
      <4>1. Midnights \subseteq Int
        BY CandleAssumption DEF Midnights
      <4>. QED
        BY <2>2, <4>1 DEF Backtest, StartReplay, history
    <3>. QED
      BY <1>0, <1>4, <3>1, StoredStream
  <2>3. CASE Research
    <3>1. /\ stream' = InReadOrder(Synthesized(job.all)) /\ replay = "none" /\ replay' = "fetched"
          /\ UNCHANGED <<done, fees, candles>> /\ Cardinality(job.all) >= 3
      BY <2>3 DEF Research, StartReplay
    <3>2. job.all # {}
      BY <3>1, FS_EmptySet
    <3>. QED
      BY <1>0, <1>4, <3>1, <3>2, FetchedStream
  <2>4. CASE Simulate
    <3>1. UNCHANGED <<stream, done, fees>> /\ replay = "none" /\ replay' = "simulated"
      BY <2>4 DEF Simulate, StartSimulation
    <3>2. stream' = <<>>
      BY <1>0, <3>1, NothingPaidYet
    <3>. QED
      BY <1>2, <1>4, <3>1, <3>2
  <2>5. CASE ReplayRow /\ UNCHANGED history
    <3>1. UNCHANGED <<candles, firsts, stream>>
      BY <2>5 DEF ReplayRow, history
    <3>. QED
      BY <1>0, <2>5, <3>1, StreamStays, GrowthPaidStep
  <2>6. CASE FlushLast /\ UNCHANGED history
    <3>1. /\ UNCHANGED <<candles, firsts, stream, done, fees>> /\ done = Len(stream)
      BY <2>6 DEF FlushLast, history
    <3>2. GrowthPaid'
      BY <1>0, <3>1 DEF GrowthPaid, Growing
    <3>. QED
      BY <1>0, <3>1, <3>2, StreamStays
  <2>7. ASSUME NEW price \in Closes, SimulatedDay(price) PROVE StreamWhole' /\ GrowthPaid'
    <3>1. stream' = <<>>
      BY <1>0, <2>7 DEF SimulatedDay, ReplayInv, ReplayTypeOK
    <3>2. GrowthPaid'
      BY <3>1 DEF GrowthPaid
    <3>. QED
      BY <1>2, <3>1, <3>2
  <2>8. CASE UNCHANGED vars
    <3>1. UNCHANGED <<candles, firsts, stream, done, fees, replay>>
      BY <2>8 DEF vars, history, loop
    <3>. QED
      BY <1>0, <1>3, <3>1, StreamStays
  <2>. QED
    BY <2>1, <2>2, <2>3, <2>4, <2>5, <2>6, <2>7, <2>8 DEF Next
<1>. QED
  BY <1>1, <1>5 DEF HistoryInv

THEOREM HistoryWhole == Spec => []HistoryInv
<1>1. Init => HistoryInv
  <2>1. SUFFICES ASSUME Init PROVE HistoryInv
    OBVIOUS
  <2>2. CandleInv /\ ReplayInv /\ stream = <<>> /\ replay = "none"
    BY <2>1, HistoryStarts, ReplayStarts DEF Init, ReplayInit
  <2>3. StreamWhole /\ GrowthPaid
    BY <2>2 DEF StreamWhole, OneBackfill, GrowthPaid
  <2>. QED
    BY <2>2, <2>3 DEF HistoryInv
<1>2. HistoryInv /\ [Next]_vars => HistoryInv'
  BY WholeStep
<1>. QED
  BY <1>1, <1>2, PTL DEF Spec

-----------------------------------------------------------------------------
(* The report.                                                              *)

(* Each place of a row is the place of a day. *)
LEMMA DaysHavePlaces ==
    ASSUME NEW D, IsFiniteSet(D), D \subseteq Int
    PROVE  \A n \in 1..Cardinality(D) : \E d \in D : Cardinality({e \in D : e < d}) = n - 1
<1> DEFINE order == {p \in D \X D : p[1] < p[2]}
<1>1. \A d, e \in D : <<e, d>> \in order <=> e < d
  OBVIOUS
<1> HIDE DEF order
<1>2. \A d \in D : d \in Int
  OBVIOUS
<1>3. StrictOrder(order, D)
  BY <1>1, <1>2 DEF StrictOrder
<1>4. \A d \in D : BeforeIn(order, D, d) = {e \in D : e < d}
  BY <1>1 DEF BeforeIn
<1>5. \A n \in 1..Cardinality(D) : \E d \in D : Cardinality(BeforeIn(order, D, d)) = n - 1
  BY <1>3, EveryPlaceTaken
<1>6. ASSUME NEW n \in 1..Cardinality(D) PROVE \E d \in D : Cardinality({e \in D : e < d}) = n - 1
  <2>1. PICK d \in D : Cardinality(BeforeIn(order, D, d)) = n - 1
    BY <1>5
  <2>. QED
    BY <1>4, <2>1
<1>. QED
  BY <1>6

LEMMA ReportFollows ==
    ASSUME ReplayInv
    PROVE  DayRowsToDate
<1>0. /\ ReplayTypeOK /\ StreamInOrder /\ WorthToDate /\ trace \in Seq(TraceEntry)
      /\ days \in Seq(DayRows) /\ done = Len(trace)
  BY DEF ReplayInv, ReplayTypeOK
<1>1. IsFiniteSet(FlushedDays) /\ FlushedDays \subseteq TraceDays /\ TraceDays \subseteq Int
  <2>1. IsFiniteSet(TraceDays) /\ TraceDays \subseteq Int
    BY <1>0, LastIs
  <2>2. FlushedDays \subseteq TraceDays
    BY DEF FlushedDays
  <2>. QED
    BY <2>1, <2>2, FS_Subset
<1>2. PICK D : D = FlushedDays
  OBVIOUS
<1>3. /\ Len(days) = Cardinality(D) /\ IsFiniteSet(D) /\ D \subseteq Int
      /\ \A d \in D : \A n : n = PlaceOf(D, d) => RowAt(n, d)
  BY <1>1, <1>2, RowsAreAt DEF ReplayInv
<1>4. PICK l \in Nat : l = Len(days) /\ l = Cardinality(D) /\ DOMAIN days = 1..l
  BY <1>0, <1>3
<1>5. ASSUME NEW n \in DOMAIN days
      PROVE  DayRowRight(days[n], CHOOSE d \in D : Cardinality({e \in D : e < d}) = n - 1)
  <2> DEFINE day == CHOOSE d \in D : Cardinality({e \in D : e < d}) = n - 1
  <2>1. n \in 1..Cardinality(D) /\ n \in Int
    BY <1>4
  <2>2. \E d \in D : Cardinality({e \in D : e < d}) = n - 1
    BY <1>3, <2>1, DaysHavePlaces
  <2>3. day \in D /\ Cardinality({e \in D : e < day}) = n - 1
    BY <2>2
  <2> HIDE DEF day
  <2>4. n = PlaceOf(D, day)
    BY <2>1, <2>3 DEF PlaceOf
  <2>5. RowAt(n, day)
    BY <1>3, <2>3, <2>4
  <2>. QED
    BY <2>5 DEF RowAt, day
<1>6. ASSUME replay = "done"
      PROVE  /\ days[Len(days)].fees = fees
             /\ days[Len(days)].net = fees + realized + unrealized
             /\ rebalances = Cardinality({k \in DOMAIN trace : trace[k].moved})
  <2>1. PICK n \in Nat : n = done /\ n = Len(trace) /\ n > 0 /\ DOMAIN trace = 1..n /\ trace # <<>>
    BY <1>0, <1>6 DEF ReplayTypeOK
  <2>2. n \in DOMAIN trace /\ D = TraceDays
    BY <1>2, <1>6, <2>1 DEF FlushedDays
  <2>3. PICK c \in Int : c = trace[n].day /\ c \in D
    BY <1>3, <2>2 DEF TraceDays
  <2>4. \A d \in D : d <= c
    BY <1>0, <2>1, <2>2, <2>3, DaysInOrder DEF TraceDays, DaysRise
  <2>5. LastOf(c) = n
    BY <1>0, <2>1, <2>2, <2>3, LastIsMarked DEF LastMarked
  <2>6. PlaceOf(D, c) = l
    <3>1. \A e \in D : e < c <=> e # c
      <4>1. \A e \in D : e \in Int /\ e <= c
        BY <1>1, <1>2, <2>4
      <4>. QED
        BY <4>1
    <3>2. {e \in D : e < c} = D \ {c}
      BY <3>1
    <3>3. Cardinality(D) = l /\ IsFiniteSet(D)
      BY <1>1, <1>2, <1>4
    <3>4. Cardinality(D \ {c}) = Cardinality(D) - 1
      BY <2>3, <3>3, FS_RemoveElement
    <3>5. PlaceOf(D, c) = Cardinality(D \ {c}) + 1
      BY <3>2, Zenon DEF PlaceOf
    <3>. QED
      BY <3>3, <3>4, <3>5
  <2>7. RowAt(l, c)
    BY <1>3, <2>3, <2>6
  <2>8. /\ days[l].fees = FeesAfter(n) /\ days[l].il = LossAfter(n)
        /\ days[l].net = days[l].fees + days[l].il
    BY <2>5, <2>7 DEF RowAt, DayRowRight
  <2>9. /\ fees = FeesAfter(n) /\ realized + unrealized = LossAfter(n)
        /\ rebalances = Cardinality(MovedUpto(n))
    BY <1>0, <2>1 DEF WorthToDate
  <2>10. MovedUpto(n) = {k \in DOMAIN trace : trace[k].moved}
    BY <2>1 DEF MovedUpto
  <2>11. fees \in Int /\ realized \in Int /\ unrealized \in Int
    BY <1>0 DEF ReplayTypeOK
  <2>. QED
    BY <1>4, <2>8, <2>9, <2>10, <2>11
<1>. QED
  BY <1>2, <1>3, <1>5, <1>6 DEF DayRowsToDate

(* "The day-boundary flush must attribute the COMPLETED day's last price/IL  *)
(* to it", and totals survive rebalances: a report has one row a day, each   *)
(* of what the run was worth by then, and the last is the total.            *)
THEOREM ReportAddsUp == Spec => []DayRowsToDate
<1>1. HistoryInv => DayRowsToDate
  BY ReportFollows DEF HistoryInv
<1>. QED
  BY <1>1, HistoryWhole, PTL

-----------------------------------------------------------------------------
(* The volume share.                                                        *)

(* While the growth fits, a row of a backfill has the growth of the volume   *)
(* since the first candle, the baseline row too.                            *)
LEMMA GrowthIsShare ==
    ASSUME CandleTypeOK, VolumeFits, NEW r \in TickRow, NEW first \in DOMAIN candles,
           BaselineRow(r, first) \/ CandleRow(r, first)
    PROVE  r.growth = VolumeSince(first, r.slot) * (Word \div PoolLiquidity)
<1>1. DOMAIN candles \subseteq Int /\ first \in Int
  BY CandlesAre
<1>2. PICK g \in Nat : g = Word \div PoolLiquidity
  <2>1. Word \in Nat /\ PoolLiquidity \in Nat \ {0}
    BY WordAssumption, CandleAssumption
  <2>. QED
    BY <2>1, DivMono
<1>3. CASE BaselineRow(r, first)
  <2>1. r.slot = first - 1 /\ r.growth = 0
    BY <1>3 DEF BaselineRow
  <2>2. {u \in DOMAIN candles : first <= u /\ u <= r.slot} = {}
    BY <1>1, <2>1
  <2>3. VolumeOf({}) = 0
    <3>1. {} \subseteq DOMAIN candles
      OBVIOUS
    <3>. QED
      BY <3>1, VolumeIsSum, SumOfEmpty
  <2>4. VolumeSince(first, r.slot) = 0
    BY <2>2, <2>3 DEF VolumeSince
  <2>. QED
    BY <1>2, <2>1, <2>4
<1>4. CASE CandleRow(r, first)
  <2>1. PICK v \in Nat : v = VolumeSince(first, r.slot)
    BY GrowthSince
  <2>2. r.growth = GrowthOver(v)
    BY <1>4, <2>1, GrowthSince DEF CandleRow
  <2>3. PICK t \in Nat : t = VolumeOf(DOMAIN candles) /\ v <= t
    <3> DEFINE S == {u \in DOMAIN candles : first <= u /\ u <= r.slot}
               T == DOMAIN candles
    <3>1. S \subseteq T /\ T \subseteq DOMAIN candles
      OBVIOUS
    <3> HIDE DEF S, T
    <3>2. /\ VolumeOf(S) \in Nat /\ VolumeOf(T) \in Nat /\ VolumeOf(T \ S) \in Nat
          /\ VolumeOf(T) = VolumeOf(S) + VolumeOf(T \ S)
      BY <3>1, VolumeGrows
    <3>3. VolumeOf(S) <= VolumeOf(T)
      BY <3>2
    <3>. QED
      BY <2>1, <3>2, <3>3 DEF VolumeSince, S, T
  <2>4. PICK w \in Nat : w = Word * Word
    BY WordAssumption
  <2>5. t * g < w
    BY <1>2, <2>3, <2>4 DEF VolumeFits, GrowthOf
  <2>6. v * g \in Nat /\ v * g <= t * g
    <3>1. t * g = v * g + (t - v) * g /\ t - v \in Nat
      BY <2>3
    <3>2. (t - v) * g \in Nat /\ v * g \in Nat
      BY <3>1
    <3>. QED
      BY <3>1, <3>2
  <2>7. v * g < w
    <3>1. t * g \in Nat
      OBVIOUS
    <3>. QED
      BY <2>4, <2>5, <2>6, <3>1
  <2>8. GrowthOf(v) = v * g
    BY <1>2 DEF GrowthOf
  <2>. QED
    BY <1>2, <2>1, <2>2, <2>4, <2>6, <2>7, <2>8 DEF GrowthOver
<1>. QED
  BY <1>3, <1>4

(* The candles that a stream pays are those after its first row's slot. *)
LEMMA PaidCandles ==
    ASSUME CandleInv, ReplayInv, stream # <<>>, NEW n \in Nat, n = Len(stream),
           NEW first \in DOMAIN candles,
           \A k \in DOMAIN stream : BaselineRow(stream[k], first) \/ CandleRow(stream[k], first),
           \A k \in DOMAIN stream, u \in DOMAIN candles :
               stream[1].time <= u /\ u <= stream[k].time =>
                   \E j \in DOMAIN stream : stream[j].slot = u
    PROVE  /\ {stream[k].time : k \in DOMAIN stream} \ Unpaid
                  = {u \in DOMAIN candles :
                        first <= u /\ ~(u <= stream[1].slot) /\ u <= stream[n].slot}
           /\ stream[1].slot <= stream[n].slot
<1>0. CandleTypeOK /\ StreamInOrder /\ stream \in Seq(TickRow)
  BY DEF CandleInv, ReplayInv, ReplayTypeOK
<1>1. /\ DOMAIN stream = 1..n /\ n >= 1 /\ 1 \in 1..n /\ n \in 1..n
      /\ \A k \in 1..n : stream[k] \in TickRow
  BY <1>0
<1>2. \A k \in 1..n : stream[k].time \in Int /\ stream[k].slot \in Int
  <2>1. \A r \in TickRow : r.time \in Int /\ r.slot \in Int
    BY DEF TickRow
  <2>. QED
    BY <1>1, <2>1
<1>3. DOMAIN candles \subseteq Int /\ first \in Int
  BY <1>0, CandlesAre
<1>4. \A k \in 1..n : /\ stream[k].time \in DOMAIN candles /\ first <= stream[k].time
                      /\ \/ stream[k].slot = first - 1 /\ stream[k].time = first
                         \/ stream[k].slot = stream[k].time
  <2>1. ASSUME NEW k \in 1..n
        PROVE  /\ stream[k].time \in DOMAIN candles /\ first <= stream[k].time
               /\ \/ stream[k].slot = first - 1 /\ stream[k].time = first
                  \/ stream[k].slot = stream[k].time
    <3>1. CASE BaselineRow(stream[k], first)
      <4>1. stream[k].slot = first - 1 /\ stream[k].time = first
        BY <3>1 DEF BaselineRow
      <4>. QED
        BY <1>3, <4>1
    <3>2. CASE CandleRow(stream[k], first)
      <4>1. stream[k].slot \in DOMAIN candles /\ first <= stream[k].slot
            /\ stream[k].time = stream[k].slot
        BY <3>2 DEF CandleRow
      <4>. QED
        BY <4>1
    <3>. QED
      BY <1>1, <3>1, <3>2
  <2>. QED
    BY <2>1
<1>5. \A j, k \in 1..n : j < k => Before(stream[j], stream[k])
  BY <1>0, <1>1 DEF StreamInOrder
<1>6. \A j, k \in 1..n : j <= k => stream[j].time <= stream[k].time
  <2>1. ASSUME NEW j \in 1..n, NEW k \in 1..n, j <= k PROVE stream[j].time <= stream[k].time
    <3>1. CASE j = k
      BY <1>2, <3>1
    <3>2. CASE j < k
      BY <1>2, <1>5, <3>2 DEF Before
    <3>. QED
      BY <2>1, <3>1, <3>2
  <2>. QED
    BY <2>1
<1>7. stream[n].slot = stream[n].time
  <2>1. SUFFICES ASSUME stream[n].slot = first - 1, stream[n].time = first PROVE FALSE
    BY <1>1, <1>4
  <2>2. stream[1].time = first
    BY <1>1, <1>2, <1>3, <1>4, <1>6, <2>1
  <2>3. PICK j \in 1..n : stream[j].slot = first
    BY <1>1, <1>3, <2>1, <2>2
  <2>4. stream[j].time = first
    BY <1>3, <1>4, <2>3
  <2>5. j # n
    BY <1>3, <2>1, <2>3
  <2>6. Before(stream[j], stream[n])
    BY <1>1, <1>5, <2>5
  <2>. QED
    BY <1>3, <2>1, <2>3, <2>4, <2>6 DEF Before
<1>8. stream[1].time <= stream[n].time
  BY <1>1, <1>6
<1>9. stream[1].slot <= stream[n].slot
  BY <1>1, <1>2, <1>3, <1>4, <1>7, <1>8
<1>10. ASSUME NEW k \in 1..n, stream[k].time \notin Unpaid
       PROVE  /\ stream[k].time \in DOMAIN candles /\ first <= stream[k].time
              /\ ~(stream[k].time <= stream[1].slot) /\ stream[k].time <= stream[n].slot
  <2>1. stream[1].time <= stream[k].time /\ stream[k].time <= stream[n].time
    BY <1>1, <1>6
  <2>2. ~(stream[k].time <= stream[1].slot)
    <3>1. CASE stream[1].slot = stream[1].time
      BY <1>1, <1>2, <1>10, <2>1, <3>1 DEF Unpaid
    <3>2. CASE stream[1].slot = first - 1
      BY <1>2, <1>3, <1>4, <3>2
    <3>. QED
      BY <1>1, <1>4, <3>1, <3>2
  <2>. QED
    BY <1>4, <1>7, <2>1, <2>2
<1>11. ASSUME NEW u \in DOMAIN candles, first <= u, ~(u <= stream[1].slot), u <= stream[n].slot
       PROVE  u \notin Unpaid /\ \E k \in 1..n : stream[k].time = u
  <2>1. u \in Int /\ stream[1].slot \in Int
    BY <1>1, <1>2, <1>3
  <2>2. u \notin Unpaid
    BY <1>11, <2>1 DEF Unpaid
  <2>3. stream[1].time <= u /\ u <= stream[n].time
    BY <1>1, <1>2, <1>3, <1>4, <1>7, <1>11, <2>1
  <2>4. PICK j \in 1..n : stream[j].slot = u
    BY <1>1, <2>3
  <2>5. stream[j].time = u
    <3>1. stream[j].slot # first - 1
      BY <1>3, <1>11, <2>1, <2>4
    <3>. QED
      BY <1>4, <2>4, <3>1
  <2>. QED
    BY <2>2, <2>5
<1>12. {stream[k].time : k \in 1..n} \ Unpaid
          = {u \in DOMAIN candles :
                first <= u /\ ~(u <= stream[1].slot) /\ u <= stream[n].slot}
  BY <1>10, <1>11
<1>. QED
  BY <1>1, <1>9, <1>12

LEMMA ShareFollows ==
    ASSUME HistoryInv, VolumeFits, Word % PoolLiquidity = 0
    PROVE  ReplayPaysVolumeShare
<1>0. /\ CandleInv /\ ReplayInv /\ StreamWhole /\ GrowthPaid /\ CandleTypeOK
      /\ stream \in Seq(TickRow)
  BY DEF HistoryInv, CandleInv, ReplayInv, ReplayTypeOK
<1>1. SUFFICES ASSUME replay = "done", OneBackfill
               PROVE  fees * PoolLiquidity
                        = VolumeOf({stream[k].time : k \in DOMAIN stream} \ Unpaid)
                              * Word * PositionLiquidity
  BY DEF ReplayPaysVolumeShare
<1>2. PICK n \in Nat : n = Len(stream) /\ n = done /\ n # 0 /\ stream # <<>>
                       /\ DOMAIN stream = 1..n
  BY <1>0, <1>1 DEF GrowthPaid, OneBackfill
<1>3. PICK first \in DOMAIN candles :
         /\ \A k \in DOMAIN stream : BaselineRow(stream[k], first) \/ CandleRow(stream[k], first)
         /\ \A k \in DOMAIN stream, u \in DOMAIN candles :
                stream[1].time <= u /\ u <= stream[k].time =>
                    \E j \in DOMAIN stream : stream[j].slot = u
  BY <1>0, <1>1 DEF StreamWhole
<1> DEFINE S == {u \in DOMAIN candles : first <= u /\ u <= stream[1].slot}
           T == {u \in DOMAIN candles : first <= u /\ u <= stream[n].slot}
<1>4. /\ {stream[k].time : k \in DOMAIN stream} \ Unpaid
            = {u \in DOMAIN candles :
                  first <= u /\ ~(u <= stream[1].slot) /\ u <= stream[n].slot}
      /\ stream[1].slot <= stream[n].slot
  BY <1>0, <1>2, <1>3, PaidCandles
<1>5. stream[1] \in TickRow /\ stream[n] \in TickRow
  BY <1>0, <1>2
<1>6. S \subseteq T /\ T \subseteq DOMAIN candles
  <2>1. stream[1].slot \in Int /\ stream[n].slot \in Int
    BY <1>5 DEF TickRow
  <2>2. DOMAIN candles \subseteq Int
    BY <1>0, CandlesAre
  <2>3. \A u \in DOMAIN candles : u <= stream[1].slot => u <= stream[n].slot
    BY <1>4, <2>1, <2>2
  <2>. QED
    BY <2>3
<1>7. {stream[k].time : k \in DOMAIN stream} \ Unpaid = T \ S
  BY <1>4
<1>8. /\ stream[1].growth = VolumeOf(S) * (Word \div PoolLiquidity)
      /\ stream[n].growth = VolumeOf(T) * (Word \div PoolLiquidity)
  <2>1. 1 \in DOMAIN stream /\ n \in DOMAIN stream
    BY <1>2
  <2>2. /\ stream[1].growth = VolumeSince(first, stream[1].slot) * (Word \div PoolLiquidity)
        /\ stream[n].growth = VolumeSince(first, stream[n].slot) * (Word \div PoolLiquidity)
    BY <1>0, <1>3, <1>5, <2>1, GrowthIsShare
  <2>. QED
    BY <2>2 DEF VolumeSince
<1> HIDE DEF S, T
<1>9. PICK s \in Nat, t \in Nat, d \in Nat :
         s = VolumeOf(S) /\ t = VolumeOf(T) /\ d = VolumeOf(T \ S) /\ t = s + d
  <2>1. /\ VolumeOf(S) \in Nat /\ VolumeOf(T) \in Nat /\ VolumeOf(T \ S) \in Nat
        /\ VolumeOf(T) = VolumeOf(S) + VolumeOf(T \ S)
    BY <1>0, <1>6, VolumeGrows, Zenon
  <2>. QED
    BY <2>1, Zenon
<1>10. PICK g \in Nat : g = Word \div PoolLiquidity /\ Word = PoolLiquidity * g
  <2>1. Word \in Nat /\ PoolLiquidity \in Nat \ {0}
    BY WordAssumption, CandleAssumption
  <2>. QED
    BY <2>1, ExactQuotient
<1>11. fees = PositionLiquidity * (stream[n].growth - stream[1].growth)
  <2>1. Growing
    BY <1>0, <1>1, StreamGrows
  <2>. QED
    BY <1>0, <1>2, <2>1 DEF GrowthPaid
<1>12. fees = PositionLiquidity * (d * g)
  <2>1. t * g - s * g = d * g
    BY <1>9
  <2>. QED
    BY <1>8, <1>9, <1>10, <1>11, <2>1
<1>13. PICK P \in Nat, L \in Nat, W \in Nat :
          P = PoolLiquidity /\ L = PositionLiquidity /\ W = Word /\ W = P * g
  BY <1>10, CandleAssumption, ReplayAssumption, WordAssumption
<1>14. (L * (d * g)) * P = (d * W) * L
  <2>1. (L * (d * g)) * P = L * ((d * g) * P)
    OBVIOUS
  <2>2. (d * g) * P = d * (P * g)
    OBVIOUS
  <2>3. (d * g) * P = d * W
    BY <1>13, <2>2
  <2>. QED
    BY <2>1, <2>3
<1>. QED
  BY <1>7, <1>9, <1>12, <1>13, <1>14

(* "Yields exactly volume * fee_rate * (position_L / pool_L)": a replay of    *)
(* what backfills with one first candle stored pays each candle once, for    *)
(* any pages, repetitions and overlaps, if the growth of one unit of volume  *)
(* is a whole number (the model's stand-in for the f64 of the code) and the  *)
(* growth of all volume fits the accumulator.                               *)
THEOREM VolumeShare ==
    ASSUME Word % PoolLiquidity = 0
    PROVE  Spec => [](VolumeFits => ReplayPaysVolumeShare)
<1>1. HistoryInv => (VolumeFits => ReplayPaysVolumeShare)
  BY ShareFollows
<1>. QED
  BY <1>1, HistoryWhole, PTL
=============================================================================
