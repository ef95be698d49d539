-------------------------- MODULE PriceFeedsProofs --------------------------
(***************************************************************************)
(* No session of a price feed goes unwatched, for every choice of the      *)
(* timeouts and intervals; the gauges never show a feed as up beside a     *)
(* deviation against an old price; and the attempts are paced.             *)
(***************************************************************************)
EXTENDS PriceFeeds, SharedLemmas

(* Lesser returns the smaller of its arguments.                             *)
LEMMA LesserIs ==
    ASSUME NEW a \in Int, NEW b \in Int
    PROVE  /\ Lesser(a, b) \in Int
           /\ Lesser(a, b) <= a /\ Lesser(a, b) <= b
           /\ Lesser(a, b) = a \/ Lesser(a, b) = b
BY DEF Lesser

(* The cap of a price age lies above every limit it is compared with.       *)
LEMMA OldestAgeNat == OldestAge \in Nat /\ OldestAge > StaleTimeout /\ OldestAge > CheckInterval
BY PriceFeedsAssumption DEF OldestAge

Watched == TypeOK /\ SessionsWatched /\ DeviationTrusted

(* The sessions and the gauges say the same after a step that leaves what    *)
(* they speak of alone.                                                      *)
LEMMA WatchedStands ==
    ASSUME SessionsWatched, DeviationTrusted, UNCHANGED processor,
           UNCHANGED <<timer, price, opened, chatter>>,
           \A f \in Feeds : feed'[f] = "session" => feed[f] = "session"
    PROVE  SessionsWatched' /\ DeviationTrusted'
BY DEF SessionsWatched, DeviationTrusted, Silence, processor, Feeds

(* Nothing is watched yet. *)
LEMMA FeedsStart ==
    ASSUME Init
    PROVE  Watched
<1>1. TypeOK
  <2>1. feed \in [Feeds -> {"off", "top", "connecting", "session", "backoff", "done"}]
    BY DEF Init
  <2>2. /\ RetryBase \in RetryBase..RetryMax /\ 0 \in 0..RetryMax /\ 0 \in 0..OldestAge
        /\ 0 \in 0..MaxFails /\ Never \in Never..OldestAge
    BY PriceFeedsAssumption, OldestAgeNat DEF Never
  <2>3. /\ backoff \in [Feeds -> RetryBase..RetryMax]
        /\ sleepIn \in [Feeds -> 0..RetryMax] /\ waited \in [Feeds -> 0..RetryMax]
        /\ price \in [Feeds -> Never..OldestAge] /\ timer \in [Feeds -> Nat]
        /\ opened \in [Feeds -> 0..OldestAge] /\ fails \in [Feeds -> 0..MaxFails]
    BY <2>2 DEF Init
  <2>4. /\ gotPrice \in [Feeds -> BOOLEAN] /\ chatter \in [Feeds -> BOOLEAN]
        /\ fallback \in BOOLEAN /\ shutdown \in BOOLEAN
    BY Zenon DEF Init
  <2>5. gauge \in [Feeds -> 0..1] /\ deviation \in {"unset", "live", "old"}
    BY DEF Init
  <2>6. line \in [Feeds -> {"good", "bad"}] /\ link \in [Feeds -> {"live", "mute", "dead"}]
    BY DEF Init
  <2>. QED
    BY <2>1, <2>3, <2>4, <2>5, <2>6 DEF TypeOK
<1>2. \A f \in Feeds : feed[f] # "session"
  BY DEF Init
<1>. QED
  BY <1>1, <1>2 DEF Watched, SessionsWatched, DeviationTrusted, Init, Feeds

(* The ways from and to the top of a feed's loop. *)
LEMMA TopStep ==
    ASSUME Watched, NEW f \in Feeds, Top(f) \/ SleepOver(f) \/ StopNow(f)
    PROVE  Watched'
<1>1. NextBackoff(f) \in RetryBase..RetryMax
  BY PriceFeedsAssumption DEF NextBackoff, Lesser, Watched, TypeOK
<1>2. TypeOK'
  BY <1>1 DEF Watched, TypeOK, Top, SleepOver, StopNow, Set, processor, environment, history
<1>3. SessionsWatched' /\ DeviationTrusted'
  BY WatchedStands DEF Watched, TypeOK, Top, SleepOver, StopNow, Set, history
<1>. QED
  BY <1>2, <1>3 DEF Watched

(* A session opens with its clocks at 0. *)
LEMMA OpenStep ==
    ASSUME Watched, NEW f \in Feeds, Opened(f),
           backoff' = backoff \/ backoff' = Set(backoff, f, RetryBase),
           fails' = fails \/ fails' = Set(fails, f, 0)
    PROVE  Watched'
<1>1. TypeOK'
  BY PriceFeedsAssumption, OldestAgeNat DEF Watched, TypeOK, Opened, Set, processor
<1>2. DeviationTrusted'
  BY DEF Watched, DeviationTrusted, Opened, processor
<1>3. SessionsWatched'
  <2>1. /\ feed \in [Feeds -> {"off", "top", "connecting", "session", "backoff", "done"}]
        /\ timer \in [Feeds -> Nat] /\ price \in [Feeds -> Never..OldestAge]
        /\ opened \in [Feeds -> 0..OldestAge] /\ chatter \in [Feeds -> BOOLEAN]
    BY DEF Watched, TypeOK
  <2>. QED
    BY <2>1, PriceFeedsAssumption, OldestAgeNat
    DEF Watched, SessionsWatched, Silence, Opened, Set, Feeds, Never, Lesser
<1>. QED
  BY <1>1, <1>2, <1>3 DEF Watched

(* A session ends: into a sleep of the current backoff, or to the top. *)
LEMMA EndStep ==
    ASSUME Watched, NEW f \in Feeds,
           \/ FailAndSleep(f)
           \/ ReconnectAtOnce(f) /\ backoff' = backoff
           \/ ReconnectAtOnce(f) /\ backoff' = Set(backoff, f, RetryBase)
    PROVE  Watched'
<1>1. Lesser(fails[f] + 1, MaxFails) \in 0..MaxFails
  BY PriceFeedsAssumption DEF Lesser, Watched, TypeOK
<1>2. TypeOK'
  BY <1>1, PriceFeedsAssumption
  DEF Watched, TypeOK, FailAndSleep, ReconnectAtOnce, Set, processor, environment
<1>3. SessionsWatched' /\ DeviationTrusted'
  BY WatchedStands DEF Watched, TypeOK, FailAndSleep, ReconnectAtOnce, Set
<1>. QED
  BY <1>2, <1>3 DEF Watched

(* A price ends the silence; another frame is chatter. *)
LEMMA FrameStep ==
    ASSUME Watched, NEW f \in Feeds, NEW frame \in Frames, Frame(f, frame)
    PROVE  Watched'
<1>1. TypeOK'
  BY PriceFeedsAssumption, OldestAgeNat
  DEF Watched, TypeOK, Frame, Set, processor, environment, Never
<1>2. DeviationTrusted'
  BY DEF Watched, DeviationTrusted, Frame, processor
<1>3. SessionsWatched'
  <2>1. /\ timer \in [Feeds -> Nat] /\ price \in [Feeds -> Never..OldestAge]
        /\ opened \in [Feeds -> 0..OldestAge] /\ chatter \in [Feeds -> BOOLEAN]
    BY DEF Watched, TypeOK
  <2>2. CASE f = "binance"
    BY <2>1, <2>2, PriceFeedsAssumption, OldestAgeNat
    DEF Watched, SessionsWatched, Silence, Frame, Set, Feeds, Never, Lesser
  <2>3. CASE f = "coinbase"
    <3>1. /\ feed' = feed /\ opened' = opened
          /\ timer' = [timer EXCEPT !["coinbase"] = 0]
          /\ price' = IF Accepted(frame) THEN [price EXCEPT !["coinbase"] = 0] ELSE price
          /\ chatter' = [chatter EXCEPT !["coinbase"] = ~Accepted(frame)]
      BY <2>3 DEF Frame, Set
    <3>2. /\ timer'["coinbase"] = 0 /\ timer'["binance"] = timer["binance"]
          /\ price'["binance"] = price["binance"]
      BY <2>1, <3>1 DEF Feeds
    <3>3. CASE Accepted(frame)
      <4>1. price'["coinbase"] = 0
        BY <2>1, <3>1, <3>3 DEF Feeds
      <4>2. Silence("coinbase")' = 0
        BY <2>1, <3>1, <4>1 DEF Silence, Never, Lesser, Feeds
      <4>. QED
        BY <2>1, <3>1, <3>2, <4>2, PriceFeedsAssumption DEF Watched, SessionsWatched
    <3>4. CASE ~Accepted(frame)
      <4>1. chatter'["coinbase"]
        BY <2>1, <3>1, <3>4 DEF Feeds
      <4>. QED
        BY <2>1, <3>1, <3>2, <4>1, PriceFeedsAssumption DEF Watched, SessionsWatched
    <3>. QED
      BY <3>3, <3>4
  <2>. QED
    BY <2>2, <2>3 DEF Feeds
<1>. QED
  BY <1>1, <1>2, <1>3 DEF Watched

(* The watchdog looks and finds the price young enough. *)
LEMMA WatchdogStep ==
    ASSUME Watched, WatchdogTick
    PROVE  Watched'
<1>1. TypeOK'
  BY DEF Watched, TypeOK, WatchdogTick, Set, processor, environment, history, Feeds
<1>2. DeviationTrusted'
  BY DEF Watched, DeviationTrusted, WatchdogTick, processor
<1>3. SessionsWatched'
  <2>1. /\ timer \in [Feeds -> Nat] /\ price \in [Feeds -> Never..OldestAge]
        /\ opened \in [Feeds -> 0..OldestAge]
    BY DEF Watched, TypeOK
  <2>. QED
    BY <2>1, PriceFeedsAssumption, OldestAgeNat
    DEF Watched, SessionsWatched, WatchdogTick, PriceStale, Set, Silence, history, Feeds, Never
<1>. QED
  BY <1>1, <1>2, <1>3 DEF Watched

(* A tick that moves the gauges moves both together. *)
LEMMA PriceStep ==
    ASSUME Watched, NEW passes \in BOOLEAN, TickPrice(passes)
    PROVE  Watched'
<1>1. /\ GaugesNow \in [Feeds -> 0..1] /\ DeviationNow \in {"unset", "live", "old"}
      /\ StaleFlag \in BOOLEAN
  <2>1. GaugesNow \in [Feeds -> 0..1]
    BY DEF GaugesNow, record_feed, Watched, TypeOK
  <2>2. DeviationNow \in {"unset", "live", "old"}
    BY DEF DeviationNow, deviation_bps, Watched, TypeOK
  <2>3. fallback \in BOOLEAN /\ CexPriceFresh \in BOOLEAN
    BY DEF Watched, TypeOK, CexPriceFresh
  <2>4. StaleFlag \in BOOLEAN
    BY <2>3, Zenon DEF StaleFlag
  <2>. QED
    BY <2>1, <2>2, <2>4
<1>2. TypeOK'
  BY <1>1 DEF Watched, TypeOK, TickPrice, feedState, environment, history
<1>3. DeviationTrusted'
  BY DEF Watched, DeviationTrusted, TickPrice, GaugesNow, DeviationNow, record_feed,
         deviation_bps, FeedUp, Feeds
<1>4. SessionsWatched'
  BY DEF Watched, SessionsWatched, Silence, TickPrice, feedState, history
<1>. QED
  BY <1>2, <1>3, <1>4 DEF Watched

(* The environment and Ctrl+C touch nothing that is watched. *)
LEMMA OutsideStep ==
    ASSUME Watched,
           CtrlC \/ (\E f \in Feeds : LineChanges(f) \/ LinkDegrades(f)) \/ UNCHANGED vars
    PROVE  Watched'
<1>1. TypeOK'
  BY DEF Watched, TypeOK, CtrlC, LineChanges, LinkDegrades, Set, vars, feedState, processor,
         environment, history
<1>2. SessionsWatched' /\ DeviationTrusted'
  BY WatchedStands
  DEF Watched, CtrlC, LineChanges, LinkDegrades, vars, feedState, processor, history
<1>. QED
  BY <1>1, <1>2 DEF Watched

(* Time waits for the arms that are due, so no clock runs past its limit. *)
LEMMA TimeStep ==
    ASSUME Watched, TimePasses
    PROVE  Watched'
<1>1. \A age \in Never..OldestAge :
          /\ Later(age) \in Never..OldestAge /\ Later(age) <= age + 1
          /\ Later(age) = Never <=> age = Never
  BY OldestAgeNat DEF Later, Lesser, Never
<1>2. TypeOK'
  <2>1. price' \in [Feeds -> Never..OldestAge] /\ timer' \in [Feeds -> Nat]
    BY <1>1 DEF Watched, TypeOK, TimePasses
  <2>2. opened' \in [Feeds -> 0..OldestAge]
    BY OldestAgeNat DEF Watched, TypeOK, TimePasses, Lesser
  <2>3. sleepIn' \in [Feeds -> 0..RetryMax] /\ waited' \in [Feeds -> 0..RetryMax]
    BY PriceFeedsAssumption DEF Watched, TypeOK, TimePasses, Punctual, Lesser
  <2>. QED
    BY <2>1, <2>2, <2>3 DEF Watched, TypeOK, TimePasses, processor, environment
<1>3. DeviationTrusted'
  BY DEF Watched, DeviationTrusted, TimePasses, processor
<1>4. SessionsWatched'
  <2>1. /\ timer \in [Feeds -> Nat] /\ price \in [Feeds -> Never..OldestAge]
        /\ opened \in [Feeds -> 0..OldestAge]
    BY DEF Watched, TypeOK
  <2>2. \A f \in Feeds :
           /\ price'[f] = Later(price[f])
           /\ feed[f] = "session" =>
                  /\ timer'[f] = timer[f] + 1
                  /\ timer[f] < IF f = "binance" THEN CheckInterval ELSE StaleTimeout
                  /\ opened'[f] = Lesser(opened[f] + 1, OldestAge)
    BY DEF TimePasses, Punctual
  <2>3. feed' = feed /\ chatter' = chatter
    BY DEF TimePasses
  <2>4. ASSUME feed["binance"] = "session"
        PROVE  /\ timer'["binance"] <= CheckInterval
               /\ \/ opened'["binance"] = timer'["binance"]
                  \/ /\ price'["binance"] = Never
                     /\ opened'["binance"] <= StaleTimeout + timer'["binance"]
                  \/ /\ price'["binance"] # Never
                     /\ price'["binance"] <= StaleTimeout + timer'["binance"]
    BY <1>1, <2>1, <2>2, <2>4, PriceFeedsAssumption, OldestAgeNat
    DEF Watched, SessionsWatched, Feeds, Never, Lesser
  <2>5. ASSUME feed["coinbase"] = "session"
        PROVE  /\ timer'["coinbase"] <= StaleTimeout
               /\ ~chatter["coinbase"] => Silence("coinbase")' <= timer'["coinbase"]
    BY <1>1, <2>1, <2>2, <2>5, PriceFeedsAssumption, OldestAgeNat
    DEF Watched, SessionsWatched, Silence, Feeds, Never, Lesser
  <2>. QED
    BY <2>3, <2>4, <2>5 DEF SessionsWatched
<1>. QED
  BY <1>2, <1>3, <1>4 DEF Watched

(* Every step keeps the watch. *)
LEMMA FeedsStep ==
    ASSUME Watched, [Next]_vars
    PROVE  Watched'
<1>1. ASSUME NEW f \in Feeds, FeedStep(f)
      PROVE  Watched'
  BY <1>1, TopStep, FrameStep DEF FeedStep
<1>2. CASE Connecting
  <2>1. CASE BinanceConnected
    BY <2>1, OpenStep DEF BinanceConnected, Feeds
  <2>2. CASE CoinbaseConnected
    BY <2>2, OpenStep DEF CoinbaseConnected, Feeds
  <2>3. CASE BinanceConnectFails \/ CoinbaseConnectFails
    BY <2>3, EndStep DEF BinanceConnectFails, CoinbaseConnectFails, Feeds
  <2>. QED
    BY <1>2, <2>1, <2>2, <2>3 DEF Connecting
<1>3. CASE SessionEnd
  <2>1. CASE WatchdogStale
    BY <2>1, EndStep DEF WatchdogStale, Feeds
  <2>2. CASE CoinbaseDrops \/ CoinbaseFailsUnpriced
    BY <2>2, EndStep DEF CoinbaseDrops, CoinbaseFailsUnpriced, Feeds
  <2>. QED
    BY <1>3, <2>1, <2>2, WatchdogStep DEF SessionEnd
<1>4. CASE TimePasses
  BY <1>4, TimeStep
<1>5. ASSUME NEW passes \in BOOLEAN, TickPrice(passes)
      PROVE  Watched'
  BY <1>5, PriceStep
<1>. QED
  BY <1>1, <1>2, <1>3, <1>4, <1>5, OutsideStep DEF Next

-----------------------------------------------------------------------------
(* The pace of the attempts. *)

AllPaced == \A f \in Feeds : Paced(f)

LEMMA Pauses ==
    /\ Pause(0) = 0 /\ Pause(1) = RetryBase
    /\ \A n \in Nat \ {0} :
          Pause(n) \in RetryBase..RetryMax /\ Lesser(2 * Pause(n), RetryMax) = Pause(n + 1)
    /\ Pause(MaxFails + 1) = Pause(MaxFails)
<1>1. /\ CappedWait(RetryBase, RetryMax, 1) = RetryBase
      /\ \A n \in Nat \ {0} :
            /\ CappedWait(RetryBase, RetryMax, n) \in RetryBase..RetryMax
            /\ CappedWait(RetryBase, RetryMax, n + 1) =
                  IF 2 * CappedWait(RetryBase, RetryMax, n) < RetryMax
                  THEN 2 * CappedWait(RetryBase, RetryMax, n) ELSE RetryMax
  BY PriceFeedsAssumption, WaitsDouble
<1>2. \A n \in Nat \ {0} : n # 0 /\ n + 1 # 0
  OBVIOUS
<1>3. \A n \in Nat \ {0} :
         Pause(n) \in RetryBase..RetryMax /\ Lesser(2 * Pause(n), RetryMax) = Pause(n + 1)
  BY <1>1, <1>2, PriceFeedsAssumption DEF Pause, Lesser
<1>4. Pause(MaxFails) = RetryMax /\ Pause(MaxFails + 1) = RetryMax
  BY <1>1, <1>2, PriceFeedsAssumption DEF Pause
<1>. QED
  BY <1>1, <1>3, <1>4 DEF Pause

(* The count of failures and what goes with it are numbers. *)
LEMMA CountsAre ==
    ASSUME TypeOK, NEW f \in Feeds
    PROVE  /\ fails[f] \in 0..MaxFails /\ backoff[f] \in RetryBase..RetryMax
           /\ sleepIn[f] \in 0..RetryMax /\ waited[f] \in 0..RetryMax
           /\ gotPrice[f] \in BOOLEAN
           /\ feed[f] \in {"off", "top", "connecting", "session", "backoff", "done"}
BY DEF TypeOK

(* A feed that does not move keeps its pace. *)
LEMMA PacedStands ==
    ASSUME NEW f \in Feeds, Paced(f),
           feed'[f] = feed[f] \/ feed'[f] \in {"off", "done"},
           backoff'[f] = backoff[f], sleepIn'[f] = sleepIn[f], fails'[f] = fails[f],
           waited'[f] = waited[f], gotPrice'[f] = gotPrice[f]
    PROVE  Paced(f)'
BY DEF Paced, Pause

LEMMA PacedTop ==
    ASSUME TypeOK, NEW f \in Feeds, Paced(f), Top(f) \/ SleepOver(f) \/ StopNow(f)
    PROVE  Paced(f)'
<1>1. CASE Top(f)
  BY <1>1 DEF Top, Set, TypeOK, history, Paced, Pause
<1>2. CASE SleepOver(f)
  <2>1. /\ feed'[f] = "top" /\ backoff'[f] = Lesser(2 * backoff[f], RetryMax)
        /\ fails[f] > 0 /\ backoff[f] = Pause(fails[f]) /\ waited[f] + sleepIn[f] = backoff[f]
        /\ sleepIn[f] = 0
        /\ fails'[f] = fails[f] /\ waited'[f] = waited[f] /\ gotPrice'[f] = gotPrice[f]
    BY <1>2 DEF SleepOver, NextBackoff, Set, TypeOK, history, Paced
  <2>2. fails[f] \in Nat \ {0} /\ waited[f] = Pause(fails[f])
    BY <2>1, CountsAre, PriceFeedsAssumption
  <2>3. backoff'[f] = Pause(fails[f] + 1)
    BY <2>1, <2>2, Pauses
  <2>. QED
    BY <2>1, <2>2, <2>3 DEF Paced, Pause
<1>3. CASE StopNow(f)
  BY <1>3, PacedStands DEF StopNow, Set, TypeOK, history
<1>. QED
  BY <1>1, <1>2, <1>3

(* A failure adds one to the count, up to MaxFails, where the pause no longer *)
(* grows.                                                                    *)
LEMMA PacedFailure ==
    ASSUME TypeOK, NEW f \in Feeds, Paced(f), FailAndSleep(f),
           feed[f] = "connecting" \/ (feed[f] = "session" /\ ~gotPrice[f])
    PROVE  Paced(f)'
<1>1. /\ feed'[f] = "backoff" /\ sleepIn'[f] = backoff[f] /\ waited'[f] = 0
      /\ fails'[f] = Lesser(fails[f] + 1, MaxFails)
      /\ backoff'[f] = backoff[f] /\ gotPrice'[f] = gotPrice[f]
  BY DEF FailAndSleep, Set, TypeOK
<1>2. backoff[f] = Pause(fails[f] + 1) /\ backoff[f] \in Int /\ (f = "binance" => ~gotPrice[f])
  BY CountsAre DEF Paced
<1>3. Lesser(fails[f] + 1, MaxFails) > 0 /\ Pause(Lesser(fails[f] + 1, MaxFails)) = Pause(fails[f] + 1)
  <2>1. CASE fails[f] < MaxFails
    BY <2>1, CountsAre, PriceFeedsAssumption DEF Lesser
  <2>2. CASE fails[f] = MaxFails
    BY <2>2, Pauses, PriceFeedsAssumption DEF Lesser
  <2>. QED
    BY <2>1, <2>2, CountsAre, PriceFeedsAssumption
<1>. QED
  BY <1>1, <1>2, <1>3 DEF Paced, Pause

(* An attempt that succeeds. *)
LEMMA PacedOpening ==
    ASSUME TypeOK, NEW f \in Feeds, Paced(f), Opened(f),
           \/ /\ f = "binance" /\ backoff'[f] = RetryBase /\ fails'[f] = 0
           \/ /\ f = "coinbase" /\ backoff'[f] = backoff[f] /\ fails'[f] = fails[f]
    PROVE  Paced(f)'
<1>1. /\ feed'[f] = "session" /\ feed[f] = "connecting" /\ gotPrice'[f] = FALSE
  BY DEF Opened, Set, TypeOK
<1>2. RetryBase = Pause(0 + 1)
  BY Pauses
<1>. QED
  BY <1>1, <1>2 DEF Paced, Pause

(* A session that goes back to the top at once has no failure behind it. *)
LEMMA PacedReconnect ==
    ASSUME TypeOK, NEW f \in Feeds, Paced(f), ReconnectAtOnce(f), feed[f] = "session",
           \/ f = "binance" /\ backoff'[f] = backoff[f]
           \/ gotPrice[f] /\ backoff'[f] = RetryBase
    PROVE  Paced(f)'
<1>1. /\ feed'[f] = "top" /\ waited'[f] = 0 /\ fails'[f] = fails[f] /\ gotPrice'[f] = gotPrice[f]
  BY DEF ReconnectAtOnce, Set, TypeOK
<1>2. fails[f] = 0 /\ backoff'[f] = Pause(0 + 1) /\ (f = "binance" => ~gotPrice[f])
  BY Pauses DEF Paced
<1>. QED
  BY <1>1, <1>2, Pauses DEF Paced, Pause

(* A price is a success: Binance has none left to count, and Coinbase goes   *)
(* from the count to the base.                                               *)
LEMMA PacedFrame ==
    ASSUME TypeOK, NEW f \in Feeds, Paced(f), NEW frame \in Frames, Frame(f, frame)
    PROVE  Paced(f)'
<1>1. CASE Accepted(frame)
  <2>1. /\ feed[f] = "session" /\ feed'[f] = "session" /\ fails'[f] = 0
        /\ gotPrice'[f] = IF f = "coinbase" THEN TRUE ELSE gotPrice[f]
        /\ backoff'[f] = backoff[f]
    BY <1>1 DEF Frame, Set, TypeOK
  <2>. QED
    BY <2>1 DEF Paced, Pause, Feeds
<1>2. CASE ~Accepted(frame)
  BY <1>2, PacedStands DEF Frame, Set
<1>. QED
  BY <1>1, <1>2

(* Time goes from what is left of the sleep to what was slept. *)
LEMMA PacedTime ==
    ASSUME TypeOK, NEW f \in Feeds, Paced(f), TimePasses
    PROVE  Paced(f)'
<1>1. /\ feed' = feed /\ backoff' = backoff /\ fails' = fails /\ gotPrice' = gotPrice
      /\ sleepIn'[f] = IF feed[f] = "backoff" THEN sleepIn[f] - 1 ELSE sleepIn[f]
      /\ waited'[f] = IF feed[f] = "backoff" THEN Lesser(waited[f] + 1, RetryMax) ELSE waited[f]
      /\ feed[f] = "backoff" => sleepIn[f] > 0
  BY DEF TimePasses, Punctual
<1>2. CASE feed[f] = "backoff"
  <2>1. waited[f] + sleepIn[f] = backoff[f]
    BY <1>2 DEF Paced
  <2>2. waited'[f] + sleepIn'[f] = backoff[f]
    BY <1>1, <1>2, <2>1, CountsAre, PriceFeedsAssumption DEF Lesser
  <2>. QED
    BY <1>1, <1>2, <2>2 DEF Paced, Pause
<1>3. CASE feed[f] # "backoff"
  BY <1>1, <1>3, PacedStands
<1>. QED
  BY <1>2, <1>3

(* What one feed does, the other does not notice. *)
LEMMA PacedOther ==
    ASSUME TypeOK, NEW f \in Feeds, NEW g \in Feeds \ {f}, Paced(g),
           \/ Top(f) \/ SleepOver(f) \/ StopNow(f) \/ FailAndSleep(f)
           \/ \E frame \in Frames : Frame(f, frame)
           \/ /\ Opened(f)
              /\ backoff' = backoff \/ backoff' = Set(backoff, f, RetryBase)
              /\ fails' = fails \/ fails' = Set(fails, f, 0)
           \/ /\ ReconnectAtOnce(f)
              /\ backoff' = backoff \/ backoff' = Set(backoff, f, RetryBase)
    PROVE  Paced(g)'
<1>1. CASE Top(f) \/ SleepOver(f) \/ StopNow(f)
  BY <1>1, PacedStands DEF Top, SleepOver, StopNow, Set, history, TypeOK
<1>2. CASE FailAndSleep(f)
  BY <1>2, PacedStands DEF FailAndSleep, Set, TypeOK
<1>3. CASE \E frame \in Frames : Frame(f, frame)
  BY <1>3, PacedStands DEF Frame, Set, TypeOK
<1>4. CASE /\ Opened(f)
           /\ backoff' = backoff \/ backoff' = Set(backoff, f, RetryBase)
           /\ fails' = fails \/ fails' = Set(fails, f, 0)
  BY <1>4, PacedStands DEF Opened, Set, TypeOK
<1>5. CASE /\ ReconnectAtOnce(f)
           /\ backoff' = backoff \/ backoff' = Set(backoff, f, RetryBase)
  BY <1>5, PacedStands DEF ReconnectAtOnce, Set, TypeOK
<1>. QED
  BY <1>1, <1>2, <1>3, <1>4, <1>5

LEMMA PaceInit ==
    ASSUME Init PROVE AllPaced
<1>1. Pause(0 + 1) = RetryBase /\ Pause(0) = 0
  BY Pauses
<1>. QED
  BY <1>1 DEF Init, AllPaced, Paced

LEMMA PaceStep ==
    ASSUME TypeOK, AllPaced, [Next]_vars
    PROVE  AllPaced'
<1>1. ASSUME NEW f \in Feeds, FeedStep(f)
      PROVE  AllPaced'
  <2>1. Paced(f)'
    BY <1>1, PacedTop, PacedFrame DEF FeedStep, AllPaced
  <2>2. \A g \in Feeds \ {f} : Paced(g)'
    BY <1>1, PacedOther DEF FeedStep, AllPaced
  <2>. QED
    BY <2>1, <2>2 DEF AllPaced
<1>2. CASE UNCHANGED <<feed, backoff, sleepIn, gotPrice, fails, waited>>
  BY <1>2, PacedStands DEF AllPaced
<1>3. CASE CtrlC \/ UNCHANGED vars \/ (\E f \in Feeds : LineChanges(f) \/ LinkDegrades(f))
           \/ (\E passes \in BOOLEAN : TickPrice(passes)) \/ WatchdogTick
  BY <1>2, <1>3 DEF CtrlC, vars, LineChanges, LinkDegrades, TickPrice, WatchdogTick, feedState, history
<1>4. CASE TimePasses
  BY <1>4, PacedTime DEF AllPaced
<1>5. CASE BinanceConnected
  <2>1. "binance" \in Feeds /\ Opened("binance") /\ backoff'["binance"] = RetryBase
        /\ fails'["binance"] = 0
    BY <1>5 DEF BinanceConnected, Set, TypeOK, Feeds
  <2>2. Paced("binance")'
    BY <2>1, PacedOpening DEF AllPaced
  <2>3. \A g \in Feeds \ {"binance"} : Paced(g)'
    BY <1>5, <2>1, PacedOther DEF AllPaced, BinanceConnected
  <2>. QED
    BY <2>2, <2>3 DEF AllPaced
<1>6. CASE CoinbaseConnected
  <2>1. "coinbase" \in Feeds /\ Opened("coinbase") /\ backoff' = backoff /\ fails' = fails
    BY <1>6 DEF CoinbaseConnected, Feeds
  <2>2. Paced("coinbase")'
    BY <2>1, PacedOpening DEF AllPaced
  <2>3. \A g \in Feeds \ {"coinbase"} : Paced(g)'
    BY <2>1, PacedOther DEF AllPaced
  <2>. QED
    BY <2>2, <2>3 DEF AllPaced
<1>7. CASE BinanceConnectFails \/ CoinbaseConnectFails \/ CoinbaseFailsUnpriced
  <2>1. PICK f \in Feeds :
          /\ FailAndSleep(f)
          /\ feed[f] = "connecting" \/ (feed[f] = "session" /\ ~gotPrice[f])
    BY <1>7 DEF BinanceConnectFails, CoinbaseConnectFails, CoinbaseFailsUnpriced, CoinbaseOver,
                Healthy, Feeds
  <2>2. Paced(f)'
    BY <2>1, PacedFailure DEF AllPaced
  <2>3. \A g \in Feeds \ {f} : Paced(g)'
    BY <2>1, PacedOther DEF AllPaced
  <2>. QED
    BY <2>2, <2>3 DEF AllPaced
<1>8. CASE WatchdogStale
  <2>1. "binance" \in Feeds /\ ReconnectAtOnce("binance") /\ feed["binance"] = "session"
        /\ backoff' = backoff
    BY <1>8 DEF WatchdogStale, Feeds
  <2>2. Paced("binance")'
    BY <2>1, PacedReconnect DEF AllPaced
  <2>3. \A g \in Feeds \ {"binance"} : Paced(g)'
    BY <2>1, PacedOther DEF AllPaced
  <2>. QED
    BY <2>2, <2>3 DEF AllPaced
<1>9. CASE CoinbaseDrops
  <2>1. "coinbase" \in Feeds /\ ReconnectAtOnce("coinbase") /\ feed["coinbase"] = "session"
        /\ gotPrice["coinbase"] /\ backoff' = Set(backoff, "coinbase", RetryBase)
        /\ backoff'["coinbase"] = RetryBase
    BY <1>9 DEF CoinbaseDrops, CoinbaseOver, Healthy, Set, TypeOK, Feeds
  <2>2. Paced("coinbase")'
    BY <2>1, PacedReconnect DEF AllPaced
  <2>3. \A g \in Feeds \ {"coinbase"} : Paced(g)'
    BY <2>1, PacedOther DEF AllPaced
  <2>. QED
    BY <2>2, <2>3 DEF AllPaced
<1>. QED
  BY <1>1, <1>3, <1>4, <1>5, <1>6, <1>7, <1>8, <1>9 DEF Next, Connecting, SessionEnd

-----------------------------------------------------------------------------
(* The theorems. *)

(* A watched session is never silent for longer than its limit. *)
LEMMA WatchBounds ==
    ASSUME Watched, AllPaced
    PROVE  FeedsInv
<1>1. /\ timer \in [Feeds -> Nat] /\ price \in [Feeds -> Never..OldestAge]
      /\ opened \in [Feeds -> 0..OldestAge]
  BY DEF Watched, TypeOK
<1>2. SilenceBounded
  BY <1>1, PriceFeedsAssumption, OldestAgeNat
  DEF Watched, SessionsWatched, SilenceBounded, Silence, Lesser, Never, Feeds
<1>. QED
  BY <1>2 DEF FeedsInv, Watched, AllPaced

(* Silence is bounded in every session of both feeds, for every choice of    *)
(* the timeouts, and the deviation shown beside a feed that is up was taken  *)
(* against a price younger than the gauges' limit (cex_ws.rs:180,            *)
(* coinbase_ws.rs:206, main.rs:1477).                                       *)
THEOREM FeedsAreWatched == Spec => []FeedsInv
<1>1. Init => Watched /\ AllPaced
  BY FeedsStart, PaceInit
<1>2. Watched /\ AllPaced /\ [Next]_vars => (Watched /\ AllPaced)'
  BY FeedsStep, PaceStep DEF Watched
<1>3. Watched /\ AllPaced => FeedsInv
  BY WatchBounds
<1>. QED
  BY <1>1, <1>2, <1>3, PTL DEF Spec

(* Before every attempt a feed has slept the base doubled once for each of   *)
(* its failures in a row after the first, up to the maximum, and it goes on  *)
(* at once only after a success, for every base and maximum (cex_ws.rs:151,  *)
(* coinbase_ws.rs:116).                                                      *)
THEOREM FeedsArePaced == Spec => AttemptsPaced
<1>1. FeedsInv => [\A f \in Feeds : feed[f] = "top" /\ feed'[f] = "connecting" =>
                      waited[f] = Pause(fails[f])]_vars
  BY DEF FeedsInv, Paced
<1>. QED
  BY <1>1, FeedsAreWatched, PTL DEF AttemptsPaced
=============================================================================
