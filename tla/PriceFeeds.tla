---------------------------- MODULE PriceFeeds -----------------------------
(***************************************************************************)
(* The two CEX price feeds, src/src/data/cex_ws.rs (Binance) and           *)
(* src/src/data/coinbase_ws.rs (Coinbase), and the tick's choice between a *)
(* CEX price and the pool's own, with the feed-health gauges it leaves     *)
(* (src/src/main.rs).                                                      *)
(*                                                                         *)
(* Each feed is a task that connects, holds a session and reconnects.  The *)
(* two differ in what ends a session and in what resets the backoff:       *)
(*   - Binance polls the AGE OF THE SHARED PRICE on an interval, and any   *)
(*     successful connection resets the backoff;                           *)
(*   - Coinbase times the wait for the next FRAME of any kind, and only a  *)
(*     session that delivered a price resets the backoff.                  *)
(* The shared price is never cleared.  A price is modelled by its age.     *)
(*                                                                         *)
(* The exchange is the environment.  While a feed's line is good, attempts *)
(* succeed and a live session brings a price in every unit of time; while  *)
(* it is bad anything may happen, and a session may stay connected for     *)
(* ever while it brings no price ("mute") or nothing at all ("dead").      *)
(* Time waits for an arm that is due, as in WsSession.                     *)
(***************************************************************************)
EXTENDS Backoff

CONSTANTS
    Configurations,   \* the sets of feeds the command line may enable
    CheckInterval,    \* LIVENESS_CHECK_INTERVAL
    StaleTimeout,     \* FEED_STALE_TIMEOUT, of both feeds
    FreshLimit,       \* CEX_STALE_SECS of the processor
    GaugeLimit,       \* FEED_STALE_SECS of the health gauges
    RetryBase,        \* CONNECT_RETRY_BASE
    RetryMax,         \* CONNECT_RETRY_MAX
    MaxFails,         \* bound of the history variable fails
    NoNumber          \* a bid or ask that is absent or not numeric, or the NaN
                      \* or infinity that f64::parse accepts

Feeds == {"binance", "coinbase"}

ASSUME PriceFeedsAssumption ==
    /\ Configurations \subseteq SUBSET Feeds
    /\ CheckInterval \in Nat \ {0}
    /\ StaleTimeout \in Nat \ {0}
    /\ FreshLimit \in Nat \ {0}
    /\ GaugeLimit \in Nat \ {0}
    /\ RetryBase \in Nat \ {0}
    /\ RetryMax \in Nat /\ RetryMax >= RetryBase
    /\ MaxFails \in Nat \ {0}
    /\ CappedWait(RetryBase, RetryMax, MaxFails) = RetryMax  \* beyond, no pause differs
    /\ NoNumber \notin Int

Never == -1                                  \* no price was ever accepted
OldestAge == StaleTimeout + CheckInterval + 1 \* ages are counted up to here

VARIABLES
    feed,       \* where each feed's task stands
    backoff,    \* the wait after its next failure
    sleepIn,    \* time left of its backoff sleep
    price,      \* the age of its shared price (CexPriceState), or Never
    timer,      \* Binance: since the last watchdog tick; Coinbase: since the
                \* last frame
    gotPrice,   \* Coinbase: this session delivered a price
    fallback,   \* cex_was_stale: the last tick found the price too old
    gauge,      \* tickliq_feed_up of each feed as last recorded, 0 before that
    deviation,  \* tickliq_price_deviation_bps of the pool against Binance: "unset",
                \* or the Binance price it was taken against was "live" or "old"
    shutdown,   \* Ctrl+C was received
    line,       \* environment: the way to the exchange is "good" or "bad"
    link,       \* environment: the session is "live", "mute" or "dead"
    opened,     \* history: time since the session was opened
    chatter,    \* history: a frame without a price came since the last price
    fails,      \* history: failures since the last success, up to MaxFails
    waited      \* history: time spent asleep since the last session or attempt

feedState == <<feed, backoff, sleepIn, price, timer, gotPrice>>
environment == <<line, link>>
history == <<opened, chatter, fails, waited>>
processor == <<fallback, gauge, deviation>>
vars == <<feedState, processor, shutdown, environment, history>>

Lesser(a, b) == IF a < b THEN a ELSE b

Set(var, f, value) == [var EXCEPT ![f] = value]

TypeOK ==
    /\ feed \in [Feeds -> {"off", "top", "connecting", "session", "backoff", "done"}]
    /\ backoff \in [Feeds -> RetryBase..RetryMax]
    /\ sleepIn \in [Feeds -> 0..RetryMax]
    /\ price \in [Feeds -> Never..OldestAge]
    /\ timer \in [Feeds -> Nat]
    /\ gotPrice \in [Feeds -> BOOLEAN]
    /\ fallback \in BOOLEAN
    /\ gauge \in [Feeds -> 0..1]
    /\ deviation \in {"unset", "live", "old"}
    /\ shutdown \in BOOLEAN
    /\ line \in [Feeds -> {"good", "bad"}]
    /\ link \in [Feeds -> {"live", "mute", "dead"}]
    /\ opened \in [Feeds -> 0..OldestAge]
    /\ chatter \in [Feeds -> BOOLEAN]
    /\ fails \in [Feeds -> 0..MaxFails]
    /\ waited \in [Feeds -> 0..RetryMax]

(* A feed is spawned only when its symbol is given; nothing is received yet. *)
Init ==
    /\ \E enabled \in Configurations :
           feed = [f \in Feeds |-> IF f \in enabled THEN "top" ELSE "off"]
    /\ backoff = [f \in Feeds |-> RetryBase]
    /\ sleepIn = [f \in Feeds |-> 0]
    /\ price = [f \in Feeds |-> Never]
    /\ timer = [f \in Feeds |-> 0]
    /\ gotPrice = [f \in Feeds |-> FALSE]
    /\ fallback = FALSE
    /\ gauge = [f \in Feeds |-> 0]
    /\ deviation = "unset"
    /\ shutdown = FALSE
    /\ line = [f \in Feeds |-> "good"]
    /\ link = [f \in Feeds |-> "live"]
    /\ opened = [f \in Feeds |-> 0]
    /\ chatter = [f \in Feeds |-> FALSE]
    /\ fails = [f \in Feeds |-> 0]
    /\ waited = [f \in Feeds |-> 0]

-----------------------------------------------------------------------------
(* Connecting, and the two ways back to the top of the loop.                *)

(* The shutdown channel is looked at before every attempt. *)
Top(f) ==
    /\ feed[f] = "top"
    /\ feed' = Set(feed, f, IF shutdown THEN "done" ELSE "connecting")
    /\ UNCHANGED <<backoff, sleepIn, price, timer, gotPrice, processor, shutdown,
                   environment, history>>

(* A session begins: subscribed, nothing received. *)
Opened(f) ==
    /\ feed[f] = "connecting"
    /\ feed' = Set(feed, f, "session")
    /\ timer' = Set(timer, f, 0)
    /\ gotPrice' = Set(gotPrice, f, FALSE)
    /\ \E l \in IF line[f] = "good" THEN {"live"} ELSE {"live", "mute", "dead"} :
           link' = Set(link, f, l)
    /\ opened' = Set(opened, f, 0)
    /\ chatter' = Set(chatter, f, FALSE)
    /\ waited' = Set(waited, f, 0)
    /\ UNCHANGED <<sleepIn, price, processor, shutdown, line>>

(* Binance resets its backoff as soon as it is subscribed. *)
BinanceConnected ==
    /\ Opened("binance")
    /\ backoff' = Set(backoff, "binance", RetryBase)
    /\ fails' = Set(fails, "binance", 0)

(* Coinbase waits for a price before it does. *)
CoinbaseConnected ==
    /\ Opened("coinbase")
    /\ UNCHANGED <<backoff, fails>>

(* The wait is not yet doubled: that happens after the sleep. *)
FailAndSleep(f) ==
    /\ feed' = Set(feed, f, "backoff")
    /\ sleepIn' = Set(sleepIn, f, backoff[f])
    /\ fails' = Set(fails, f, Lesser(fails[f] + 1, MaxFails))
    /\ waited' = Set(waited, f, 0)
    /\ UNCHANGED <<backoff, price, timer, gotPrice, processor, shutdown, environment,
                   opened, chatter>>

(* A config, connect, parameter or subscribe error: one arm for all. *)
BinanceConnectFails ==
    /\ feed["binance"] = "connecting" /\ line["binance"] = "bad"
    /\ FailAndSleep("binance")

(* A failed handshake, or a subscribe frame that could not be sent. *)
CoinbaseConnectFails ==
    /\ feed["coinbase"] = "connecting" /\ line["coinbase"] = "bad"
    /\ FailAndSleep("coinbase")

\* A mutant of NextBackoff: the cap is forgotten.
NextBackoffUncapped(f) == 2 * backoff[f]

NextBackoff(f) == Lesser(2 * backoff[f], RetryMax)

SleepOver(f) ==
    /\ feed[f] = "backoff" /\ sleepIn[f] = 0
    /\ feed' = Set(feed, f, "top")
    /\ backoff' = Set(backoff, f, NextBackoff(f))
    /\ UNCHANGED <<sleepIn, price, timer, gotPrice, processor, shutdown, environment,
                   history>>

\* A mutant of StopNow: only the sleep listens to the shutdown.
StopNowAsleep(f) ==
    /\ feed[f] = "backoff" /\ shutdown
    /\ feed' = Set(feed, f, "done")
    /\ UNCHANGED <<backoff, sleepIn, price, timer, gotPrice, processor, shutdown,
                   environment, history>>

(* The shutdown arm of the sleep, and that of a session. *)
StopNow(f) ==
    /\ feed[f] \in {"backoff", "session"} /\ shutdown
    /\ feed' = Set(feed, f, "done")
    /\ UNCHANGED <<backoff, sleepIn, price, timer, gotPrice, processor, shutdown,
                   environment, history>>

ReconnectAtOnce(f) ==
    /\ feed' = Set(feed, f, "top")
    /\ waited' = Set(waited, f, 0)
    /\ UNCHANGED <<sleepIn, price, timer, gotPrice, processor, shutdown, environment,
                   opened, chatter, fails>>

-----------------------------------------------------------------------------
(* Frames.                                                                  *)

(* Messages as the two parsers see them.                                     *)
ValidateQuote(bid, ask) ==
    /\ bid # NoNumber /\ ask # NoNumber
    /\ bid > 0 /\ ask > 0 /\ bid <= ask

(* A ticker of the subscribed symbol with a sane quote. *)
Accepted(frame) ==
    /\ frame.kind = "ticker"
    /\ frame.ours
    /\ ValidateQuote(frame.bid, frame.ask)

GoodFrame == [kind |-> "ticker", ours |-> TRUE, bid |-> 1, ask |-> 2]

(* A good message, and one for each way not to be one. *)
Frames ==
    {GoodFrame,
     [GoodFrame EXCEPT !.kind = "control"],  \* a confirmation, a heartbeat, a ping
     [GoodFrame EXCEPT !.ours = FALSE],
     [GoodFrame EXCEPT !.bid = NoNumber], [GoodFrame EXCEPT !.ask = NoNumber],
     [GoodFrame EXCEPT !.bid = 0], [GoodFrame EXCEPT !.bid = 3]}

(* on_message and run_session's text arm: a message that is not accepted     *)
(* leaves the shared price alone.  Every frame ends Coinbase's wait for the  *)
(* next one; the Binance watchdog runs on its own interval.                  *)
Frame(f, frame) ==
    /\ feed[f] = "session"
    /\ link[f] = "live" \/ (link[f] = "mute" /\ ~Accepted(frame))
    /\ price' = IF Accepted(frame) THEN Set(price, f, 0) ELSE price
    /\ gotPrice' = IF f = "coinbase" /\ Accepted(frame) THEN Set(gotPrice, f, TRUE)
                                                        ELSE gotPrice
    /\ timer' = IF f = "coinbase" THEN Set(timer, f, 0) ELSE timer
    /\ chatter' = Set(chatter, f, ~Accepted(frame))
    /\ fails' = IF Accepted(frame) THEN Set(fails, f, 0) ELSE fails
    /\ UNCHANGED <<feed, backoff, sleepIn, processor, shutdown, environment, opened,
                   waited>>

-----------------------------------------------------------------------------
(* The end of a session.                                                    *)

\* A mutant of PriceStale: a feed that never had a price is never stale.
PriceStaleOnceSeen == price["binance"] > StaleTimeout

(* monitor_session: the age of the shared price, which may be older than the *)
(* session; only without any price the session's own age.                    *)
PriceStale ==
    IF price["binance"] = Never THEN opened["binance"] > StaleTimeout
                                ELSE price["binance"] > StaleTimeout

WatchdogTick ==
    /\ feed["binance"] = "session" /\ timer["binance"] >= CheckInterval
    /\ ~PriceStale
    /\ timer' = Set(timer, "binance", 0)
    /\ UNCHANGED <<feed, backoff, sleepIn, price, gotPrice, processor, shutdown,
                   environment, history>>

(* Stale is not a failure: the next attempt follows at once. *)
WatchdogStale ==
    /\ feed["binance"] = "session" /\ timer["binance"] >= CheckInterval
    /\ PriceStale
    /\ ReconnectAtOnce("binance")
    /\ UNCHANGED backoff

(* A timeout, a close, a stream error or a pong that could not be sent. *)
CoinbaseOver ==
    /\ feed["coinbase"] = "session"
    /\ timer["coinbase"] >= StaleTimeout \/ line["coinbase"] = "bad"

\* A mutant of Healthy: a session counts as healthy once it is connected.
HealthyOnceConnected == TRUE

Healthy == gotPrice["coinbase"]

CoinbaseDrops ==
    /\ CoinbaseOver
    /\ Healthy
    /\ ReconnectAtOnce("coinbase")
    /\ backoff' = Set(backoff, "coinbase", RetryBase)

CoinbaseFailsUnpriced ==
    /\ CoinbaseOver
    /\ ~Healthy
    /\ FailAndSleep("coinbase")

-----------------------------------------------------------------------------
(* The processor, the environment and time.                                 *)

CexPriceFresh == price["binance"] # Never /\ price["binance"] < FreshLimit

\* A mutant of StaleFlag: once raised, the flag stays.
StaleFlagKept == fallback \/ (price["binance"] # Never /\ ~CexPriceFresh)

(* A feed without any price never touches the flag. *)
StaleFlag == IF price["binance"] = Never THEN fallback ELSE ~CexPriceFresh

FeedUp(f) == price[f] # Never /\ price[f] < GaugeLimit

record_feed(f) == IF FeedUp(f) THEN 1 ELSE 0

(* Always for Binance, for Coinbase when it is enabled. *)
GaugesNow ==
    [f \in Feeds |-> IF f = "coinbase" /\ feed[f] = "off" THEN gauge[f] ELSE record_feed(f)]

(* Against the last Binance price, of whatever age, which is positive. *)
deviation_bps == IF FeedUp("binance") THEN "live" ELSE "old"

(* Without a Binance price the gauge is left alone. *)
DeviationNow == IF price["binance"] = Never THEN deviation ELSE deviation_bps

(* The price of a tick: the CEX price while it is fresh, else the pool's.    *)
(* The gauges come after the risk gate and the pause gate, so a tick that    *)
(* ends at one of them leaves the gauges as they are.                        *)
TickPrice(passes) ==
    /\ fallback' = StaleFlag
    /\ gauge' = IF passes THEN GaugesNow ELSE gauge
    /\ deviation' = IF passes THEN DeviationNow ELSE deviation
    /\ UNCHANGED <<feedState, shutdown, environment, history>>

CtrlC ==
    /\ ~shutdown /\ shutdown' = TRUE
    /\ UNCHANGED <<feedState, processor, environment, history>>

LineChanges(f) ==
    /\ feed[f] # "off"
    /\ line' = Set(line, f, IF line[f] = "good" THEN "bad" ELSE "good")
    /\ UNCHANGED <<feedState, processor, shutdown, link, history>>

(* A session that lost its way does not get it back. *)
LinkDegrades(f) ==
    /\ feed[f] = "session" /\ line[f] = "bad"
    /\ \/ link[f] = "live" /\ link' = Set(link, f, "mute")
       \/ link[f] # "dead" /\ link' = Set(link, f, "dead")
    /\ UNCHANGED <<feedState, processor, shutdown, line, history>>

(* A good line brings a live session a price in every unit of time. *)
Punctual(f) ==
    /\ feed[f] = "backoff" => sleepIn[f] > 0
    /\ feed[f] = "session" =>
        /\ timer[f] < IF f = "binance" THEN CheckInterval ELSE StaleTimeout
        /\ line[f] = "good" /\ link[f] = "live" => price[f] = 0

Later(age) == IF age = Never THEN Never ELSE Lesser(age + 1, OldestAge)

TimePasses ==
    /\ \A f \in Feeds : Punctual(f)
    /\ price' = [f \in Feeds |-> Later(price[f])]
    /\ timer' = [f \in Feeds |-> IF feed[f] = "session" THEN timer[f] + 1 ELSE timer[f]]
    /\ opened' = [f \in Feeds |-> IF feed[f] = "session"
                                  THEN Lesser(opened[f] + 1, OldestAge) ELSE opened[f]]
    /\ sleepIn' = [f \in Feeds |-> IF feed[f] = "backoff" THEN sleepIn[f] - 1
                                                          ELSE sleepIn[f]]
    /\ waited' = [f \in Feeds |-> IF feed[f] = "backoff"
                                  THEN Lesser(waited[f] + 1, RetryMax) ELSE waited[f]]
    /\ UNCHANGED <<feed, backoff, gotPrice, processor, shutdown, environment, chatter, fails>>

FeedStep(f) ==
    \/ Top(f) \/ SleepOver(f) \/ StopNow(f)
    \/ \E frame \in Frames : Frame(f, frame)

CoinbaseTimesOut ==
    timer["coinbase"] >= StaleTimeout /\ (CoinbaseDrops \/ CoinbaseFailsUnpriced)

Connecting ==
    \/ BinanceConnected \/ BinanceConnectFails
    \/ CoinbaseConnected \/ CoinbaseConnectFails

SessionEnd == WatchdogTick \/ WatchdogStale \/ CoinbaseDrops \/ CoinbaseFailsUnpriced

Next ==
    \/ \E f \in Feeds : FeedStep(f) \/ LineChanges(f) \/ LinkDegrades(f)
    \/ Connecting \/ SessionEnd
    \/ \E passes \in BOOLEAN : TickPrice(passes)
    \/ CtrlC \/ TimePasses

(* The tasks run, an attempt returns, the pool keeps sending updates, time   *)
(* passes, and a live session on a good line brings prices.  That ticks get  *)
(* past the gates again and again is assumed for the gauges' sake only: a    *)
(* halted process never sets them again.                                     *)
Fairness ==
    /\ \A f \in Feeds :
        /\ WF_vars(Top(f)) /\ WF_vars(SleepOver(f)) /\ WF_vars(StopNow(f))
        /\ WF_vars(Frame(f, GoodFrame))
    /\ WF_vars(BinanceConnected) /\ WF_vars(CoinbaseConnected)
    /\ WF_vars(WatchdogTick) /\ WF_vars(WatchdogStale) /\ WF_vars(CoinbaseTimesOut)
    /\ WF_vars(TickPrice(TRUE)) /\ WF_vars(TimePasses)

Spec == Init /\ [][Next]_vars /\ Fairness

-----------------------------------------------------------------------------
(* Properties.                                                              *)

(* The time a session has gone without a price. *)
Silence(f) == IF price[f] = Never THEN opened[f] ELSE Lesser(price[f], opened[f])

(* No session outlives its usefulness unseen (cex_ws.rs:180,                 *)
(* coinbase_ws.rs:206): Binance is given up within FEED_STALE_TIMEOUT plus   *)
(* one watchdog interval without a price, and a Coinbase session that is     *)
(* older than FEED_STALE_TIMEOUT without a price is one whose server keeps   *)
(* sending other frames.                                                     *)
SilenceBounded ==
    /\ feed["binance"] = "session" => Silence("binance") <= StaleTimeout + CheckInterval
    /\ feed["coinbase"] = "session" /\ ~chatter["coinbase"] =>
           Silence("coinbase") <= StaleTimeout

(* Why: a Binance session was either opened since the last watchdog tick or  *)
(* found fresh by it, and while Coinbase says nothing but prices, the last   *)
(* frame is the last price.                                                  *)
SessionsWatched ==
    /\ feed["binance"] = "session" =>
        /\ timer["binance"] <= CheckInterval
        /\ \/ opened["binance"] = timer["binance"]
           \/ price["binance"] = Never /\ opened["binance"] <= StaleTimeout + timer["binance"]
           \/ price["binance"] # Never /\ price["binance"] <= StaleTimeout + timer["binance"]
    /\ feed["coinbase"] = "session" =>
        /\ timer["coinbase"] <= StaleTimeout
        /\ ~chatter["coinbase"] => Silence("coinbase") <= timer["coinbase"]

(* The deviation of the pool from Binance can be read off the dashboard      *)
(* whenever the Binance feed shows as up there: it was then taken against a  *)
(* price younger than FEED_STALE_SECS, also while ticks end at a gate and no *)
(* gauge moves (main.rs:1477).                                               *)
DeviationTrusted == gauge["binance"] = 1 => deviation = "live"

(* The pause that n failures in a row are due. *)
Pause(n) == IF n = 0 THEN 0 ELSE CappedWait(RetryBase, RetryMax, n)

(* How the backoff keeps count of the failures: outside of a sleep it is the *)
(* pause after the next one, in a sleep what was slept and what is left; and *)
(* a session that resets it has no failure behind it.                        *)
Paced(f) ==
    /\ feed[f] \in {"top", "connecting"} \/ (feed[f] = "session" /\ ~gotPrice[f]) =>
           backoff[f] = Pause(fails[f] + 1)
    /\ feed[f] = "session" /\ (f = "binance" \/ gotPrice[f]) => fails[f] = 0
    /\ feed[f] = "backoff" =>
           fails[f] > 0 /\ backoff[f] = Pause(fails[f]) /\ waited[f] + sleepIn[f] = backoff[f]
    /\ feed[f] = "top" => waited[f] = Pause(fails[f])
    /\ f = "binance" => ~gotPrice[f]

(* The inductive invariant: what keeps the silence of a session bounded, the *)
(* deviation trustworthy and the attempts paced.                             *)
FeedsInv ==
    /\ TypeOK /\ SessionsWatched /\ SilenceBounded /\ DeviationTrusted
    /\ \A f \in Feeds : Paced(f)

(* Attempts are paced (cex_ws.rs:151, coinbase_ws.rs:116): before each one a *)
(* feed has slept exactly base * 2^(n-1), capped, for its n failures since   *)
(* the last success - a connection for Binance, a price for Coinbase - and   *)
(* it goes on at once only after a success.  The comment at coinbase_ws.rs   *)
(* 79-83 has a connection reset the backoff of Coinbase and a silence leave  *)
(* it alone: SilenceKeepsBackoff.                                            *)
AttemptsPaced ==
    [][\A f \in Feeds : feed[f] = "top" /\ feed'[f] = "connecting" =>
           waited[f] = Pause(fails[f])]_vars

(* Nothing failed since the last success but the last session of Coinbase,   *)
(* which ended in silence before its first price.                            *)
OnlySilenceFailed ==
    /\ fails["coinbase"] = 1
    /\ timer["coinbase"] >= StaleTimeout /\ ~gotPrice["coinbase"]

(* "silence triggers a warn + reconnect without touching the backoff         *)
(* counter" (coinbase_ws.rs 82-83).  Not so in the code: a silence before    *)
(* the session's first price counts as a failure, with a sleep after which   *)
(* the counter doubles.                                                      *)
SilenceKeepsBackoff ==
    [][feed["coinbase"] = "backoff" /\ feed'["coinbase"] = "top" /\ OnlySilenceFailed
           => UNCHANGED backoff]_vars

GoodForEver(f) == <>[](line[f] = "good" /\ feed[f] # "off" /\ ~shutdown)

(* What a feed that is up again is worth (cex_ws.rs:119, main.rs:1133,       *)
(* main.rs:1477): once the line to Binance stays good, every tick is in the  *)
(* end valued with the CEX price, whatever the outage left behind; the same  *)
(* holds of Coinbase unless a session is stuck that talks but brings no      *)
(* price; and the health gauges show it.                                     *)
FeedsRecover ==
    /\ GoodForEver("binance") => <>[](CexPriceFresh /\ ~fallback)
    /\ GoodForEver("coinbase")
           => <>[](price["coinbase"] \in 0..1 \/ link["coinbase"] = "mute")
    /\ \A f \in Feeds : GoodForEver(f) => <>[](gauge[f] = 1 \/ link[f] = "mute")

(* Ctrl+C ends both tasks, which main awaits without a limit                 *)
(* (main.rs:1708), wherever they stand.                                      *)
ShutdownEndsFeeds == shutdown ~> \A f \in Feeds : feed[f] \in {"off", "done"}
=============================================================================
