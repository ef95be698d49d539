----------------------------- MODULE WsSession -----------------------------
(***************************************************************************)
(* The account WebSocket of src/src/data/ws.rs: watch_account, which       *)
(* reconnects with exponential backoff, and run_session, whose select loop *)
(* races shutdown, the pong watchdog, the ping interval and the incoming   *)
(* frames, in that order (`biased`).                                       *)
(*                                                                         *)
(* Time is a step of its own that moves every timer.  It waits for an arm  *)
(* that is due: the loop is polled and its callback only enqueues, so a    *)
(* due arm is taken within the unit of time it fell due.                   *)
(***************************************************************************)
EXTENDS Backoff

CONSTANTS
    PingInterval,       \* PING_INTERVAL
    PongTimeout,        \* PONG_TIMEOUT
    ReconnectBase,      \* RECONNECT_BASE
    ReconnectMax,       \* RECONNECT_MAX
    MinHealthySession,  \* MIN_HEALTHY_SESSION
    MaxStreak,          \* bound of the history variable streak
    NoTimer             \* a timer that is not armed

ASSUME WsAssumption ==
    /\ PingInterval \in Nat \ {0}
    /\ PongTimeout \in Nat \ {0}
    /\ ReconnectBase \in Nat \ {0}
    /\ ReconnectMax \in Nat /\ ReconnectMax >= ReconnectBase
    /\ MinHealthySession \in Nat \ {0}
    /\ MaxStreak \in Nat \ {0}
    /\ NoTimer \notin Int

VARIABLES
    ws,        \* where watch_account stands
    link,      \* the connection: "up", or "dead" when it is silently gone
    age,       \* session_start.elapsed(), up to MinHealthySession
    pingIn,    \* time until ping_interval ticks
    pongIn,    \* time until pong_deadline, or NoTimer
    backoff,   \* the wait after the next failed session
    sleepIn,   \* time left of the backoff sleep
    shutdown,  \* Ctrl+C was received
    awaited,   \* history: time since the oldest ping with no pong after it
    silent,    \* history: time since the connection went silent
    streak     \* history: sessions ended since one was healthy, up to MaxStreak

wsState == <<ws, link, age, pingIn, pongIn, backoff, sleepIn>>
wsHistory == <<awaited, silent, streak>>
wsVars == <<wsState, shutdown, wsHistory>>

Least(a, b) == IF a < b THEN a ELSE b

WsTypeOK ==
    /\ ws \in {"retry", "connecting", "open", "backoff", "stopped"}
    /\ link \in {"up", "dead"}
    /\ age \in 0..MinHealthySession
    /\ pingIn \in 0..PingInterval
    /\ pongIn \in 0..PongTimeout \cup {NoTimer}
    /\ backoff \in ReconnectBase..ReconnectMax
    /\ sleepIn \in 0..ReconnectMax
    /\ shutdown \in BOOLEAN
    /\ awaited \in Nat \cup {NoTimer}
    /\ silent \in Nat
    /\ streak \in 0..MaxStreak

WsInit ==
    /\ ws = "retry"
    /\ link = "up"
    /\ age = 0
    /\ pingIn = PingInterval
    /\ pongIn = NoTimer
    /\ backoff = ReconnectBase
    /\ sleepIn = 0
    /\ shutdown = FALSE
    /\ awaited = NoTimer /\ silent = 0 /\ streak = 0

-----------------------------------------------------------------------------
(* Leaving a session. *)

ClosedConnection ==
    /\ link' = "up" /\ pingIn' = PingInterval /\ pongIn' = NoTimer /\ age' = 0
    /\ awaited' = NoTimer /\ silent' = 0

\* A mutant of CountsAsHealthy: every session that connected resets the backoff.
CountsAsHealthyOnceConnected(connected) == connected

(* The age is measured from before the connection attempt. *)
CountsAsHealthy(connected) == connected /\ age >= MinHealthySession

(* SessionResult::Reconnect: reset the backoff or not, then sleep for it. *)
Reconnect(connected) ==
    /\ backoff' = IF CountsAsHealthy(connected) THEN ReconnectBase ELSE backoff
    /\ sleepIn' = backoff'
    /\ streak' = IF connected /\ age >= MinHealthySession
                  THEN 1 ELSE Least(streak + 1, MaxStreak)
    /\ ws' = "backoff"
    /\ ClosedConnection
    /\ UNCHANGED shutdown

Stopped ==
    /\ ws' = "stopped"
    /\ sleepIn' = 0
    /\ ClosedConnection
    /\ UNCHANGED <<backoff, shutdown, streak>>

-----------------------------------------------------------------------------
(* The top of watch_account's loop looks for a shutdown; the connection      *)
(* attempt itself has no timeout and no shutdown arm.                        *)

TryConnect ==
    /\ ws = "retry"
    /\ ws' = IF shutdown THEN "stopped" ELSE "connecting"
    /\ UNCHANGED <<link, age, pingIn, pongIn, backoff, sleepIn, shutdown, wsHistory>>

ConnectFails == ws = "connecting" /\ Reconnect(FALSE)

(* Connected and subscribed; interval's immediate first tick is consumed. *)
Connected ==
    /\ ws = "connecting"
    /\ ws' = "open"
    /\ UNCHANGED <<link, age, pingIn, pongIn, backoff, sleepIn, shutdown, wsHistory>>

SubscribeFails == ws = "connecting" /\ Reconnect(TRUE)

-----------------------------------------------------------------------------
(* The arms of run_session's select, each behind those before it. *)

ShutdownArm == ws = "open" /\ shutdown /\ Stopped

\* A mutant of PongTimedOut: any deadline, due or not, ends the session.
PongTimedOutEarly ==
    /\ ws = "open" /\ ~shutdown
    /\ pongIn # NoTimer
    /\ Reconnect(TRUE)

PongTimedOut ==
    /\ ws = "open" /\ ~shutdown
    /\ pongIn = 0
    /\ Reconnect(TRUE)

PingArm ==
    /\ ws = "open" /\ ~shutdown /\ pongIn # 0
    /\ pingIn = 0

\* A mutant of SendPing: no deadline is set, so a dead connection goes unnoticed.
SendPingUntimed ==
    /\ PingArm
    /\ pingIn' = PingInterval
    /\ awaited' = IF awaited = NoTimer THEN 0 ELSE awaited
    /\ UNCHANGED <<ws, link, age, pongIn, backoff, sleepIn, shutdown, silent, streak>>

(* A ping goes out; an outstanding deadline is not moved. *)
SendPing ==
    /\ PingArm
    /\ pingIn' = PingInterval
    /\ pongIn' = IF pongIn = NoTimer THEN PongTimeout ELSE pongIn
    /\ awaited' = IF awaited = NoTimer THEN 0 ELSE awaited
    /\ UNCHANGED <<ws, link, age, backoff, sleepIn, shutdown, silent, streak>>

SendPingFails == PingArm /\ Reconnect(TRUE)

(* A frame is read when no arm before it is due. *)
CanRead == ws = "open" /\ ~shutdown /\ pongIn # 0 /\ pingIn # 0

\* A mutant of ReadPong: the pong is skipped like an unknown frame.
ReadPongIgnored ==
    /\ CanRead /\ link = "up"
    /\ awaited # NoTimer
    /\ awaited' = NoTimer
    /\ UNCHANGED <<wsState, shutdown, silent, streak>>

ReadPong ==
    /\ CanRead /\ link = "up"
    /\ awaited # NoTimer
    /\ pongIn' = NoTimer
    /\ awaited' = NoTimer
    /\ UNCHANGED <<ws, link, age, pingIn, backoff, sleepIn, shutdown, silent, streak>>

(* An account notification; every other harmless frame changes nothing. *)
ReadNotification ==
    /\ CanRead /\ link = "up"
    /\ UNCHANGED wsVars

(* Stream closed, read error, Close frame, rejected subscription, or a pong  *)
(* that cannot be sent.  A dead connection may still report an error.        *)
ReadEnds == CanRead /\ Reconnect(TRUE)

-----------------------------------------------------------------------------
(* The backoff sleep, which a shutdown interrupts. *)

BackoffOver ==
    /\ ws = "backoff" /\ sleepIn = 0
    /\ backoff' = Least(backoff * 2, ReconnectMax)
    /\ ws' = "retry"
    /\ UNCHANGED <<link, age, pingIn, pongIn, sleepIn, shutdown, wsHistory>>

BackoffInterrupted == ws = "backoff" /\ shutdown /\ Stopped

-----------------------------------------------------------------------------
(* The world: Ctrl+C, a connection that dies without a word, and time.       *)

CtrlC ==
    /\ ~shutdown
    /\ shutdown' = TRUE
    /\ UNCHANGED <<wsState, wsHistory>>

LinkDies ==
    /\ ws = "open" /\ link = "up"
    /\ link' = "dead"
    /\ UNCHANGED <<ws, age, pingIn, pongIn, backoff, sleepIn, shutdown, wsHistory>>

ArmDue ==
    \/ ws \in {"retry", "stopped"}
    \/ ws = "open" /\ (shutdown \/ pongIn = 0 \/ pingIn = 0)
    \/ ws = "backoff" /\ (shutdown \/ sleepIn = 0)

Earlier(timer) == IF timer = NoTimer THEN NoTimer ELSE timer - 1

WsElapse ==
    /\ ~ArmDue
    /\ age' = IF ws = "backoff" THEN 0 ELSE Least(age + 1, MinHealthySession)
    /\ pingIn' = IF ws = "open" THEN pingIn - 1 ELSE pingIn
    /\ pongIn' = IF ws = "open" THEN Earlier(pongIn) ELSE pongIn
    /\ sleepIn' = IF ws = "backoff" THEN sleepIn - 1 ELSE sleepIn
    /\ awaited' = IF awaited = NoTimer THEN NoTimer ELSE awaited + 1
    /\ silent' = IF link = "dead" THEN silent + 1 ELSE 0
    /\ UNCHANGED <<ws, link, backoff, shutdown, streak>>

-----------------------------------------------------------------------------
(* What happens without fail: connect_async returns, due arms are taken. *)
ConnectReturns == Connected \/ ConnectFails \/ SubscribeFails

TakeArm ==
    \/ TryConnect
    \/ ShutdownArm
    \/ PongTimedOut
    \/ SendPing
    \/ SendPingFails
    \/ BackoffOver
    \/ BackoffInterrupted

WsNext ==
    \/ ConnectReturns
    \/ TakeArm
    \/ ReadPong
    \/ ReadNotification
    \/ ReadEnds
    \/ CtrlC
    \/ LinkDies
    \/ WsElapse

WsSpec == WsInit /\ [][WsNext]_wsVars

-----------------------------------------------------------------------------
(* Properties. *)

(* A connection that went silent is given up within one ping interval and    *)
(* one pong timeout, whatever was outstanding when it died (ws.rs 144-147).  *)
SilenceBounded ==
    ws = "open" /\ link = "dead" => silent <= PingInterval + PongTimeout

(* The watchdog never ends a session whose last ping was answered in time: a *)
(* deadline that runs out means a ping unanswered for all of PongTimeout.    *)
NoFalsePongTimeout ==
    [][PongTimedOut => awaited # NoTimer /\ awaited >= PongTimeout]_wsVars

WaitAfter(n) == CappedWait(ReconnectBase, ReconnectMax, n)

(* The wait after the n-th session in a row that did not last doubles with n *)
(* up to the maximum, so an endpoint that accepts and closes at once is not  *)
(* hammered (ws.rs 16-18, 51-58).  The comments at 79-81 and 98 and the test *)
(* at 377-430 have every connected session reset it: ConnectedResetsBackoff. *)
BackoffGrows ==
    ws = "backoff" /\ streak < MaxStreak => backoff = WaitAfter(streak)

(* "The WebSocket handshake itself succeeded [...]  Backoff should reset to  *)
(* base." (ws.rs 79-81): the wait after a session that was connected is the  *)
(* base wait.  Not so in the code: a connected session that ended young      *)
(* leaves the wait as the failures before it have grown it.                  *)
ConnectedResetsBackoff ==
    [][ws = "open" /\ ws' = "backoff" => sleepIn' = ReconnectBase]_wsVars

(* The inductive invariant behind BackoffGrows: outside of a sleep, backoff  *)
(* already is the wait after the next failure.                              *)
BackoffInv ==
    /\ ws = "backoff" => streak > 0
    /\ streak < MaxStreak =>
          /\ ws = "backoff" => backoff = WaitAfter(streak)
          /\ ws \in {"retry", "connecting", "open"} => backoff = WaitAfter(streak + 1)

(* The inductive invariant behind SilenceBounded and NoFalsePongTimeout: the *)
(* silence so far and the time to the verdict never exceed the bound.        *)
ToVerdict == IF pongIn # NoTimer THEN pongIn ELSE pingIn + PongTimeout

WatchdogInv ==
    /\ ws = "open" => silent + ToVerdict <= PingInterval + PongTimeout
    /\ link = "up" => silent = 0
    /\ pongIn = NoTimer => awaited = NoTimer
    /\ pongIn # NoTimer => awaited # NoTimer /\ awaited + pongIn = PongTimeout
    /\ ws # "open" => pongIn = NoTimer /\ link = "up" /\ pingIn = PingInterval

=============================================================================
