------------------------- MODULE RiskSessionProofs -------------------------
(***************************************************************************)
(* The step-by-step verdicts of evaluate agree with the definitions over   *)
(* the session's history, for sessions of any length, any snapshots, any   *)
(* answers of the Drift RPC and any limits; and /status is in time.        *)
(***************************************************************************)
EXTENDS StatusView, RiskMonitorProofs, SharedLemmas

(* What a tick does to a monitor that is not halted. *)
LEMMA EvaluateVerdict ==
    ASSUME NEW st \in RiskState, NEW snap \in PnlSnapshot, NEW ratio, ~st.halt_flag,
           NEW peak, peak = HighWater(st, snap),
           NEW result, result = Evaluate(st, snap, ratio)
    PROVE  /\ result.state.peak_pnl = peak
           /\ result.state.halt_flag <=> DrawdownBreached(peak, snap.net_pnl)
           /\ DrawdownBreached(peak, snap.net_pnl) =>
                  result.state.pause_flag = st.pause_flag
           /\ ~DrawdownBreached(peak, snap.net_pnl) =>
                  /\ result.state.pause_flag <=>
                         IF MaxIlPct = NoLimit THEN st.pause_flag ELSE IlBreached(snap)
                  /\ result.action = "ResumeRebalancing" <=>
                         MaxIlPct # NoLimit /\ st.pause_flag /\ ~IlBreached(snap)
<1> DEFINE tracked == [st EXCEPT
              !.peak_pnl = peak,
              !.current_drawdown_pct =
                  IF DrawdownMeasured(peak) THEN DrawdownPct(peak, snap.net_pnl) ELSE @]
<1>1. /\ tracked \in RiskState
      /\ tracked.peak_pnl = peak
      /\ tracked.halt_flag = FALSE
      /\ tracked.pause_flag = st.pause_flag
      /\ st.pause_flag \in BOOLEAN
  <2>1. peak \in Nat /\ snap.net_pnl <= peak /\ snap.net_pnl \in Int
    BY HighWaterRises DEF PnlSnapshot
  <2>2. DrawdownMeasured(peak) => DrawdownPct(peak, snap.net_pnl) \in Nat
    BY <2>1, DrawdownPctNat
  <2>. QED
    BY <2>1, <2>2 DEF RiskState
<1>2. CASE DrawdownBreached(peak, snap.net_pnl)
  <2>1. result = [state |-> [tracked EXCEPT !.halt_flag = TRUE], action |-> "HaltAll"]
    BY <1>2 DEF Evaluate, EvaluateRunning
  <2> HIDE DEF tracked
  <2>. QED
    BY <1>1, <1>2, <2>1 DEF RiskState
<1>3. CASE ~DrawdownBreached(peak, snap.net_pnl)
  <2>1. result = EvaluateIlAndMargin(tracked, snap, ratio)
    BY <1>3 DEF Evaluate, EvaluateRunning
  <2>2. IlBreached(snap) \in BOOLEAN /\ (IlBreached(snap) => MaxIlPct # NoLimit)
    BY DEF IlBreached
  <2> HIDE DEF tracked
  <2>3. CASE IlBreached(snap)
    <3>1. result = [state |-> [tracked EXCEPT !.pause_flag = TRUE],
                    action |-> "PauseRebalancing"]
      BY <2>1, <2>3 DEF EvaluateIlAndMargin
    <3>2. /\ result.state.pause_flag = TRUE /\ result.state.halt_flag = FALSE
          /\ result.state.peak_pnl = peak
      BY <1>1, <3>1 DEF RiskState
    <3>. QED
      BY <1>1, <1>3, <2>2, <2>3, <3>1, <3>2
  <2>4. CASE ~IlBreached(snap) /\ MaxIlPct # NoLimit /\ st.pause_flag
    <3>1. result = [state |-> [tracked EXCEPT !.pause_flag = FALSE],
                    action |-> "ResumeRebalancing"]
      BY <1>1, <2>1, <2>4 DEF EvaluateIlAndMargin
    <3>2. /\ result.state.pause_flag = FALSE /\ result.state.halt_flag = FALSE
          /\ result.state.peak_pnl = peak
      BY <1>1, <3>1 DEF RiskState
    <3>3. result.action = "ResumeRebalancing"
      BY <3>1
    <3>. QED
      BY <1>3, <2>4, <3>2, <3>3
  <2>5. CASE ~IlBreached(snap) /\ ~(MaxIlPct # NoLimit /\ st.pause_flag)
    <3>1. result.state = tracked /\ result.action \in {"CloseDriftHedge", "Continue"}
      BY <1>1, <2>1, <2>5 DEF EvaluateIlAndMargin
    <3>. QED
      BY <1>1, <1>3, <2>2, <2>5, <3>1
  <2>. QED
    BY <2>3, <2>4, <2>5
<1>. QED
  BY <1>2, <1>3

-----------------------------------------------------------------------------
(* A session and one tick more.                                             *)

(* The P&L of the first n ticks, and 0. *)
Pnls(n) == {0} \cup {history[i].snap.net_pnl : i \in 1..n}

(* The ticks that found the monitor running; there is a last one, if any. *)
LiveTicks(n) == {i \in 1..n : ~HaltedAt(i)}

HasLast(n) == LiveTicks(n) = {} \/ \E m \in LiveTicks(n) : \A i \in LiveTicks(n) : m >= i

(* The invariant: every verdict so far agrees with the history, and while    *)
(* the monitor runs its peak is the largest P&L of the session.              *)
HistoryAgrees ==
    /\ TypeOK
    /\ HaltFollowsHistory
    /\ ~HaltedAt(Len(history)) =>
           /\ state.peak_pnl \in Pnls(Len(history))
           /\ \A x \in Pnls(Len(history)) : state.peak_pnl >= x
    /\ PauseFollowsIl
    /\ ResumeEndsAPause
    /\ state.operator_pause = loaded.operator_pause
    /\ \A k \in 0..Len(history) : HasLast(k)

(* While the monitor runs, its peak is the best P&L of the session. *)
LEMMA PeakIsMax ==
    ASSUME HistoryAgrees
    PROVE  PeakIsSessionBest
<1> SUFFICES ASSUME ~HaltedAt(Len(history))
             PROVE  state.peak_pnl = BestPnl(Len(history))
  BY DEF PeakIsSessionBest
<1>1. Pnls(Len(history)) \in SUBSET Int
  <2>1. \A i \in 1..Len(history) : history[i] \in Tick
    BY DEF HistoryAgrees, TypeOK
  <2>2. \A i \in 1..Len(history) : history[i].snap.net_pnl \in Int
    BY <2>1 DEF Tick, PnlSnapshot
  <2>. QED
    BY <2>2 DEF Pnls
<1>2. Max(Pnls(Len(history))) = state.peak_pnl
  BY <1>1, MaxIs DEF HistoryAgrees
<1>. QED
  BY <1>2 DEF BestPnl, Pnls

(* The loaded state is typed, and its peak is that of a new session. *)
LEMMA LoadedState ==
    ASSUME Init
    PROVE  loaded \in RiskState /\ loaded.peak_pnl = 0 /\ TypeOK
<1>0. PICK pause \in BOOLEAN, halt \in BOOLEAN, op \in BOOLEAN, peak \in {0, MinPeakUsd} :
        loaded = ResetSession(LoadOrInit(
              [DefaultState EXCEPT !.peak_pnl = peak, !.pause_flag = pause,
                                   !.halt_flag = halt, !.operator_pause = op]))
  BY DEF Init
<1> DEFINE row == [DefaultState EXCEPT !.peak_pnl = peak, !.pause_flag = pause,
                                       !.halt_flag = halt, !.operator_pause = op]
<1>1. row \in RiskState
  <2>1. peak \in Nat
    BY <1>0, RiskLimitsAssumption
  <2>2. DefaultState \in RiskState
    BY DEF DefaultState, RiskState
  <2>. QED
    BY <1>0, <2>1, <2>2 DEF RiskState
<1>2. loaded = ResetSession(row)
  BY <1>0, <1>1, NoRowAssumption DEF LoadOrInit
<1> HIDE DEF row
<1>3. loaded \in RiskState /\ loaded.peak_pnl = 0
  BY <1>1, <1>2 DEF ResetSession, RiskState
<1>. QED
  BY <1>3 DEF Init, TypeOK

(* A new session agrees with its empty history. *)
LEMMA InitAgrees ==
    ASSUME Init
    PROVE  HistoryAgrees
<1>1. loaded \in RiskState /\ loaded.peak_pnl = 0 /\ TypeOK
  BY LoadedState
<1>2. state = loaded /\ history = << >> /\ Len(history) = 0 /\ 1..0 = {}
  BY DEF Init
<1>3. HaltedAt(0) <=> loaded.halt_flag
  BY <1>2 DEF HaltedAt
<1>4. IlPausedAfter(0) = loaded.pause_flag
  BY <1>2 DEF IlPausedAfter
<1>5. Pnls(0) = {0}
  BY <1>2 DEF Pnls
<1>6. \A k \in 0..0 : HasLast(k)
  BY <1>2 DEF HasLast, LiveTicks
<1>. QED
  BY <1>1, <1>2, <1>3, <1>4, <1>5, <1>6
  DEF HistoryAgrees, HaltFollowsHistory, PauseFollowsIl, ResumeEndsAPause, RiskState

(* A tick of the session: what it appends, and that it leaves the past as it *)
(* was.                                                                      *)
LEMMA TickAppends ==
    ASSUME HistoryAgrees, NEW snap \in Snapshots, NEW answers \in Answers \cup {NoDriftUser},
           ReceiveTick(snap, answers)
    PROVE  LET n == Len(history)
           IN  /\ n \in Nat /\ Len(history') = n + 1
               /\ history'[n + 1].snap = snap
               /\ \A i \in 1..n : history'[i] = history[i]
               /\ snap \in PnlSnapshot
               /\ TypeOK'
<1>1. history \in Seq(Tick) /\ Len(history) \in Nat /\ state \in RiskState
  BY DEF HistoryAgrees, TypeOK
<1>2. snap \in PnlSnapshot
  BY RiskSessionAssumption
<1> DEFINE result == Evaluate(state, snap, DriftMargin(answers))
<1>3. result.state \in RiskState /\ result.action \in RiskAction
  BY <1>1, <1>2, EvaluateType
<1>4. /\ state' = result.state
      /\ history' = Append(history, [snap |-> snap, action |-> result.action])
      /\ fetched' = answers /\ loaded' = loaded /\ driftUser' = driftUser
  BY DEF ReceiveTick
<1> HIDE DEF result
<1>5. [snap |-> snap, action |-> result.action] \in Tick
  BY <1>2, <1>3 DEF Tick
<1>6. history' \in Seq(Tick)
  BY <1>1, <1>4, <1>5
<1>7. TypeOK'
  BY <1>3, <1>4, <1>6 DEF HistoryAgrees, TypeOK
<1>. QED
  BY <1>1, <1>2, <1>4, <1>7

(* What the definitions say of the past, a new tick does not change. *)
LEMMA PastStands ==
    ASSUME NEW n \in Nat, \A i \in 1..n : history'[i] = history[i], loaded' = loaded,
           \A k \in 0..n : HasLast(k)
    PROVE  \A k \in 0..n : /\ Pnls(k)' = Pnls(k)
                           /\ BestPnl(k)' = BestPnl(k)
                           /\ k > 0 => (LosesTooMuch(k)' <=> LosesTooMuch(k))
                           /\ HaltedAt(k)' <=> HaltedAt(k)
                           /\ IlPausedAfter(k)' <=> IlPausedAfter(k)
                           /\ LiveTicks(k)' = LiveTicks(k)
<1>1. \A k \in 0..n : Pnls(k)' = Pnls(k)
  BY DEF Pnls
<1>2. \A k \in 0..n : BestPnl(k)' = BestPnl(k)
  BY <1>1 DEF Pnls, BestPnl
<1>3. \A k \in 1..n : LosesTooMuch(k)' <=> LosesTooMuch(k)
  BY <1>2 DEF LosesTooMuch
<1>4. \A k \in 0..n : HaltedAt(k)' <=> HaltedAt(k)
  BY <1>3 DEF HaltedAt
<1>5. ASSUME NEW k \in 0..n
      PROVE  IlPausedAfter(k)' <=> IlPausedAfter(k)
  <2>1. LiveTicks(k)' = LiveTicks(k)
    BY <1>4 DEF LiveTicks
  <2>2. CASE LiveTicks(k) = {}
    BY <2>1, <2>2 DEF IlPausedAfter, LiveTicks
  <2>3. CASE LiveTicks(k) # {}
    <3>1. PICK m \in LiveTicks(k) : \A i \in LiveTicks(k) : m >= i
      BY <2>3 DEF HasLast
    <3>2. Max(LiveTicks(k)) = m /\ m \in 1..k
      BY <3>1, MaxIs DEF LiveTicks
    <3>3. history'[m] = history[m]
      BY <3>2
    <3>4. IlBreached(history'[m].snap) <=> IlBreached(history[m].snap)
      BY <3>3
    <3>. QED
      BY <2>1, <2>3, <3>2, <3>4 DEF IlPausedAfter, LiveTicks
  <2>. QED
    BY <2>2, <2>3
<1>6. \A k \in 0..n : LiveTicks(k)' = LiveTicks(k)
  BY <1>4 DEF LiveTicks
<1>. QED
  BY <1>1, <1>2, <1>3, <1>4, <1>5, <1>6

(* How the definitions extend to the new tick. *)
LEMMA NewTick ==
    ASSUME HistoryAgrees, NEW snap \in Snapshots, NEW answers \in Answers \cup {NoDriftUser},
           ReceiveTick(snap, answers), NEW n, n = Len(history)
    PROVE  /\ HaltedAt(n + 1)' <=> HaltedAt(n) \/ LosesTooMuch(n + 1)'
           /\ HasLast(n + 1)'
           /\ HaltedAt(n + 1)' => (IlPausedAfter(n + 1)' <=> IlPausedAfter(n))
           /\ ~HaltedAt(n + 1)' =>
                  (IlPausedAfter(n + 1)' <=>
                      IF MaxIlPct = NoLimit THEN loaded.pause_flag ELSE IlBreached(snap))
           /\ Pnls(n + 1)' = Pnls(n) \cup {snap.net_pnl}
<1>1. /\ n \in Nat /\ history'[n + 1].snap = snap
      /\ \A i \in 1..n : history'[i] = history[i]
  BY TickAppends
<1>2. loaded' = loaded /\ \A k \in 0..n : HasLast(k)
  BY DEF ReceiveTick, HistoryAgrees
<1>3. \A k \in 0..n : /\ k > 0 => (LosesTooMuch(k)' <=> LosesTooMuch(k))
                      /\ HaltedAt(k)' <=> HaltedAt(k)
                      /\ IlPausedAfter(k)' <=> IlPausedAfter(k)
                      /\ LiveTicks(k)' = LiveTicks(k)
                      /\ Pnls(k)' = Pnls(k)
  BY <1>1, <1>2, PastStands
<1>4. 1..(n + 1) = 1..n \cup {n + 1} /\ n + 1 \notin 1..n
  BY <1>1
<1>5. HaltedAt(n + 1)' <=> HaltedAt(n) \/ LosesTooMuch(n + 1)'
  BY <1>1, <1>2, <1>3, <1>4 DEF HaltedAt
<1>6. Pnls(n + 1)' = Pnls(n) \cup {snap.net_pnl}
  BY <1>1, <1>4 DEF Pnls
<1>7. CASE HaltedAt(n + 1)'
  <2>1. LiveTicks(n + 1)' = LiveTicks(n)
    BY <1>1, <1>3, <1>4, <1>7 DEF LiveTicks
  <2>2. HasLast(n + 1)'
    BY <1>1, <1>2, <2>1 DEF HasLast
  <2>3. IlPausedAfter(n + 1)' <=> IlPausedAfter(n)'
    <3>1. LiveTicks(n + 1)' = LiveTicks(n)'
      BY <1>1, <1>3, <2>1
    <3>. QED
      BY <3>1 DEF IlPausedAfter, LiveTicks
  <2>. QED
    BY <1>1, <1>3, <1>5, <1>6, <1>7, <2>2, <2>3
<1>8. CASE ~HaltedAt(n + 1)'
  <2>1. n + 1 \in LiveTicks(n + 1)' /\ \A i \in LiveTicks(n + 1)' : n + 1 >= i
    BY <1>1, <1>4, <1>8 DEF LiveTicks
  <2>2. HasLast(n + 1)'
    BY <2>1 DEF HasLast
  <2>3. Max(LiveTicks(n + 1)') = n + 1
    <3>1. LiveTicks(n + 1)' \in SUBSET Int
      BY <1>1 DEF LiveTicks
    <3>. QED
      BY <2>1, <3>1, MaxIs
  <2>4. IlPausedAfter(n + 1)' <=>
            IF MaxIlPct = NoLimit THEN loaded.pause_flag ELSE IlBreached(snap)
    BY <1>1, <1>2, <2>1, <2>3 DEF IlPausedAfter, LiveTicks
  <2>. QED
    BY <1>5, <1>6, <1>8, <2>2, <2>4
<1>. QED
  BY <1>7, <1>8

(* A tick keeps the agreement. *)
LEMMA TickAgrees ==
    ASSUME HistoryAgrees, NEW snap \in Snapshots, NEW answers \in Answers \cup {NoDriftUser},
           ReceiveTick(snap, answers)
    PROVE  HistoryAgrees'
<1>0. PICK n \in Nat : n = Len(history)
  BY DEF HistoryAgrees, TypeOK
<1> DEFINE peak == HighWater(state, snap)
           result == Evaluate(state, snap, DriftMargin(answers))
<1>1. /\ n \in Nat /\ Len(history') = n + 1
      /\ history'[n + 1].snap = snap
      /\ \A i \in 1..n : history'[i] = history[i]
      /\ snap \in PnlSnapshot
      /\ TypeOK'
  BY <1>0, TickAppends
<1>2. /\ state' = result.state /\ loaded' = loaded
      /\ history'[n + 1].action = result.action
      /\ state \in RiskState /\ state' \in RiskState
  <2>1. history \in Seq(Tick) /\ state \in RiskState
    BY DEF HistoryAgrees, TypeOK
  <2>2. history' = Append(history, [snap |-> snap, action |-> result.action])
    BY DEF ReceiveTick
  <2> HIDE DEF result
  <2>3. history'[n + 1] = [snap |-> snap, action |-> result.action]
    BY <1>0, <2>1, <2>2
  <2>. QED
    BY <1>1, <2>1, <2>3 DEF ReceiveTick, TypeOK, result
<1>3. \A k \in 0..n : HasLast(k)
  BY <1>0 DEF HistoryAgrees
<1>4. \A k \in 0..n : /\ HaltedAt(k)' <=> HaltedAt(k)
                      /\ IlPausedAfter(k)' <=> IlPausedAfter(k)
                      /\ LiveTicks(k)' = LiveTicks(k)
  BY <1>1, <1>2, <1>3, PastStands
<1>5. /\ HaltedAt(n + 1)' <=> HaltedAt(n) \/ LosesTooMuch(n + 1)'
      /\ HasLast(n + 1)'
      /\ HaltedAt(n + 1)' => (IlPausedAfter(n + 1)' <=> IlPausedAfter(n))
      /\ ~HaltedAt(n + 1)' =>
             (IlPausedAfter(n + 1)' <=>
                 IF MaxIlPct = NoLimit THEN loaded.pause_flag ELSE IlBreached(snap))
      /\ Pnls(n + 1)' = Pnls(n) \cup {snap.net_pnl}
  BY <1>0, NewTick
<1>6. 1..(n + 1) = 1..n \cup {n + 1} /\ 0..(n + 1) = 0..n \cup {n + 1}
  BY <1>1
<1>7. /\ state.halt_flag <=> HaltedAt(n)
      /\ state.pause_flag <=> IlPausedAfter(n)
      /\ \A k \in 1..n : history[k].action = "HaltAll" <=> HaltedAt(k)
      /\ \A k \in 1..n : history[k].action = "ResumeRebalancing" <=>
                             ~HaltedAt(k) /\ IlPausedAfter(k - 1) /\ ~IlPausedAfter(k)
  BY <1>0 DEF HistoryAgrees, HaltFollowsHistory, PauseFollowsIl, ResumeEndsAPause
<1>8. /\ result.state.operator_pause = state.operator_pause
      /\ state.halt_flag => result.state = state
      /\ result.state.halt_flag <=> result.action = "HaltAll"
  BY <1>1, <1>2, EvaluateFlags
<1>9. \A k \in 0..(n + 1) : HasLast(k)'
  BY <1>1, <1>3, <1>4, <1>5, <1>6 DEF HasLast
(* What is left to show of the new tick. *)
<1> DEFINE Verdict ==
              /\ state'.halt_flag <=> HaltedAt(n + 1)'
              /\ ~HaltedAt(n + 1)' =>
                     /\ state'.peak_pnl \in Pnls(n + 1)'
                     /\ \A x \in Pnls(n + 1)' : state'.peak_pnl >= x
              /\ state'.pause_flag <=> IlPausedAfter(n + 1)'
              /\ result.action = "ResumeRebalancing" <=>
                     ~HaltedAt(n + 1)' /\ IlPausedAfter(n) /\ ~IlPausedAfter(n + 1)'
<1>10. ASSUME HaltedAt(n) PROVE Verdict
  <2>1. result.action = "HaltAll" /\ result.state = state /\ state.halt_flag
    BY <1>7, <1>8, <1>10
  <2> HIDE DEF result
  <2>. QED
    BY <1>2, <1>5, <1>7, <1>10, <2>1
<1>11. ASSUME ~HaltedAt(n) PROVE Verdict
  <2>1. /\ state.peak_pnl \in Pnls(n) /\ \A x \in Pnls(n) : state.peak_pnl >= x
        /\ state.halt_flag = FALSE
    BY <1>0, <1>2, <1>7, <1>11 DEF HistoryAgrees, RiskState
  <2>2. /\ result.state.peak_pnl = peak
        /\ result.state.halt_flag <=> DrawdownBreached(peak, snap.net_pnl)
        /\ DrawdownBreached(peak, snap.net_pnl) => result.state.pause_flag = state.pause_flag
        /\ ~DrawdownBreached(peak, snap.net_pnl) =>
               /\ result.state.pause_flag <=>
                      IF MaxIlPct = NoLimit THEN state.pause_flag ELSE IlBreached(snap)
               /\ result.action = "ResumeRebalancing" <=>
                      MaxIlPct # NoLimit /\ state.pause_flag /\ ~IlBreached(snap)
    BY <1>1, <1>2, <2>1, EvaluateVerdict
  <2>3. peak \in Pnls(n + 1)' /\ (\A x \in Pnls(n + 1)' : peak >= x) /\ peak \in Nat
    <3>1. peak = IF snap.net_pnl > state.peak_pnl THEN snap.net_pnl ELSE state.peak_pnl
      BY DEF HighWater
    <3>2. snap.net_pnl \in Int /\ state.peak_pnl \in Nat
      BY <1>1, <1>2 DEF PnlSnapshot, RiskState
    <3>3. Pnls(n) \in SUBSET Int
      <4>1. \A i \in 1..n : history[i] \in Tick
        BY <1>0 DEF HistoryAgrees, TypeOK
      <4>2. \A i \in 1..n : history[i].snap.net_pnl \in Int
        BY <4>1 DEF Tick, PnlSnapshot
      <4>. QED
        BY <4>2 DEF Pnls
    <3> HIDE DEF peak
    <3>. QED
      BY <1>2, <1>5, <2>1, <2>2, <3>1, <3>2, <3>3 DEF RiskState
  <2>4. BestPnl(n + 1)' = peak
    <3>1. Pnls(n + 1)' \in SUBSET Int
      <4>1. \A i \in 1..(n + 1) : history'[i] \in Tick
        BY <1>1 DEF TypeOK
      <4>2. \A i \in 1..(n + 1) : history'[i].snap.net_pnl \in Int
        BY <4>1 DEF Tick, PnlSnapshot
      <4>. QED
        BY <4>2 DEF Pnls
    <3>2. Max(Pnls(n + 1)') = peak
      BY <2>3, <3>1, MaxIs
    <3>. QED
      BY <3>2 DEF BestPnl, Pnls
  <2>5. LosesTooMuch(n + 1)' <=> DrawdownBreached(peak, snap.net_pnl)
    BY <1>1, <2>4 DEF LosesTooMuch, DrawdownBreached, DrawdownMeasured
  <2>6. MaxIlPct = NoLimit => (IlPausedAfter(n) <=> loaded.pause_flag)
    BY DEF IlPausedAfter
  <2>7. DrawdownBreached(peak, snap.net_pnl) => result.action = "HaltAll"
    BY <1>8, <2>2
  <2>8. IlBreached(snap) \in BOOLEAN
    BY DEF IlBreached
  <2> HIDE DEF result, peak
  <2>9. CASE DrawdownBreached(peak, snap.net_pnl)
    BY <1>2, <1>5, <1>7, <2>2, <2>5, <2>7, <2>9
  <2>10. CASE ~DrawdownBreached(peak, snap.net_pnl)
    <3>1. ~HaltedAt(n + 1)' /\ ~state'.halt_flag
      BY <1>2, <1>5, <1>11, <2>2, <2>5, <2>10
    <3>2. state'.pause_flag <=> IlPausedAfter(n + 1)'
      BY <1>2, <1>5, <1>7, <2>2, <2>6, <2>10, <3>1
    <3>3. result.action = "ResumeRebalancing" <=>
              IlPausedAfter(n) /\ ~IlPausedAfter(n + 1)'
      BY <1>5, <1>7, <2>2, <2>6, <2>8, <2>10, <3>1
    <3>. QED
      BY <1>2, <2>2, <2>3, <3>1, <3>2, <3>3
  <2>. QED
    BY <2>9, <2>10
<1>12. Verdict
  BY <1>10, <1>11
<1> HIDE DEF Verdict, result, peak
<1>13. HaltFollowsHistory'
  <2>1. \A k \in 1..n : history'[k].action = "HaltAll" <=> HaltedAt(k)'
    BY <1>1, <1>4, <1>7
  <2>2. history'[n + 1].action = "HaltAll" <=> HaltedAt(n + 1)'
    BY <1>2, <1>8, <1>12 DEF Verdict
  <2>. QED
    BY <1>1, <1>6, <1>12, <2>1, <2>2 DEF HaltFollowsHistory, Verdict
<1>14. ResumeEndsAPause'
  <2>1. ASSUME NEW k \in 1..n
        PROVE  history'[k].action = "ResumeRebalancing" <=>
                   ~HaltedAt(k)' /\ IlPausedAfter(k - 1)' /\ ~IlPausedAfter(k)'
    <3>1. k \in 0..n /\ k - 1 \in 0..n
      BY <1>1
    <3>. QED
      BY <1>1, <1>4, <1>7, <3>1
  <2>2. history'[n + 1].action = "ResumeRebalancing" <=>
            ~HaltedAt(n + 1)' /\ IlPausedAfter((n + 1) - 1)' /\ ~IlPausedAfter(n + 1)'
    <3>1. (n + 1) - 1 = n /\ (IlPausedAfter(n)' <=> IlPausedAfter(n))
      BY <1>1, <1>4
    <3>2. IlPausedAfter((n + 1) - 1)' <=> IlPausedAfter(n)
      BY <3>1
    <3>. QED
      BY <1>2, <1>12, <3>2 DEF Verdict
  <2>. QED
    BY <1>1, <1>6, <2>1, <2>2 DEF ResumeEndsAPause
<1>15. PauseFollowsIl'
  BY <1>1, <1>12 DEF PauseFollowsIl, Verdict
<1>16. state'.operator_pause = loaded'.operator_pause
  BY <1>2, <1>8 DEF HistoryAgrees
<1>. QED
  BY <1>1, <1>9, <1>12, <1>13, <1>14, <1>15, <1>16 DEF HistoryAgrees, Verdict

-----------------------------------------------------------------------------
(* The session with its rows and its /status.                               *)

(* Without a failed upsert the row has the durable fields of memory, and no  *)
(* P&L row is ahead of the ticks by more than the one in progress.           *)
StatusAgrees ==
    /\ HistoryAgrees
    /\ StatusTypeOK
    /\ ~missed => Durable(riskRow) = Durable(state)
    /\ pnlRow # NoPnl => pnlRow <= Len(history) + 1
    /\ reading # NoPnl => reading <= Len(history) + 1

(* A step that does not judge a tick leaves the session alone. *)
LEMMA SessionStands ==
    ASSUME HistoryAgrees, UNCHANGED vars
    PROVE  HistoryAgrees'
<1>1. /\ history' = history /\ loaded' = loaded /\ state' = state /\ fetched' = fetched
      /\ driftUser' = driftUser
  BY DEF vars
<1>2. TypeOK'
  BY <1>1 DEF HistoryAgrees, TypeOK
<1>3. PICK n \in Nat : n = Len(history)
  BY DEF HistoryAgrees, TypeOK
<1>4. \A k \in 0..n : HasLast(k)
  BY <1>3 DEF HistoryAgrees
<1>5. \A k \in 0..n : /\ Pnls(k)' = Pnls(k)
                      /\ HaltedAt(k)' <=> HaltedAt(k)
                      /\ IlPausedAfter(k)' <=> IlPausedAfter(k)
                      /\ LiveTicks(k)' = LiveTicks(k)
  BY <1>1, <1>4, PastStands
<1>6. HaltFollowsHistory'
  BY <1>1, <1>3, <1>5 DEF HistoryAgrees, HaltFollowsHistory
<1>7. PauseFollowsIl'
  BY <1>1, <1>3, <1>5 DEF HistoryAgrees, PauseFollowsIl
<1>8. ResumeEndsAPause'
  <2>1. \A k \in 1..n : k - 1 \in 0..n /\ k \in 0..n
    BY <1>3
  <2>. QED
    BY <1>1, <1>3, <1>5, <2>1 DEF HistoryAgrees, ResumeEndsAPause
<1>. QED
  BY <1>1, <1>2, <1>3, <1>4, <1>5, <1>6, <1>7, <1>8 DEF HistoryAgrees, HasLast

(* Nothing was judged and nothing read yet.                                 *)
LEMMA StatusStarts ==
    ASSUME StatusInit
    PROVE  StatusAgrees
<1>1. /\ HistoryAgrees /\ TypeOK /\ riskRow = state /\ Len(history) = 0
      /\ riskRow \in RiskState
  BY InitAgrees DEF StatusInit, Init, HistoryAgrees, TypeOK
<1>2. 0 \in 0..MaxTicks
  BY RiskSessionAssumption
<1>3. StatusTypeOK
  BY <1>1, <1>2 DEF StatusInit, StatusTypeOK
<1>4. pnlRow # NoPnl => pnlRow <= Len(history) + 1
  BY <1>1 DEF StatusInit
<1>. QED
  BY <1>1, <1>3, <1>4 DEF StatusAgrees, StatusInit

(* Ticks keep the agreement by TickAgrees, every other step leaves it alone.*)
LEMMA StatusSteps ==
    ASSUME StatusAgrees, [StatusNext]_statusVars
    PROVE  StatusAgrees'
<1>1. Len(history) \in Nat
  BY DEF StatusAgrees, HistoryAgrees, TypeOK
<1>2. CASE StorePnl
  <2>1. UNCHANGED vars /\ Len(history') = Len(history) /\ state' = state
    BY <1>2 DEF StorePnl, vars
  <2>2. HistoryAgrees'
    BY <2>1, SessionStands DEF StatusAgrees
  <2>. QED
    BY <1>1, <1>2, <2>1, <2>2, RiskSessionAssumption, StatusViewAssumption
    DEF StorePnl, StatusAgrees, StatusTypeOK, HistoryAgrees
<1>3. CASE JudgeTick
  <2>1. PICK answers \in Answers \cup {NoDriftUser} : ReceiveTick(incoming, answers)
    BY <1>3 DEF JudgeTick
  <2>2. incoming \in Snapshots
    BY <1>3 DEF JudgeTick, StatusAgrees, StatusTypeOK
  <2>3. HistoryAgrees' /\ Len(history') = Len(history) + 1 /\ state' \in RiskState
    <3>1. HistoryAgrees'
      BY <2>1, <2>2, TickAgrees DEF StatusAgrees
    <3>2. Len(history') = Len(history) + 1
      BY <2>1, <2>2, TickAppends DEF StatusAgrees
    <3>. QED
      BY <3>1, <3>2 DEF HistoryAgrees, TypeOK
  <2>4. riskRow' \in RiskState /\ missed' \in BOOLEAN
    BY <1>3, <2>3 DEF JudgeTick, StatusAgrees, StatusTypeOK
  <2>5. ~missed' => Durable(riskRow') = Durable(state')
    BY <1>3 DEF JudgeTick, StatusAgrees, Stored
  <2>. QED
    BY <1>1, <1>3, <2>3, <2>4, <2>5, StatusViewAssumption
    DEF JudgeTick, StatusAgrees, StatusTypeOK, HistoryAgrees, Durable
<1>4. CASE QueryPnl \/ QueryRisk \/ UNCHANGED statusVars
  <2>1. /\ UNCHANGED vars /\ Len(history') = Len(history) /\ state' = state
        /\ UNCHANGED <<pnlRow, incoming, riskRow, missed>>
        /\ reading' \in {NoPnl, pnlRow, reading}
    BY <1>4 DEF QueryPnl, QueryRisk, statusVars, vars
  <2>2. HistoryAgrees'
    BY <2>1, SessionStands DEF StatusAgrees
  <2>. QED
    BY <1>1, <2>1, <2>2 DEF StatusAgrees, StatusTypeOK, HistoryAgrees
<1>. QED
  BY <1>2, <1>3, <1>4 DEF StatusNext

-----------------------------------------------------------------------------
(* The Drift margin.                                                        *)

Perps == 1..MaxPerpPositions

LEMMA PerpsAre == IsFiniteSet(Perps) /\ Perps \subseteq Int
<1>1. 1 \in Int /\ MaxPerpPositions \in Int
  BY DEF MaxPerpPositions
<1>. QED
  BY <1>1, FS_Interval DEF Perps

(* The magnitudes of the amounts that an account holds on one side. *)
Magnitudes(amounts) == [i \in Perps |-> Magnitude(amounts[i])]

LEMMA MagnitudesAre ==
    ASSUME NEW amounts \in [Perps -> Int]
    PROVE  \A i \in Perps : Magnitudes(amounts)[i] \in Nat
BY DEF Magnitudes, Magnitude

(* The total that MarginBelowThreshold speaks of is a sum. *)
LEMMA ExactTotalIsSum ==
    ASSUME NEW perps, NEW side, NEW amounts \in [Perps -> Int],
           \A i \in Perps : perps[i][side] = amounts[i]
    PROVE  ExactTotal(perps, side) = SumOf(Magnitudes(amounts), Perps)
<1> DEFINE fun == [i \in 1..MaxPerpPositions |-> Magnitude(perps[i][side])]
           Q(g) == g = [s \in SUBSET DOMAIN fun |->
                           IF s = {} THEN 0
                           ELSE fun[CHOOSE x \in s : TRUE] + g[s \ {CHOOSE x \in s : TRUE}]]
<1>1. fun = Magnitudes(amounts) /\ DOMAIN fun = Perps
  BY DEF Magnitudes, Perps
<1>2. ExactTotal(perps, side) = (CHOOSE g : Q(g))[DOMAIN fun]
  BY Zenon DEF ExactTotal, FoldFunction, FoldFunctionOnSet, MapThenFoldSet
<1>3. \A g : SumsUp(Magnitudes(amounts), Perps, g) <=> Q(g)
  <2> HIDE DEF fun
  <2>. QED
    BY <1>1, Zenon DEF SumsUp
<1>4. \A i \in Perps : Magnitudes(amounts)[i] \in Int
  BY MagnitudesAre
<1> HIDE DEF Q, fun
<1>5. Q(CHOOSE g : Q(g))
  <2>1. \E g : SumsUp(Magnitudes(amounts), Perps, g)
    BY <1>4, PerpsAre, SumsUpExists
  <2>. QED
    BY <1>3, <2>1, Zenon
<1>6. SumsUp(Magnitudes(amounts), Perps, CHOOSE g : Q(g))
  BY <1>3, <1>5, Zenon
<1>7. SumOf(Magnitudes(amounts), Perps) = (CHOOSE g : Q(g))[Perps]
  BY <1>4, <1>6, PerpsAre, SumOfIs
<1>. QED
  BY <1>1, <1>2, <1>7

(* The saturating total stops at MaxI64 and is exact below. *)
LEMMA TotalAbsSaturates ==
    ASSUME NEW amounts \in [Perps -> Int]
    PROVE  LET total == SumOf(Magnitudes(amounts), Perps)
           IN  total \in Nat /\ TotalAbs(amounts) = IF total <= MaxI64 THEN total ELSE MaxI64
<1> DEFINE F == Magnitudes(amounts)
<1>0. \A i \in Perps : F[i] \in Int /\ F[i] \in Nat /\ F[i] = Magnitude(amounts[i])
  BY MagnitudesAre DEF Magnitudes
<1> HIDE DEF F
<1>1. PICK sum \in [SUBSET Perps -> Int] : SumsUp(F, Perps, sum) /\ SumOf(F, Perps) = sum[Perps]
  BY <1>0, PerpsAre, SumOfFunction
<1>2. sum[{}] = 0 /\ \A s : s \subseteq Perps => \A x \in s : sum[s] = F[x] + sum[s \ {x}]
  <2>1. \A x \in Perps : F[x] \in Int
    BY <1>0
  <2>2. AnyOrder(F, Perps, sum)
    BY <1>1, <2>1, PerpsAre, SumsInAnyOrder
  <2>. QED
    BY <2>2 DEF AnyOrder
<1>3. \A i \in Perps : F[i] \in Nat /\ F[i] = Magnitude(amounts[i])
  BY <1>0
<1>4. \A s : s \subseteq Perps => sum[s] \in Nat
  <2> DEFINE Counted == {s \in SUBSET Perps : sum[s] \in Nat}
  <2>1. {} \in Counted
    BY <1>2
  <2>2. ASSUME NEW s, s \subseteq Perps, s # {}, \A x \in s : s \ {x} \in Counted
        PROVE  s \in Counted
    <3>1. PICK x \in s : TRUE
      BY <2>2
    <3>2. sum[s] = F[x] + sum[s \ {x}] /\ F[x] \in Nat /\ sum[s \ {x}] \in Nat
      BY <1>2, <1>3, <2>2, <3>1
    <3>. QED
      BY <2>2, <3>2
  <2> HIDE DEF Counted
  <2>3. \A s : s \subseteq Perps => s \in Counted
    BY <2>1, <2>2, PerpsAre, SubsetInduction
  <2>. QED
    BY <2>3 DEF Counted
<1> DEFINE Least64(n) == IF n <= MaxI64 THEN n ELSE MaxI64
           Q(g) == g = [s \in SUBSET DOMAIN amounts |->
                           IF s = {} THEN 0
                           ELSE SaturatingAdd(g[s \ {Max(s)}], Magnitude(amounts[Max(s)]))]
           capped == [s \in SUBSET Perps |-> Least64(sum[s])]
<1>5. TotalAbs(amounts) = (CHOOSE g : Q(g))[DOMAIN amounts] /\ DOMAIN amounts = Perps
  BY Zenon DEF TotalAbs, FoldLeft, MapThenFoldSet
<1>6. MaxI64 \in Nat
  BY DriftMarginAssumption
<1>7. ASSUME NEW s, s \subseteq Perps, s # {}
      PROVE  /\ Max(s) \in s /\ s \ {Max(s)} \subseteq Perps
             /\ SaturatingAdd(Least64(sum[s \ {Max(s)}]), Magnitude(amounts[Max(s)])) = Least64(sum[s])
  <2>1. IsFiniteSet(s) /\ s \subseteq Int
    BY <1>7, PerpsAre, FS_Subset
  <2>2. Max(s) \in s
    BY <1>7, <2>1, MinAndMax
  <2>3. PICK x \in s : x = Max(s)
    BY <2>2
  <2>4. /\ sum[s] = F[x] + sum[s \ {x}] /\ F[x] \in Nat /\ F[x] = Magnitude(amounts[x])
        /\ sum[s \ {x}] \in Nat
    BY <1>2, <1>3, <1>4, <1>7
  <2>5. SaturatingAdd(Least64(sum[s \ {x}]), F[x]) = Least64(sum[s])
    BY <1>6, <2>4 DEF SaturatingAdd
  <2>. QED
    BY <1>7, <2>2, <2>3, <2>4, <2>5
<1>8. Q(capped)
  <2>1. capped[{}] = 0
    BY <1>2, <1>6
  <2>2. ASSUME NEW s \in SUBSET Perps, s # {}
        PROVE  capped[s] = SaturatingAdd(capped[s \ {Max(s)}], Magnitude(amounts[Max(s)]))
    <3>1. s \ {Max(s)} \in SUBSET Perps
      BY <1>7, <2>2
    <3>2. capped[s] = Least64(sum[s]) /\ capped[s \ {Max(s)}] = Least64(sum[s \ {Max(s)}])
      BY <3>1
    <3> HIDE DEF capped, Least64
    <3>. QED
      BY <1>7, <2>2, <3>2
  <2>3. capped = [s \in SUBSET Perps |-> capped[s]]
    OBVIOUS
  <2> HIDE DEF capped
  <2>. QED
    BY <1>5, <2>1, <2>2, <2>3
<1>9. ASSUME NEW g, Q(g) PROVE g[Perps] = Least64(sum[Perps])
  <2> DEFINE Equal == {s \in SUBSET Perps : g[s] = Least64(sum[s])}
  <2>1. {} \in Equal
    BY <1>2, <1>6, <1>9
  <2>2. ASSUME NEW s, s \subseteq Perps, s # {}, \A x \in s : s \ {x} \in Equal
        PROVE  s \in Equal
    <3>1. g[s] = SaturatingAdd(g[s \ {Max(s)}], Magnitude(amounts[Max(s)]))
      BY <1>5, <1>9, <2>2
    <3>2. g[s \ {Max(s)}] = Least64(sum[s \ {Max(s)}])
      BY <1>7, <2>2
    <3> HIDE DEF Least64
    <3>. QED
      BY <1>7, <2>2, <3>1, <3>2
  <2> HIDE DEF Equal
  <2>3. \A s : s \subseteq Perps => s \in Equal
    BY <2>1, <2>2, PerpsAre, SubsetInduction
  <2>4. Perps \in Equal
    BY <2>3
  <2>. QED
    BY <2>4 DEF Equal
<1>10. TotalAbs(amounts) = Least64(sum[Perps])
  <2> HIDE DEF Q
  <2>1. Q(CHOOSE g : Q(g))
    BY <1>8, Zenon
  <2>. QED
    BY <1>5, <1>9, <2>1
<1>11. sum[Perps] \in Nat
  BY <1>4
<1>. QED
  BY <1>1, <1>10, <1>11 DEF F

(* A quotient is below a bound exactly when its dividend is below the bound  *)
(* times the divisor.                                                       *)
LEMMA QuotientBelow ==
    ASSUME NEW q \in Nat, NEW d \in Nat \ {0}, NEW t \in Nat
    PROVE  q \div d \in Nat /\ (q \div d < t <=> q < t * d)
<1>1. PICK e \in Nat : e = q \div d /\ e * d <= q /\ q < (e + 1) * d
  <2>1. q \div d \in Int /\ q = d * (q \div d) + (q % d) /\ (q % d) \in 0..d - 1
    OBVIOUS
  <2>2. q \div d \in Nat
    BY <2>1
  <2>. QED
    BY <2>1, <2>2
<1>2. CASE e < t
  <2>1. (e + 1) * d <= t * d
    <3>1. PICK k \in Nat : t = (e + 1) + k
      <4>1. t - (e + 1) \in Nat /\ t = (e + 1) + (t - (e + 1))
        BY <1>2
      <4>. QED
        BY <4>1
    <3>2. t * d = (e + 1) * d + k * d /\ k * d \in Nat
      BY <3>1
    <3>. QED
      BY <3>2
  <2>. QED
    BY <1>1, <1>2, <2>1
<1>3. CASE ~(e < t)
  <2>1. t * d <= e * d
    <3>1. PICK k \in Nat : e = t + k
      <4>1. e - t \in Nat /\ e = t + (e - t)
        BY <1>3
      <4>. QED
        BY <4>1
    <3>2. e * d = t * d + k * d /\ k * d \in Nat
      BY <3>1
    <3>. QED
      BY <3>2
  <2>. QED
    BY <1>1, <1>3, <2>1
<1>. QED
  BY <1>1, <1>2, <1>3

(* The proxy ratio is below the threshold exactly when the totals, as far as *)
(* an i64 counts, say so.                                                   *)
LEMMA RatioBelow ==
    ASSUME NEW perps \in [Perps -> PerpPosition], DriftMinMarginRatio # NoLimit
    PROVE  /\ ProxyRatio(perps) \in Nat
           /\ ProxyRatio(perps) < DriftMinMarginRatio <=>
                  CappedTotal(perps, "quote") < DriftMinMarginRatio * (CappedTotal(perps, "base") + 1)
<1> DEFINE quotes == [i \in Perps |-> perps[i].quote]
           bases == [i \in Perps |-> perps[i].base]
<1>1. quotes \in [Perps -> Int] /\ bases \in [Perps -> Int]
  BY DriftMarginAssumption DEF PerpPosition
<1>2. /\ \A i \in Perps : perps[i]["quote"] = quotes[i]
      /\ \A i \in Perps : perps[i]["base"] = bases[i]
  OBVIOUS
<1>3. ProxyRatio(perps) = TotalAbs(quotes) \div (TotalAbs(bases) + 1)
  BY DEF ProxyRatio, Perps
<1> HIDE DEF quotes, bases
<1>4. /\ ExactTotal(perps, "quote") = SumOf(Magnitudes(quotes), Perps)
      /\ ExactTotal(perps, "base") = SumOf(Magnitudes(bases), Perps)
  BY <1>1, <1>2, ExactTotalIsSum
<1>5. PICK q \in Nat, b \in Nat :
          /\ q = CappedTotal(perps, "quote") /\ TotalAbs(quotes) = q
          /\ b = CappedTotal(perps, "base") /\ TotalAbs(bases) = b
  <2>1. TotalAbs(quotes) = CappedTotal(perps, "quote") /\ TotalAbs(quotes) \in Nat
    BY <1>1, <1>4, TotalAbsSaturates, DriftMarginAssumption DEF CappedTotal
  <2>2. TotalAbs(bases) = CappedTotal(perps, "base") /\ TotalAbs(bases) \in Nat
    BY <1>1, <1>4, TotalAbsSaturates, DriftMarginAssumption DEF CappedTotal
  <2>. QED
    BY <2>1, <2>2
<1>6. b + 1 \in Nat \ {0} /\ DriftMinMarginRatio \in Nat
  BY RiskLimitsAssumption
<1>7. q \div (b + 1) \in Nat /\ (q \div (b + 1) < DriftMinMarginRatio <=> q < DriftMinMarginRatio * (b + 1))
  BY <1>6, QuotientBelow
<1>. QED
  BY <1>3, <1>5, <1>7

(* What evaluate is given as the margin is low exactly when the fetch shows  *)
(* it: the attempt that answered first decides.                             *)
LEMMA MarginIff ==
    ASSUME NEW answers \in Answers, answers # NoDriftUser, DriftMinMarginRatio # NoLimit,
           fetched' = answers
    PROVE  MarginLow(DriftMargin(answers)) <=> MarginBelowThreshold'
<1>1. answers \in [1..MarginFetchAttempts -> DriftAccount \cup {RpcError}]
  BY RiskSessionAssumption
<1>2. /\ Fetches(answers) \subseteq 1..MarginFetchAttempts
      /\ IsFiniteSet(Fetches(answers)) /\ Fetches(answers) \subseteq Int
  <2>1. IsFiniteSet(1..MarginFetchAttempts)
    <3>1. 1 \in Int /\ MarginFetchAttempts \in Int
      BY DEF MarginFetchAttempts
    <3>. QED
      BY <3>1, FS_Interval
  <2>2. Fetches(answers) \subseteq 1..MarginFetchAttempts /\ 1..MarginFetchAttempts \subseteq Int
    BY DEF Fetches, MarginFetchAttempts
  <2>. QED
    BY <2>1, <2>2, FS_Subset
<1>3. CASE Fetches(answers) = {}
  <2>1. DriftMargin(answers) = NoRatio
    BY <1>3 DEF DriftMargin, FetchDriftMarginRatioFor
  <2>2. \A i \in 1..MarginFetchAttempts : answers[i] = RpcError
    BY <1>3 DEF Fetches
  <2>3. AccountsRead' = {}
    BY <2>2 DEF AccountsRead
  <2>. QED
    BY <2>1, <2>3 DEF MarginLow, MarginBelowThreshold
<1>4. CASE Fetches(answers) # {}
  <2>1. PICK f \in Fetches(answers) : f = Min(Fetches(answers)) /\ \A i \in Fetches(answers) : f <= i
    BY <1>2, <1>4, MinAndMax
  <2>2. PICK account \in DriftAccount : account = answers[f]
    <3>1. answers[f] # RpcError /\ f \in 1..MarginFetchAttempts
      BY DEF Fetches
    <3>. QED
      BY <1>1, <3>1
  <2>3. DriftMargin(answers) = RatioOfAccount(account)
    BY <1>4, <2>1, <2>2 DEF DriftMargin, FetchDriftMarginRatioFor
  <2>4. account.perps \in [Perps -> PerpPosition] /\ account.bytes \in Nat
    BY <2>2 DEF DriftAccount, Perps
  <2>5. LayoutMissing(account) <=> ~(account.bytes >= 5496)
    BY <2>4 DEF LayoutMissing, Discriminator, PerpArrayOffset, MaxPerpPositions, PerpPositionSize
  <2> DEFINE whole == account.owner = "drift" /\ account.bytes >= 5496
             low == CappedTotal(account.perps, "quote") <
                        DriftMinMarginRatio * (CappedTotal(account.perps, "base") + 1)
  <2>6. MarginLow(RatioOfAccount(account)) <=> whole /\ low
    BY <2>4, <2>5, RatioBelow, RiskLimitsAssumption DEF RatioOfAccount, MarginLow
  <2>7. ASSUME NEW i \in 1..MarginFetchAttempts
        PROVE  i = f <=> answers[i] # RpcError /\ \A j \in 1..(i - 1) : answers[j] = RpcError
    <3>1. f \in 1..MarginFetchAttempts /\ answers[f] # RpcError
          /\ \A j \in 1..MarginFetchAttempts : answers[j] # RpcError => f <= j
      BY <2>1 DEF Fetches
    <3>2. i \in Int /\ f \in Int /\ MarginFetchAttempts \in Int
      BY <3>1 DEF MarginFetchAttempts
    <3>. QED
      BY <3>1, <3>2
  <2>8. AccountsRead' = IF whole THEN {account} ELSE {}
    <3>1. AccountsRead' =
            {answers[i] : i \in {k \in 1..MarginFetchAttempts :
                /\ \A j \in 1..(k - 1) : answers[j] = RpcError
                /\ answers[k] # RpcError
                /\ answers[k].owner = "drift" /\ answers[k].bytes >= 5496}}
      BY DEF AccountsRead
    <3>2. f \in 1..MarginFetchAttempts
      BY <2>1 DEF Fetches
    <3>. QED
      BY <2>2, <2>7, <3>1, <3>2
  <2>9. MarginBelowThreshold' <=> whole /\ low
    <3>1. MarginBelowThreshold' <=> \E a \in AccountsRead' :
              CappedTotal(a.perps, "quote") < DriftMinMarginRatio * (CappedTotal(a.perps, "base") + 1)
      BY DEF MarginBelowThreshold
    <3>. QED
      BY <2>8, <3>1
  <2>. QED
    BY <2>3, <2>6, <2>9
<1>. QED
  BY <1>3, <1>4

(* When a tick asks to close the hedge. *)
LEMMA CloseVerdict ==
    ASSUME NEW st \in RiskState, NEW snap \in PnlSnapshot, NEW ratio
    PROVE  Evaluate(st, snap, ratio).action = "CloseDriftHedge" <=>
               /\ ~st.halt_flag /\ ~DrawdownBreached(HighWater(st, snap), snap.net_pnl)
               /\ ~IlBreached(snap) /\ ~(MaxIlPct # NoLimit /\ st.pause_flag)
               /\ MarginLow(ratio)
<1> DEFINE peak == HighWater(st, snap)
           tracked == [st EXCEPT
              !.peak_pnl = peak,
              !.current_drawdown_pct =
                  IF DrawdownMeasured(peak) THEN DrawdownPct(peak, snap.net_pnl) ELSE @]
<1>1. tracked.pause_flag = st.pause_flag
  BY DEF RiskState
<1>2. CASE st.halt_flag
  BY <1>2 DEF Evaluate
<1>3. CASE ~st.halt_flag /\ DrawdownBreached(peak, snap.net_pnl)
  BY <1>3 DEF Evaluate, EvaluateRunning
<1>4. CASE ~st.halt_flag /\ ~DrawdownBreached(peak, snap.net_pnl)
  <2>1. Evaluate(st, snap, ratio) = EvaluateIlAndMargin(tracked, snap, ratio)
    BY <1>4 DEF Evaluate, EvaluateRunning
  <2> HIDE DEF tracked, peak
  <2>2. EvaluateIlAndMargin(tracked, snap, ratio).action = "CloseDriftHedge" <=>
            ~IlBreached(snap) /\ ~(MaxIlPct # NoLimit /\ tracked.pause_flag) /\ MarginLow(ratio)
    BY DEF EvaluateIlAndMargin
  <2>. QED
    BY <1>1, <1>4, <2>1, <2>2 DEF peak
<1>. QED
  BY <1>2, <1>3, <1>4

MarginAgrees == AcceptedFlags(driftUser) /\ MarginWarnedIffLow

(* A tick's margin verdict is that of its own fetch. *)
LEMMA MarginOfTick ==
    ASSUME HistoryAgrees, MarginAgrees, NEW snap \in Snapshots,
           NEW answers \in Answers \cup {NoDriftUser}, ReceiveTick(snap, answers)
    PROVE  MarginAgrees'
<1>0. PICK n \in Nat : n = Len(history)
  BY DEF HistoryAgrees, TypeOK
<1> DEFINE ratio == DriftMargin(answers)
           result == Evaluate(state, snap, ratio)
<1>1. /\ Len(history') = n + 1 /\ snap \in PnlSnapshot /\ history'[n + 1].snap = snap
      /\ \A i \in 1..n : history'[i] = history[i]
  BY <1>0, TickAppends
<1>2. /\ state' = result.state /\ history'[n + 1].action = result.action
      /\ fetched' = answers /\ driftUser' = driftUser /\ loaded' = loaded
      /\ (answers = NoDriftUser) <=> ~driftUser
  <2>1. history' = Append(history, [snap |-> snap, action |-> result.action])
    BY DEF ReceiveTick
  <2> HIDE DEF result
  <2>2. history'[n + 1].action = result.action
    BY <1>0, <2>1 DEF HistoryAgrees, TypeOK
  <2>. QED
    BY <2>2 DEF ReceiveTick, result
<1>3. HistoryAgrees'
  BY TickAgrees
<1>4. HaltedAt(n + 1)' <=> state'.halt_flag
  BY <1>1, <1>3 DEF HistoryAgrees, HaltFollowsHistory
<1>5. IlPausedAfter(n)' <=> state.pause_flag
  <2>1. IlPausedAfter(n)' <=> IlPausedAfter(n)
    BY <1>0, <1>1, <1>2, PastStands DEF HistoryAgrees
  <2>. QED
    BY <1>0, <2>1 DEF HistoryAgrees, PauseFollowsIl
<1>6. state \in RiskState
  BY DEF HistoryAgrees, TypeOK
<1>7. state'.halt_flag <=> state.halt_flag \/ DrawdownBreached(HighWater(state, snap), snap.net_pnl)
  <2>1. CASE state.halt_flag
    BY <1>2, <2>1 DEF Evaluate
  <2>2. CASE ~state.halt_flag
    BY <1>1, <1>2, <1>6, <2>2, EvaluateVerdict
  <2>. QED
    BY <2>1, <2>2
<1>8. result.action = "CloseDriftHedge" <=>
          /\ ~state.halt_flag /\ ~DrawdownBreached(HighWater(state, snap), snap.net_pnl)
          /\ ~IlBreached(snap) /\ ~(MaxIlPct # NoLimit /\ state.pause_flag)
          /\ MarginLow(ratio)
  BY <1>1, <1>6, CloseVerdict
<1>9. MarginLow(ratio) <=> MarginBelowThreshold'
  <2>1. CASE answers = NoDriftUser
    BY <1>2, <2>1 DEF DriftMargin, MarginLow, MarginBelowThreshold, AccountsRead
  <2>2. CASE answers # NoDriftUser
    <3>1. DriftMinMarginRatio # NoLimit
      BY <1>2, <2>2 DEF MarginAgrees, AcceptedFlags
    <3>. QED
      BY <1>2, <2>2, <3>1, MarginIff
  <2>. QED
    BY <2>1, <2>2
<1> HIDE DEF result, ratio
<1>10. history'[n + 1].action = "CloseDriftHedge" <=>
          /\ ~HaltedAt(n + 1)' /\ ~IlBreached(history'[n + 1].snap)
          /\ ~(MaxIlPct # NoLimit /\ IlPausedAfter(n)')
          /\ MarginBelowThreshold'
  BY <1>1, <1>2, <1>4, <1>5, <1>7, <1>8, <1>9
<1>11. (n + 1) - 1 = n
  OBVIOUS
<1>12. MarginWarnedIffLow'
  BY <1>1, <1>10, <1>11 DEF MarginWarnedIffLow, ClosesHedgeIff
<1>. QED
  BY <1>2, <1>12 DEF MarginAgrees, AcceptedFlags

(* Whatever leaves the session alone leaves its last verdict alone. *)
LEMMA MarginStands ==
    ASSUME HistoryAgrees, MarginAgrees, UNCHANGED vars
    PROVE  MarginAgrees'
<1>1. /\ loaded' = loaded /\ driftUser' = driftUser /\ history' = history /\ fetched' = fetched
  BY DEF vars
<1>2. PICK n \in Nat : n = Len(history)
  BY DEF HistoryAgrees, TypeOK
<1>3. \A k \in 0..n : /\ HaltedAt(k)' <=> HaltedAt(k)
                      /\ IlPausedAfter(k)' <=> IlPausedAfter(k)
  BY <1>1, <1>2, PastStands DEF HistoryAgrees
<1>4. MarginBelowThreshold' <=> MarginBelowThreshold
  BY <1>1 DEF MarginBelowThreshold, AccountsRead
<1>5. n > 0 => n - 1 \in 0..n /\ n \in 0..n
  BY <1>2
<1>. QED
  BY <1>1, <1>2, <1>3, <1>4, <1>5 DEF MarginAgrees, MarginWarnedIffLow, ClosesHedgeIff, AcceptedFlags

LEMMA MarginSteps ==
    ASSUME StatusAgrees, MarginAgrees, [StatusNext]_statusVars
    PROVE  MarginAgrees'
<1>1. CASE JudgeTick
  <2>1. PICK answers \in Answers \cup {NoDriftUser} : ReceiveTick(incoming, answers)
    BY <1>1 DEF JudgeTick
  <2>2. incoming \in Snapshots /\ HistoryAgrees
    BY <1>1 DEF JudgeTick, StatusAgrees, StatusTypeOK
  <2>. QED
    BY <2>1, <2>2, MarginOfTick
<1>2. CASE StorePnl \/ QueryPnl \/ QueryRisk \/ UNCHANGED statusVars
  BY <1>2, MarginStands DEF StorePnl, QueryPnl, QueryRisk, statusVars, StatusAgrees
<1>. QED
  BY <1>1, <1>2 DEF StatusNext

-----------------------------------------------------------------------------
(* The theorems.                                                            *)

(* The history and the verdicts agree in every session, of any length. *)
THEOREM SessionAgrees == StatusSpec => []StatusAgrees
<1>1. StatusInit => StatusAgrees
  BY StatusStarts
<1>2. StatusAgrees /\ [StatusNext]_statusVars => StatusAgrees'
  BY StatusSteps
<1>. QED
  BY <1>1, <1>2, PTL DEF StatusSpec

(* A tick closes the hedge exactly when no other limit decided it and the    *)
(* account that answered first is a whole Drift account below the threshold, *)
(* its absolute amounts summed as far as an i64 counts (risk_monitor.rs      *)
(* 284-423, 487-499): for all answers and thresholds, and for all accounts   *)
(* of amounts other than i64::MIN, those whose totals saturate included.     *)
THEOREM MarginVerdicts == StatusSpec => []SessionInv
<1>1. StatusInit => StatusAgrees /\ MarginAgrees
  <2>1. StatusInit => MarginAgrees
    BY DEF StatusInit, Init, MarginAgrees, MarginWarnedIffLow, ClosesHedgeIff
  <2>. QED
    BY <2>1, StatusStarts
<1>2. StatusAgrees /\ MarginAgrees /\ [StatusNext]_statusVars => (StatusAgrees /\ MarginAgrees)'
  BY StatusSteps, MarginSteps
<1>3. StatusAgrees /\ MarginAgrees => SessionInv
  BY DEF StatusAgrees, MarginAgrees, SessionInv
<1>. QED
  BY <1>1, <1>2, <1>3, PTL DEF StatusSpec

(* HaltAll is answered from the first breach of the session's own peak on    *)
(* and never before, whatever an earlier session left (risk_monitor.rs       *)
(* 434-462).                                                                *)
THEOREM HaltFromFirstBreach == StatusSpec => []HaltFollowsHistory
<1>1. StatusAgrees => HaltFollowsHistory
  BY DEF StatusAgrees, HistoryAgrees
<1>. QED
  BY <1>1, SessionAgrees, PTL

(* Until a halt the peak is the best P&L of the session. *)
THEOREM PeakOfSession == StatusSpec => []PeakIsSessionBest
<1>1. StatusAgrees => PeakIsSessionBest
  BY PeakIsMax DEF StatusAgrees
<1>. QED
  BY <1>1, SessionAgrees, PTL

(* The IL pause is decided by the last tick that was not halted. *)
THEOREM PauseOfLastLiveTick == StatusSpec => []PauseFollowsIl
<1>1. StatusAgrees => PauseFollowsIl
  BY DEF StatusAgrees, HistoryAgrees
<1>. QED
  BY <1>1, SessionAgrees, PTL

(* A resume is announced once per pause. *)
THEOREM OneResumePerPause == StatusSpec => []ResumeEndsAPause
<1>1. StatusAgrees => ResumeEndsAPause
  BY DEF StatusAgrees, HistoryAgrees
<1>. QED
  BY <1>1, SessionAgrees, PTL

(* /status is in time: the row it reads last has what the history gives at   *)
(* that moment, and the P&L it read first is at most one tick ahead          *)
(* (queries.rs 28-60).                                                      *)
THEOREM StatusNeverStale == StatusSpec => []StatusInTime
<1>1. ASSUME StatusAgrees PROVE StatusInTime
  <2> SUFFICES ASSUME reading # NoPnl, ~missed
               PROVE  \E n \in Max({0, reading - 1})..Len(history) :
                          /\ StatusMessage(riskRow).status = TrueStatus(n)
                          /\ ~HaltedAt(n) => StatusMessage(riskRow).peak = BestPnl(n)
    BY DEF StatusInTime
  <2> DEFINE n == Len(history)
  <2>1. /\ n \in Nat /\ reading \in Nat /\ reading <= n + 1
        /\ state \in RiskState /\ riskRow \in RiskState
    BY <1>1, RiskSessionAssumption
    DEF StatusAgrees, HistoryAgrees, StatusTypeOK, TypeOK
  <2>2. Max({0, reading - 1}) <= n /\ Max({0, reading - 1}) \in Int
    <3>1. CASE reading = 0
      <4>1. Max({0, reading - 1}) = 0
        BY <3>1, MaxIs
      <4>. QED
        BY <2>1, <4>1
    <3>2. CASE reading # 0
      <4>1. reading - 1 \in Nat
        BY <2>1, <3>2
      <4>2. \A x \in {0, reading - 1} : reading - 1 >= x
        BY <4>1
      <4>3. Max({0, reading - 1}) = reading - 1
        BY <4>1, <4>2, MaxIs
      <4>. QED
        BY <2>1, <4>1, <4>3
    <3>. QED
      BY <3>1, <3>2
  <2>3. /\ riskRow.peak_pnl = state.peak_pnl /\ riskRow.pause_flag = state.pause_flag
        /\ riskRow.halt_flag = state.halt_flag
        /\ riskRow.operator_pause = loaded.operator_pause
    BY <1>1 DEF StatusAgrees, HistoryAgrees, Durable
  <2>4. /\ state.halt_flag <=> HaltedAt(n)
        /\ state.pause_flag <=> IlPausedAfter(n)
        /\ ~HaltedAt(n) => state.peak_pnl = BestPnl(n)
    BY <1>1, PeakIsMax
    DEF StatusAgrees, HistoryAgrees, HaltFollowsHistory, PauseFollowsIl, PeakIsSessionBest
  <2>5. StatusMessage(riskRow).status = TrueStatus(n)
    <3>1. StatusMessage(riskRow).status = PauseStatus(riskRow)
      BY DEF StatusMessage
    <3>2. PauseStatus(riskRow) = TrueStatus(n)
      BY <2>1, <2>3, <2>4 DEF PauseStatus, TrueStatus, RiskState
    <3>. QED
      BY <3>1, <3>2
  <2>6. ~HaltedAt(n) => StatusMessage(riskRow).peak = BestPnl(n)
    BY <2>3, <2>4 DEF StatusMessage
  <2>7. n \in Max({0, reading - 1})..n
    BY <2>1, <2>2
  <2>. QED
    BY <2>5, <2>6, <2>7
<1>. QED
  BY <1>1, SessionAgrees, PTL
=============================================================================
