------------------------- MODULE RiskMonitorProofs -------------------------
(***************************************************************************)
(* Lemmas about the operators of RiskMonitor, for every limit, snapshot    *)
(* and margin ratio: what evaluate may change, and what it never does.     *)
(***************************************************************************)
EXTENDS RiskMonitor, TLAPS

(* The peak never falls, and is at least the P&L it was compared with. *)
LEMMA HighWaterRises ==
    ASSUME NEW st \in RiskState, NEW snap \in PnlSnapshot
    PROVE  /\ HighWater(st, snap) \in Nat
           /\ HighWater(st, snap) >= st.peak_pnl
           /\ HighWater(st, snap) >= snap.net_pnl
BY DEF HighWater, RiskState, PnlSnapshot

(* A measured drawdown is a natural number of percent: it is taken against a *)
(* peak that is positive and no smaller than the P&L.                        *)
LEMMA DrawdownPctNat ==
    ASSUME NEW peak \in Nat, NEW net \in Int, DrawdownMeasured(peak), net <= peak
    PROVE  DrawdownPct(peak, net) \in Nat
<1>1. peak > 0
  BY RiskLimitsAssumption DEF DrawdownMeasured
<1>2. (peak - net) * 100 \in Nat
  OBVIOUS
<1>3. \A a \in Nat, b \in Nat \ {0} : a \div b \in Nat
  OBVIOUS
<1>. QED
  BY <1>1, <1>2, <1>3 DEF DrawdownPct

(* evaluate returns a state and an action of the declared types. *)
LEMMA EvaluateType ==
    ASSUME NEW st \in RiskState, NEW snap \in PnlSnapshot, NEW ratio
    PROVE  /\ Evaluate(st, snap, ratio).state \in RiskState
           /\ Evaluate(st, snap, ratio).action \in RiskAction
<1> DEFINE peak == HighWater(st, snap)
           tracked == [st EXCEPT
              !.peak_pnl = peak,
              !.current_drawdown_pct =
                  IF DrawdownMeasured(peak) THEN DrawdownPct(peak, snap.net_pnl) ELSE @]
<1>1. tracked \in RiskState
  <2>1. peak \in Nat /\ snap.net_pnl <= peak /\ snap.net_pnl \in Int
    BY HighWaterRises DEF PnlSnapshot
  <2>2. DrawdownMeasured(peak) => DrawdownPct(peak, snap.net_pnl) \in Nat
    BY <2>1, DrawdownPctNat
  <2>. QED
    BY <2>1, <2>2 DEF RiskState
<1>2. /\ EvaluateIlAndMargin(tracked, snap, ratio).state \in RiskState
      /\ EvaluateIlAndMargin(tracked, snap, ratio).action \in RiskAction
  <2> HIDE DEF tracked
  <2>. QED
    BY <1>1 DEF EvaluateIlAndMargin, RiskState, RiskAction
<1>3. /\ EvaluateRunning(st, snap, ratio).state \in RiskState
      /\ EvaluateRunning(st, snap, ratio).action \in RiskAction
  <2>1. CASE DrawdownBreached(peak, snap.net_pnl)
    <3>1. EvaluateRunning(st, snap, ratio)
             = [state |-> [tracked EXCEPT !.halt_flag = TRUE], action |-> "HaltAll"]
      BY <2>1 DEF EvaluateRunning
    <3> HIDE DEF tracked
    <3>2. [tracked EXCEPT !.halt_flag = TRUE] \in RiskState
      BY <1>1 DEF RiskState
    <3>. QED
      BY <3>1, <3>2 DEF RiskAction
  <2>2. CASE ~DrawdownBreached(peak, snap.net_pnl)
    <3>1. EvaluateRunning(st, snap, ratio) = EvaluateIlAndMargin(tracked, snap, ratio)
      BY <2>2 DEF EvaluateRunning
    <3>. QED
      BY <3>1, <1>2
  <2>. QED
    BY <2>1, <2>2
<1>. QED
  BY <1>3 DEF Evaluate, RiskAction

(* evaluate neither clears a halt nor touches the operator's pause, and it   *)
(* answers HaltAll whenever the state it leaves behind is halted.            *)
LEMMA EvaluateFlags ==
    ASSUME NEW st \in RiskState, NEW snap \in PnlSnapshot, NEW ratio
    PROVE  LET result == Evaluate(st, snap, ratio)
           IN  /\ result.state.operator_pause = st.operator_pause
               /\ st.halt_flag => result.state = st
               /\ result.state.halt_flag <=> result.action = "HaltAll"
<1> DEFINE peak == HighWater(st, snap)
           tracked == [st EXCEPT
              !.peak_pnl = peak,
              !.current_drawdown_pct =
                  IF DrawdownMeasured(peak) THEN DrawdownPct(peak, snap.net_pnl) ELSE @]
<1>1. CASE st.halt_flag
  BY <1>1 DEF Evaluate
<1>2. CASE ~st.halt_flag
  <2>1. /\ Evaluate(st, snap, ratio) = EvaluateRunning(st, snap, ratio)
        /\ st.halt_flag = FALSE
    BY <1>2 DEF Evaluate, RiskState
  <2>2. /\ tracked.operator_pause = st.operator_pause
        /\ tracked.halt_flag = st.halt_flag
        /\ DOMAIN tracked = DOMAIN st
    BY DEF RiskState
  <2>3. CASE DrawdownBreached(peak, snap.net_pnl)
    <3>1. Evaluate(st, snap, ratio)
             = [state |-> [tracked EXCEPT !.halt_flag = TRUE], action |-> "HaltAll"]
      BY <2>1, <2>3 DEF EvaluateRunning
    <3> HIDE DEF tracked
    <3>. QED
      BY <1>2, <2>2, <3>1 DEF RiskState
  <2>4. CASE ~DrawdownBreached(peak, snap.net_pnl)
    <3>1. Evaluate(st, snap, ratio) = EvaluateIlAndMargin(tracked, snap, ratio)
      BY <2>1, <2>4 DEF EvaluateRunning
    <3> HIDE DEF tracked
    <3>. QED
      BY <1>2, <2>1, <2>2, <3>1 DEF EvaluateIlAndMargin, RiskState
  <2>. QED
    BY <2>3, <2>4
<1>. QED
  BY <1>1, <1>2

(* With an IL limit, a tick that neither halts nor pauses leaves no IL pause *)
(* behind.                                                                   *)
LEMMA EvaluateUnpauses ==
    ASSUME NEW st \in RiskState, NEW snap \in PnlSnapshot, NEW ratio,
           MaxIlPct # NoLimit,
           Evaluate(st, snap, ratio).action \notin {"HaltAll", "PauseRebalancing"}
    PROVE  ~Evaluate(st, snap, ratio).state.pause_flag
<1> DEFINE peak == HighWater(st, snap)
           tracked == [st EXCEPT
              !.peak_pnl = peak,
              !.current_drawdown_pct =
                  IF DrawdownMeasured(peak) THEN DrawdownPct(peak, snap.net_pnl) ELSE @]
<1>1. Evaluate(st, snap, ratio) = EvaluateIlAndMargin(tracked, snap, ratio)
  BY DEF Evaluate, EvaluateRunning
<1>2. DOMAIN tracked = DOMAIN st
  OBVIOUS
<1> HIDE DEF tracked
<1>. QED
  BY <1>1, <1>2 DEF EvaluateIlAndMargin, RiskState

=============================================================================
