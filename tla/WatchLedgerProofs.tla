------------------------- MODULE WatchLedgerProofs -------------------------
(***************************************************************************)
(* What the watch command computes and writes down, for every word size,   *)
(* range, threshold and history of the chain: the shortcut of the 128-bit  *)
(* product is exact, the fees of a session are the earned ones, the stored *)
(* growth is ordered, a planned range holds its tick, and --live starts    *)
(* only after a decision was on record for the required days.              *)
(***************************************************************************)
EXTENDS WatchLedger, SharedLemmas

-----------------------------------------------------------------------------
(* Fee growth and accrued fees.                                             *)

(* The modulus of a u128.                                                   *)
LEMMA WordSquared == Word * Word \in Nat \ {0} /\ Word * Word >= Word
BY WordAssumption

(* wrapping_sub yields a u128, whatever its arguments.                      *)
LEMMA WrappingSubType ==
    ASSUME NEW a \in Int, NEW b \in Int
    PROVE  WrappingSub(a, b) \in U128 /\ WrappingSub(a, b) \in Nat
<1>1. a - b \in Int
  OBVIOUS
<1>2. (a - b) % (Word * Word) \in 0..((Word * Word) - 1)
  BY <1>1, WordSquared, Split
<1>. QED
  BY <1>2, WordSquared DEF WrappingSub, U128

(* A reading is at distance 0 from itself.                                  *)
LEMMA WrappingSubSame ==
    ASSUME NEW a \in Int
    PROVE  WrappingSub(a, a) = 0
<1>1. a - a = (Word * Word) * 0 + 0 /\ 0 \in 0..((Word * Word) - 1) /\ a - a \in Int
  BY WordSquared
<1>. QED
  BY <1>1, WordSquared, ModOf DEF WrappingSub

(* The distance from an earlier reading grows by what the pool gains, also   *)
(* when the counter wraps, as long as it does not go all the way around.     *)
LEMMA GrowthGrows ==
    ASSUME NEW p \in Int, NEW b \in Int, NEW g \in Nat, WrappingSub(p, b) + g < Word * Word
    PROVE  WrappingSub((p + g) % (Word * Word), b) = WrappingSub(p, b) + g
<1> DEFINE N == Word * Word
<1>0. N \in Nat \ {0}
  BY WordSquared
<1> HIDE DEF N
<1>1. PICK k \in Int, r \in 0..(N - 1) : p - b = N * k + r /\ (p - b) % N = r
  <2>1. p - b \in Int
    OBVIOUS
  <2>. QED
    BY <1>0, <2>1, Split
<1>2. PICK m \in Int, s \in 0..(N - 1) : p + g = N * m + s /\ (p + g) % N = s
  <2>1. p + g \in Int
    OBVIOUS
  <2>. QED
    BY <1>0, <2>1, Split
<1>3. N * (k - m) = N * k - N * m
  BY <1>0
<1>4. s - b = N * (k - m) + (r + g)
  BY <1>0, <1>1, <1>2, <1>3
<1>5. WrappingSub(p, b) = r
  BY <1>1 DEF WrappingSub, N
<1>6. r + g \in 0..(N - 1) /\ s - b \in Int /\ k - m \in Int
  <2>1. r + g < N
    BY <1>5 DEF N
  <2>. QED
    BY <1>0, <1>1, <1>2, <2>1
<1>7. (s - b) % N = r + g
  <2> DEFINE y == s - b
             j == k - m
             t == r + g
  <2>1. y \in Int /\ j \in Int /\ t \in 0..(N - 1) /\ y = N * j + t
    BY <1>4, <1>6
  <2> HIDE DEF y, j, t
  <2>2. y % N = t
    BY <1>0, <2>1, ModOf
  <2>. QED
    BY <2>2 DEF y, t
<1>. QED
  BY <1>2, <1>5, <1>7 DEF WrappingSub, N

(* The four half-word products of compute_accrued_fees without the highest   *)
(* one are the whole product shifted by a word, as far as a u64 shows it     *)
(* (fees.rs).                                                                *)
THEOREM HalfProductExact ==
    ASSUME NEW delta \in U128, NEW liquidity \in U128
    PROVE  AccruedMiddle(delta, liquidity) % Word = ((delta * liquidity) \div Word) % Word
<1>0. Word \in Nat \ {0} /\ delta \in Nat /\ liquidity \in Nat
  BY WordAssumption, WordSquared DEF U128
<1>1. PICK dh \in Int, dl \in 0..(Word - 1) :
          delta = Word * dh + dl /\ High(delta) = dh /\ Low(delta) = dl
  <2>1. delta \in Int
    BY <1>0
  <2>. QED
    BY <1>0, <2>1, Split DEF High, Low
<1>2. PICK lh \in Int, ll \in 0..(Word - 1) :
          liquidity = Word * lh + ll /\ High(liquidity) = lh /\ Low(liquidity) = ll
  <2>1. liquidity \in Int
    BY <1>0
  <2>. QED
    BY <1>0, <2>1, Split DEF High, Low
<1>3. PICK e \in Int, f \in 0..(Word - 1) :
          dl * ll = Word * e + f /\ (dl * ll) \div Word = e
  <2>1. dl * ll \in Int
    BY <1>0
  <2>. QED
    BY <1>0, <2>1, Split
<1> DEFINE middle == dh * ll + dl * lh + e
           whole == Word * (dh * lh) + middle
<1>4. middle \in Int /\ whole \in Int /\ dh * lh \in Int
  BY <1>0, <1>1, <1>2, <1>3
<1>5. delta * liquidity = Word * whole + f
  <2>1. delta * liquidity = (Word * dh) * (Word * lh) + (Word * dh) * ll
                                + dl * (Word * lh) + dl * ll
    BY <1>0, <1>1, <1>2
  <2>2. /\ (Word * dh) * (Word * lh) = Word * (Word * (dh * lh))
        /\ (Word * dh) * ll = Word * (dh * ll)
        /\ dl * (Word * lh) = Word * (dl * lh)
    BY <1>0
  <2>3. Word * whole = Word * (Word * (dh * lh)) + Word * (dh * ll) + Word * (dl * lh) + Word * e
    BY <1>0, <1>3
  <2>. QED
    BY <1>0, <1>3, <2>1, <2>2, <2>3
<1>6. AccruedMiddle(delta, liquidity) = middle % (Word * Word)
  BY <1>1, <1>2, <1>3 DEF AccruedMiddle
<1>7. delta * liquidity \in Int
  BY <1>0
<1> HIDE DEF whole
<1>8. (delta * liquidity) \div Word = whole
  BY <1>0, <1>4, <1>5, <1>7, ModOf
<1>9. whole % Word = middle % Word
  <2> HIDE DEF middle
  <2>1. (Word * (dh * lh) + middle) % Word = middle % Word
    BY <1>0, <1>4, ModPlus
  <2>. QED
    BY <2>1 DEF whole
<1>10. (middle % (Word * Word)) % Word = middle % Word
  BY <1>0, <1>4, ModMod
<1>. QED
  BY <1>6, <1>8, <1>9, <1>10

(* Whatever the readings, accrued fees are a u64. *)
LEMMA AccruedType ==
    ASSUME NEW global \in Int, NEW checkpoint \in Int, NEW liquidity \in U128
    PROVE  compute_accrued_fees(global, checkpoint, liquidity) \in Nat
<1>1. WrappingSub(global, checkpoint) \in U128
  BY WrappingSubType
<1> DEFINE product == (WrappingSub(global, checkpoint) * liquidity) \div Word
<1>2. compute_accrued_fees(global, checkpoint, liquidity) = product % Word
  BY <1>1, HalfProductExact DEF compute_accrued_fees
<1>3. product \in Int
  BY <1>1, WordAssumption, WordSquared DEF U128
<1> HIDE DEF product
<1>4. product % Word \in 0..(Word - 1)
  BY <1>3, WordAssumption, Split
<1>. QED
  BY <1>2, <1>4, WordAssumption

(* Fees that fit a u64 are counted to the last unit. *)
LEMMA AccruedExact ==
    ASSUME NEW global \in Int, NEW checkpoint \in Int, NEW liquidity \in U128,
           WrappingSub(global, checkpoint) * liquidity < Word * Word
    PROVE  compute_accrued_fees(global, checkpoint, liquidity)
               = (WrappingSub(global, checkpoint) * liquidity) \div Word
<1>1. WrappingSub(global, checkpoint) \in U128 /\ WrappingSub(global, checkpoint) \in Nat
  BY WrappingSubType
<1> DEFINE product == WrappingSub(global, checkpoint) * liquidity
<1>2. product \in Nat /\ product < Word * Word /\ Word \in Nat \ {0}
  BY <1>1, WordAssumption, WordSquared DEF U128
<1>3. compute_accrued_fees(global, checkpoint, liquidity) = (product \div Word) % Word
  BY <1>1, HalfProductExact DEF compute_accrued_fees
<1> HIDE DEF product
<1>4. PICK k \in Int, r \in 0..(Word - 1) : product = Word * k + r /\ product \div Word = k
  BY <1>2, Split
<1>5. k \in 0..(Word - 1)
  <2>1. CASE k >= Word
    <3>1. Word * k >= Word * Word
      BY <1>2, <2>1
    <3>. QED
      BY <1>2, <1>4, <3>1
  <2>2. CASE k <= -1
    <3>1. Word * k <= -Word
      BY <1>2, <2>2
    <3>. QED
      BY <1>2, <1>4, <3>1
  <2>. QED
    BY <1>2, <2>1, <2>2
<1>6. k % Word = k
  <2>1. k = Word * 0 + k
    BY <1>2
  <2>. QED
    BY <1>2, <1>5, <2>1, ModOf
<1>. QED
  BY <1>3, <1>4, <1>6 DEF product

-----------------------------------------------------------------------------
(* Types.                                                                   *)

Pools == [slot : Nat, growth : U128, tick : Int, earned : Nat]
Positions == [liq : U128, owed : Nat]

(* The watched range and its spacing are integers and stay what they are.   *)
LEMMA RangeStays ==
    ASSUME TypeOK
    PROVE  /\ Lower \in Int /\ Upper \in Int /\ TickSpacing \in Nat /\ Lower < Upper
           /\ [Next]_vars => UNCHANGED <<Lower, Upper, TickSpacing>>
<1>1. watched \in [lower : Int, upper : Int, spacing : Nat] /\ watched.lower < watched.upper
  BY LedgerAssumption DEF TypeOK
<1>2. ASSUME [Next]_vars
      PROVE  watched' = watched
  BY <1>2
  DEF Next, vars, Swap, CollectFees, ChangeLiquidity, Touch, DayPasses, ReadPosition, ReadPool,
      Stop, Notify, TickSkipped, Tick, chain
<1>. QED
  BY <1>1, <1>2 DEF Lower, Upper, TickSpacing

(* Types at the start.                                                      *)
LEMMA LedgerTypesStart ==
    ASSUME Init
    PROVE  TypeOK
<1>1. pool \in Pools /\ pos \in Positions /\ known \in Positions
  <2>1. Lower \in Int
    BY LedgerAssumption DEF Init, Lower
  <2>. QED
    BY <2>1, LedgerAssumption DEF Init, InitialPosition, Pools, Positions
<1>2. 0 \in 0..MaxSwaps /\ 0 \in 0..MaxTouches /\ 0 \in 0..MaxDay /\ 0 \in 0..MaxRuns /\ 0 \in U128
  BY LedgerAssumption, WordSquared DEF U128
<1>. QED
  BY <1>1, <1>2 DEF Init, TypeOK, Pools, Positions

(* A swap keeps the types.                                                  *)
LEMMA SwapTypes ==
    ASSUME TypeOK, Swap
    PROVE  TypeOK'
<1>1. PICK g \in Growths, t \in Ticks, slot \in {pool.slot, pool.slot + 1} :
        LET earning == InRange(pool.tick, Lower, Upper)
            gain == IF earning THEN g * pos.liq ELSE 0
        IN  /\ pool' = [slot |-> slot, tick |-> t,
                        growth |-> (pool.growth + g) % (Word * Word),
                        earned |-> pool.earned + gain]
            /\ unmoved' = unmoved + gain
            /\ untouched' = (untouched /\ (earning \/ g = 0))
  BY DEF Swap
<1> DEFINE gain == IF InRange(pool.tick, Lower, Upper) THEN g * pos.liq ELSE 0
<1>2. g \in Nat /\ pos.liq \in Nat /\ pool.growth \in Nat /\ pool.earned \in Nat /\ unmoved \in Nat
      /\ slot \in Nat /\ t \in Int
  BY LedgerAssumption, WordSquared DEF TypeOK, U128
<1>3. gain \in Nat
  BY <1>2
<1>4. (pool.growth + g) % (Word * Word) \in U128
  <2>1. pool.growth + g \in Int
    BY <1>2
  <2>. QED
    BY <2>1, WordSquared, Split DEF U128
<1> HIDE DEF gain
<1>5. pool' = [slot |-> slot, tick |-> t, growth |-> (pool.growth + g) % (Word * Word),
               earned |-> pool.earned + gain] /\ unmoved' = unmoved + gain
  BY <1>1 DEF gain
<1>6. pool' \in [slot : Nat, growth : U128, tick : Int, earned : Nat] /\ unmoved' \in Nat
  BY <1>2, <1>3, <1>4, <1>5
<1>7. untouched' \in BOOLEAN
  BY <1>1
<1>8. swaps' \in 0..MaxSwaps
  BY LedgerAssumption DEF Swap, TypeOK
<1>. QED
  BY <1>6, <1>7, <1>8 DEF TypeOK, Swap, session, database

(* Moving the fees never lowers fee_owed.                                   *)
LEMMA MovedNat ==
    ASSUME TypeOK
    PROVE  Moved \in Nat /\ Moved >= pos.owed
<1>1. unmoved \in Nat /\ pos.owed \in Nat /\ 0 <= unmoved
  BY DEF TypeOK
<1>2. unmoved \div Word \in Nat
  BY <1>1, WordAssumption, DivMono
<1>. QED
  BY <1>1, <1>2 DEF Moved

(* What the owner does to the position keeps the types.                     *)
LEMMA TouchTypes ==
    ASSUME TypeOK, CollectFees \/ ChangeLiquidity
    PROVE  TypeOK'
<1>1. PICK p \in [liq : U128, owed : Nat], out \in BOOLEAN : Touch(p, out)
  <2>1. CASE CollectFees
    <3>1. [pos EXCEPT !.owed = 0] \in [liq : U128, owed : Nat]
      BY DEF TypeOK
    <3>. QED
      BY <2>1, <3>1 DEF CollectFees
  <2>2. CASE ChangeLiquidity
    <3>1. PICK l \in Liquidities : Touch([liq |-> l, owed |-> Moved], l < pos.liq)
      BY <2>2 DEF ChangeLiquidity
    <3>2. [liq |-> l, owed |-> Moved] \in [liq : U128, owed : Nat]
      BY MovedNat, LedgerAssumption
    <3>3. (l < pos.liq) \in BOOLEAN
      OBVIOUS
    <3>. QED
      BY <3>1, <3>2, <3>3
  <2>. QED
    BY <2>1, <2>2
<1>2. withdrawn' \in BOOLEAN /\ untouched' \in BOOLEAN
  BY <1>1 DEF Touch
<1>3. touches' \in 0..MaxTouches /\ pos' = p /\ unmoved' = 0
  BY <1>1, LedgerAssumption DEF Touch, TypeOK
<1>. QED
  BY <1>1, <1>2, <1>3 DEF TypeOK, Touch, session, database

(* So do the steps of the process, and a tick that is skipped.              *)
LEMMA ProcessTypes ==
    ASSUME TypeOK,
           DayPasses \/ ReadPosition \/ ReadPool \/ Stop \/ Notify \/ TickSkipped \/ UNCHANGED vars
    PROVE  TypeOK'
<1>1. CASE DayPasses
  BY <1>1, LedgerAssumption DEF DayPasses, TypeOK, chain, session, database, marks
<1>2. CASE ReadPosition
  <2>1. runs' \in 0..MaxRuns /\ known' \in [liq : U128, owed : Nat]
    BY <1>2, LedgerAssumption DEF ReadPosition, TypeOK
  <2>2. {untouched', withdrawn', refetched'} \subseteq BOOLEAN
    BY <1>2 DEF ReadPosition, TypeOK
  <2>. QED
    BY <1>2, <2>1, <2>2 DEF ReadPosition, TypeOK, chain, database
<1>3. CASE ReadPool
  BY <1>3 DEF ReadPool, TypeOK, database, marks
<1>4. CASE Stop
  BY <1>4 DEF Stop, TypeOK, chain
<1>5. CASE Notify
  BY <1>5 DEF Notify, TypeOK, chain, marks
<1>6. CASE TickSkipped
  BY <1>6 DEF TickSkipped, TypeOK, chain, database, marks, PositionsRead, PositionAfter
<1>7. CASE UNCHANGED vars
  BY <1>7 DEF vars, TypeOK, chain, session, database, marks
<1>. QED
  BY <1>1, <1>2, <1>3, <1>4, <1>5, <1>6, <1>7

(* What a tick works on. *)
LEMMA TickReads ==
    ASSUME TypeOK, Tick
    PROVE  \E p \in PositionsRead, payload \in BOOLEAN :
              LET q == PoolRead(payload)
              IN  /\ p \in Positions /\ q \in Pools /\ (p = pos \/ p = known)
                  /\ payload => q = note
                  /\ known' = p /\ fees' = SessionFees(p, q)
                  /\ due' = IF untouched THEN pos.owed + q.earned \div Word ELSE None
                  /\ refetched' = (refetched \/ ~payload)
                  /\ \E present \in BOOLEAN :
                        rows' \in {rows, WithTick(KeyOf(note.slot, present), q.growth)}
                  /\ \/ UNCHANGED <<earliest, planned, decided>>
                     \/ \E il \in Losses : Decide(q, fees' + il)
<1>1. PICK p \in PositionsRead, payload \in BOOLEAN :
          LET q == PoolRead(payload)
          IN  /\ known' = p
              /\ fees' = SessionFees(p, q)
              /\ due' = IF untouched THEN pos.owed + q.earned \div Word ELSE None
              /\ refetched' = (refetched \/ ~payload)
              /\ rows' \in {rows} \cup
                     {WithTick(KeyOf(note.slot, present), q.growth) : present \in BOOLEAN}
              /\ \/ UNCHANGED <<earliest, planned, decided>>
                 \/ \E il \in Losses : Decide(q, fees' + il)
  BY DEF Tick
<1>2. p = pos \/ p = known
  BY DEF PositionsRead, PositionAfter
<1>3. p \in Positions
  BY <1>2 DEF TypeOK, Positions
<1>4. PoolRead(payload) \in Pools /\ (payload => PoolRead(payload) = note)
  BY DEF Tick, TypeOK, PoolRead, Pools
<1>. QED
  BY <1>1, <1>2, <1>3, <1>4

(* What a decision may do to the row and to the history.                    *)
LEMMA DecideTypes ==
    ASSUME TypeOK, NEW q, NEW net, Decide(q, net)
    PROVE  /\ earliest' \in 0..MaxDay \cup {None} /\ decided' \in 0..MaxDay \cup {None}
           /\ earliest' = earliest \/ (earliest' = RowDated /\ decided' # None)
           /\ decided' = decided \/ (decided = None /\ decided' = day)
BY LedgerAssumption DEF TypeOK, Decide, ApprovalSkipRow, ShadowRow, RowDated

(* A tick keeps the types: its fees are a natural number.                   *)
LEMMA TickTypes ==
    ASSUME TypeOK, Tick
    PROVE  TypeOK'
<1>1. PICK p \in PositionsRead, payload \in BOOLEAN :
              LET q == PoolRead(payload)
              IN  /\ p \in Positions /\ q \in Pools /\ (p = pos \/ p = known)
                  /\ payload => q = note
                  /\ known' = p /\ fees' = SessionFees(p, q)
                  /\ due' = IF untouched THEN pos.owed + q.earned \div Word ELSE None
                  /\ refetched' = (refetched \/ ~payload)
                  /\ \E present \in BOOLEAN :
                        rows' \in {rows, WithTick(KeyOf(note.slot, present), q.growth)}
                  /\ \/ UNCHANGED <<earliest, planned, decided>>
                     \/ \E il \in Losses : Decide(q, fees' + il)
  BY TickReads
<1> DEFINE q == PoolRead(payload)
<1>2. p \in [liq : U128, owed : Nat] /\ q \in [slot : Nat, growth : U128, tick : Int, earned : Nat]
  BY <1>1 DEF Positions, Pools
<1> HIDE DEF q
<1>3. fees' \in Nat
  <2>1. q.growth \in Int /\ baseline \in Int /\ p.liq \in U128 /\ p.owed \in Nat
    BY <1>2, WordSquared DEF TypeOK, U128
  <2>2. compute_accrued_fees(q.growth, baseline, p.liq) \in Nat
    BY <2>1, AccruedType
  <2>. QED
    BY <1>1, <2>1, <2>2 DEF SessionFees, q
<1>4. due' = None \/ due' \in Nat
  <2>1. q.earned \in Nat /\ pos.owed \in Nat /\ 0 <= q.earned
    BY <1>2 DEF TypeOK
  <2>2. q.earned \div Word \in Nat
    BY <2>1, WordAssumption, DivMono
  <2>. QED
    BY <1>1, <2>1, <2>2 DEF q
<1>5. \A s \in DOMAIN rows' : s \in Nat /\ rows'[s] \in U128
  <2>1. note.slot \in Nat /\ q.growth \in U128 /\ \A s \in DOMAIN rows : s \in Nat /\ rows[s] \in U128
    BY <1>2 DEF TypeOK, Tick
  <2>2. CASE rows' = rows
    BY <2>1, <2>2
  <2>3. ASSUME NEW present \in BOOLEAN, rows' = WithTick(KeyOf(note.slot, present), q.growth)
        PROVE  \A s \in DOMAIN rows' : s \in Nat /\ rows'[s] \in U128
    BY <2>1, <2>3 DEF WithTick, KeyOf
  <2>. QED
    BY <1>1, <2>2, <2>3 DEF q
<1>6. earliest' \in 0..MaxDay \cup {None} /\ decided' \in 0..MaxDay \cup {None}
  <2>1. CASE UNCHANGED <<earliest, planned, decided>>
    BY <2>1 DEF TypeOK
  <2>2. ASSUME NEW il \in Losses, Decide(q, fees' + il)
        PROVE  earliest' \in 0..MaxDay \cup {None} /\ decided' \in 0..MaxDay \cup {None}
    BY <2>2, DecideTypes
  <2>. QED
    BY <1>1, <2>1, <2>2 DEF q
<1>7. refetched' \in BOOLEAN
  BY <1>1
<1>8. known' \in [liq : U128, owed : Nat] /\ note' = None
  BY <1>1, <1>2 DEF Tick
<1>. QED
  BY <1>3, <1>4, <1>5, <1>6, <1>7, <1>8 DEF TypeOK, Tick, chain

(* Every step keeps the types.                                              *)
LEMMA LedgerTypes ==
    ASSUME TypeOK, [Next]_vars
    PROVE  TypeOK'
BY SwapTypes, TouchTypes, ProcessTypes, TickTypes DEF Next

-----------------------------------------------------------------------------
(* --live and the planned range.                                            *)

(* A shadow row is on record only since a decision. *)
GateInv ==
    earliest # None => /\ decided # None
                       /\ decided <= earliest /\ earliest <= day

(* Every step keeps the record of the decision.                             *)
LEMMA GateStep ==
    ASSUME TypeOK, GateInv, [Next]_vars
    PROVE  GateInv'
<1>1. CASE Tick
  <2>1. day' = day
    BY <1>1 DEF Tick
  <2>2. \/ UNCHANGED <<earliest, planned, decided>>
        \/ \E q, net : Decide(q, net)
    BY <1>1 DEF Tick
  <2>3. CASE UNCHANGED <<earliest, planned, decided>>
    BY <2>1, <2>3 DEF GateInv
  <2>4. ASSUME NEW q, NEW net, Decide(q, net)
        PROVE  GateInv'
    <3>1. /\ earliest' = earliest \/ (earliest' = RowDated /\ decided' # None)
          /\ decided' = decided \/ (decided = None /\ decided' = day)
      BY <2>4, DecideTypes
    <3>. QED
      BY <2>1, <3>1, LedgerAssumption DEF GateInv, TypeOK, RowDated
  <2>. QED
    BY <2>2, <2>3, <2>4
<1>2. CASE (Next /\ ~Tick) \/ UNCHANGED vars
  <2>1. UNCHANGED <<earliest, decided>> /\ day' \in {day, day + 1}
    BY <1>2
    DEF Next, vars, Swap, CollectFees, ChangeLiquidity, Touch, DayPasses, ReadPosition, ReadPool,
        Stop, Notify, TickSkipped, chain, session, database, marks
  <2>. QED
    BY <2>1, LedgerAssumption DEF GateInv, TypeOK
<1>. QED
  BY <1>1, <1>2

(* A live session starts through ReadPool, and so through the gate.         *)
LEMMA LiveStep ==
    ASSUME TypeOK, GateInv, [Next]_vars, mode # "live", mode' = "live"
    PROVE  decided # None /\ day - decided >= RequiredDays
<1>1. ReadPool
  BY DEF Next, vars, Swap, CollectFees, ChangeLiquidity, Touch, DayPasses, ReadPosition,
         Stop, Notify, TickSkipped, Tick, chain, session, database, marks
<1>2. GatePasses
  BY <1>1 DEF ReadPool
<1>. QED
  BY <1>2, LedgerAssumption DEF GatePasses, GateInv, TypeOK

(* Flooring to the grid loses less than one step of it. *)
LEMMA AlignFloors ==
    ASSUME NEW tick \in Int, NEW spacing \in Nat \ {0}
    PROVE  /\ Align(tick, spacing) \in Int
           /\ Align(tick, spacing) <= tick /\ tick < Align(tick, spacing) + spacing
           /\ Align(tick, spacing) % spacing = 0
<1>1. PICK k \in Int, r \in 0..(spacing - 1) : tick = spacing * k + r /\ tick % spacing = r
  BY Split
<1>2. Align(tick, spacing) = tick - r
  BY <1>1 DEF Align
<1>3. tick - r = spacing * k + 0 /\ 0 \in 0..(spacing - 1) /\ tick - r \in Int
  BY <1>1
<1>4. (tick - r) % spacing = 0
  <2> DEFINE y == tick - r
  <2>1. y \in Int /\ y = spacing * k + 0 /\ 0 \in 0..(spacing - 1)
    BY <1>3
  <2> HIDE DEF y
  <2>2. y % spacing = 0
    BY <2>1, ModOf
  <2>. QED
    BY <2>2 DEF y
<1>. QED
  BY <1>1, <1>2, <1>4

(* The sum of two multiples is one, and so is the difference.               *)
LEMMA OnGrid ==
    ASSUME NEW N \in Nat \ {0}, NEW x \in Int, NEW y \in Int, x % N = 0, y % N = 0
    PROVE  (x + y) % N = 0 /\ \E d \in Int : x - y = N * d
<1>1. PICK j \in Int : x = N * j
  BY Split
<1>2. PICK k \in Int : y = N * k
  BY Split
<1>3. /\ j + k \in Int /\ j - k \in Int /\ x + y \in Int /\ 0 \in 0..(N - 1)
      /\ x + y = N * (j + k) + 0 /\ x - y = N * (j - k)
  BY <1>1, <1>2
<1>4. (x + y) % N = 0
  <2> DEFINE z == x + y
             m == j + k
  <2>1. z \in Int /\ m \in Int /\ 0 \in 0..(N - 1) /\ z = N * m + 0
    BY <1>3
  <2> HIDE DEF z, m
  <2>2. z % N = 0
    BY <2>1, ModOf
  <2>. QED
    BY <2>2 DEF z
<1>. QED
  BY <1>3, <1>4

(* Between one multiple and the next but one there is one. *)
LEMMA NextOnGrid ==
    ASSUME NEW N \in Nat \ {0}, NEW x \in Int, NEW y \in Int, x % N = 0, y % N = 0,
           x < y, y < x + 2 * N
    PROVE  y = x + N
<1>1. PICK d \in Int : y - x = N * d
  BY OnGrid
<1>2. CASE d <= 0
  <2>1. N * d <= 0
    BY <1>2
  <2>. QED
    BY <1>1, <2>1
<1>3. CASE d >= 2
  <2>1. N * d >= 2 * N
    BY <1>3
  <2>. QED
    BY <1>1, <2>1
<1>4. CASE d = 1
  BY <1>1, <1>4
<1>. QED
  BY <1>2, <1>3, <1>4

(* Where a planned range lies, how wide it is, and how far from the tick it  *)
(* was planned for its edges are.                                            *)
WellPlaced(r, tick, oldWidth, spacing, width) ==
    /\ r.lower \in Int /\ r.upper \in Int
    /\ r.lower <= tick /\ tick < r.upper
    /\ 2 * tick - (r.lower + r.upper) \in -1..(2 * spacing - 2)
    /\ r.lower % spacing = 0
    /\ width % spacing = 0 => r.upper % spacing = 0
    /\ \/ r.upper - r.lower = width
       \/ width < 2 * spacing /\ r.upper - r.lower = 2 * spacing
    /\ \A edge \in Nat : oldWidth >= 2 * (edge + spacing) =>
           tick - r.lower > edge /\ r.upper - tick > edge

(* The plan makes such a range. *)
LEMMA PlanHolds ==
    ASSUME NEW tick \in Int, NEW lower \in Int, NEW upper \in Int, lower < upper,
           NEW tickSpacing \in Nat, NEW r, r = build_rebalance_plan(tick, lower, upper, tickSpacing),
           NEW spacing, spacing = Wider(tickSpacing, 1),
           NEW width, width = Wider(upper - lower, spacing)
    PROVE  WellPlaced(r, tick, upper - lower, spacing, width)
<1>1. spacing \in Nat \ {0}
  BY DEF Wider
<1> DEFINE half == width \div 2
           newLower == Align(tick - half, spacing)
           grid == Align(tick, spacing)
<1>2. /\ width \in Nat /\ width >= spacing /\ width >= upper - lower
      /\ half \in Nat /\ width - half \in Nat /\ half <= width - half /\ width - half <= half + 1
  BY <1>1 DEF Wider
<1>3. /\ newLower \in Int /\ newLower <= tick - half /\ tick - half < newLower + spacing
      /\ newLower % spacing = 0
  <2>1. tick - half \in Int
    BY <1>2
  <2>. QED
    BY <1>1, <2>1, AlignFloors
<1>4. grid \in Int /\ grid <= tick /\ tick < grid + spacing /\ grid % spacing = 0
  BY <1>1, AlignFloors
<1>5. /\ r.lower = IF newLower > tick THEN grid ELSE newLower
      /\ r.upper = IF newLower + width <= tick THEN grid + spacing ELSE newLower + width
  BY DEF build_rebalance_plan, CentredLower
<1>6. ASSUME NEW edge \in Nat, upper - lower >= 2 * (edge + spacing)
      PROVE  half >= edge + spacing
  <2>1. width >= 2 * (edge + spacing)
    BY <1>1, <1>2, <1>6
  <2>. QED
    BY <1>1, <1>2, <2>1 DEF half
<1> HIDE DEF half, newLower, grid
<1>7. r.lower = newLower
  BY <1>2, <1>3, <1>5
<1>8. CASE newLower + width > tick
  <2>1. r.upper = newLower + width
    BY <1>2, <1>3, <1>5, <1>8
  <2>2. width % spacing = 0 => r.upper % spacing = 0
    BY <1>1, <1>2, <1>3, <2>1, OnGrid
  <2>3. ASSUME NEW edge \in Nat, upper - lower >= 2 * (edge + spacing)
        PROVE  tick - r.lower > edge /\ r.upper - tick > edge
    BY <1>1, <1>2, <1>3, <1>6, <1>7, <2>1, <2>3
  <2>. QED
    BY <1>1, <1>2, <1>3, <1>7, <1>8, <2>1, <2>2, <2>3 DEF WellPlaced
<1>9. CASE newLower + width <= tick
  <2>1. r.upper = grid + spacing
    BY <1>5, <1>9
  <2>2. half < spacing /\ width < 2 * spacing
    BY <1>1, <1>2, <1>3, <1>9
  <2>3. newLower < grid /\ grid < newLower + 2 * spacing
    BY <1>1, <1>2, <1>3, <1>4, <1>9, <2>2
  <2>4. grid = newLower + spacing
    BY <1>1, <1>3, <1>4, <2>3, NextOnGrid
  <2>5. r.upper % spacing = 0
    <3>1. spacing \in Int /\ spacing = spacing * 1 + 0 /\ 0 \in 0..(spacing - 1)
      BY <1>1
    <3>2. spacing % spacing = 0
      BY <1>1, <3>1, ModOf
    <3>3. (grid + spacing) % spacing = 0
      BY <1>1, <1>4, <3>1, <3>2, OnGrid
    <3>. QED
      BY <2>1, <3>3
  <2>6. ~\E edge \in Nat : upper - lower >= 2 * (edge + spacing)
    BY <1>1, <1>2, <1>6, <2>2
  <2>7. /\ r.lower \in Int /\ r.upper \in Int
        /\ r.lower <= tick /\ tick < r.upper
        /\ 2 * tick - (r.lower + r.upper) \in -1..(2 * spacing - 2)
        /\ r.upper - r.lower = 2 * spacing
    BY <1>1, <1>3, <1>4, <1>7, <2>1, <2>4
  <2>. QED
    BY <1>3, <1>7, <2>2, <2>5, <2>6, <2>7 DEF WellPlaced
<1>. QED
  BY <1>2, <1>3, <1>8, <1>9

PlanInv ==
    planned # None =>
        /\ planned.tick \in Int
        /\ planned.range = build_rebalance_plan(planned.tick, Lower, Upper, TickSpacing)

(* A planned range is always that of the plan, at an integer tick.          *)
LEMMA PlanStep ==
    ASSUME TypeOK, PlanInv, [Next]_vars
    PROVE  PlanInv'
<1>1. CASE Tick
  <2>1. PICK p \in PositionsRead, payload \in BOOLEAN :
            /\ PoolRead(payload) \in Pools
            /\ \/ UNCHANGED <<earliest, planned, decided>>
               \/ \E il \in Losses : Decide(PoolRead(payload), fees' + il)
    BY <1>1, TickReads
  <2> DEFINE q == PoolRead(payload)
  <2>2. q.tick \in Int
    BY <2>1, LedgerAssumption DEF Pools
  <2> HIDE DEF q
  <2>3. planned' = planned \/ planned' = [tick |-> q.tick,
                   range |-> build_rebalance_plan(q.tick, Lower, Upper, TickSpacing)]
    <3>1. ASSUME NEW net, Decide(q, net)
          PROVE  planned' = planned \/ planned' = [tick |-> q.tick,
                   range |-> build_rebalance_plan(q.tick, Lower, Upper, TickSpacing)]
      BY <3>1 DEF Decide, ShadowRow, ApprovalSkipRow
    <3>. QED
      BY <2>1, <3>1 DEF q
  <2>. QED
    BY <2>2, <2>3, RangeStays DEF PlanInv
<1>2. CASE (Next /\ ~Tick) \/ UNCHANGED vars
  <2>1. planned' \in {None, planned}
    BY <1>2
    DEF Next, vars, Swap, CollectFees, ChangeLiquidity, Touch, DayPasses, ReadPosition, ReadPool,
        Stop, Notify, TickSkipped, chain, session, database, marks
  <2>. QED
    BY <2>1, RangeStays DEF PlanInv
<1>. QED
  BY <1>1, <1>2

(* What PlanHolds says of the plan is the property.                         *)
LEMMA PlanIsSound ==
    ASSUME TypeOK, PlanInv
    PROVE  PlannedRangeSound
<1> DEFINE r == planned.range
           spacing == Wider(TickSpacing, 1)
           width == Wider(Upper - Lower, spacing)
<1> SUFFICES ASSUME planned # None
             PROVE  /\ r.lower <= planned.tick /\ planned.tick < r.upper
                    /\ 2 * planned.tick - (r.lower + r.upper) \in -1..(2 * spacing - 2)
                    /\ r.lower % spacing = 0
                    /\ width % spacing = 0 => r.upper % spacing = 0
                    /\ \/ r.upper - r.lower = width
                       \/ width < 2 * spacing /\ r.upper - r.lower = 2 * spacing
                    /\ Upper - Lower >= 2 * (NearEdge + spacing) =>
                           \A net \in {MinNetPnl - 1, MinNetPnl} :
                               ~should_rebalance(planned.tick, r.lower, r.upper, net,
                                                 DefaultConfig)
  BY DEF PlannedRangeSound
<1>1. /\ planned.tick \in Int
      /\ r = build_rebalance_plan(planned.tick, Lower, Upper, TickSpacing)
  BY DEF PlanInv
<1>2. WellPlaced(r, planned.tick, Upper - Lower, spacing, width)
  BY <1>1, RangeStays, PlanHolds
<1>3. ASSUME Upper - Lower >= 2 * (NearEdge + spacing), NEW net
      PROVE  ~should_rebalance(planned.tick, r.lower, r.upper, net, DefaultConfig)
  <2>1. planned.tick - r.lower > NearEdge /\ r.upper - planned.tick > NearEdge
    BY <1>2, <1>3, LedgerAssumption DEF WellPlaced
  <2> HIDE DEF r, spacing, width
  <2>. QED
    BY <1>1, <1>2, <2>1, LedgerAssumption
    DEF should_rebalance, DefaultConfig, InRange, NearAnEdge, WellPlaced
<1>. QED
  BY <1>2, <1>3 DEF WellPlaced

-----------------------------------------------------------------------------
(* The growth of the pool, the fees of the session and the stored rows.     *)
(* They are right as long as neither the growth nor the fees of the         *)
(* position go all the way around, for which G and L bound a swap and the   *)
(* liquidity.                                                               *)

Fits(G, L) ==
    /\ \A g \in Growths : g <= G
    /\ \A l \in Liquidities : l <= L
    /\ MaxSwaps * G < Word * Word
    /\ (MaxSwaps * G) * L < Word * Word

Serving == mode \in {"shadow", "live"}

(* Growth since the baseline of the session, and since the beginning. *)
Paid(q) == WrappingSub(q.growth, baseline)
Since(q) == WrappingSub(q.growth, FirstGrowth)

(* The pool never goes all the way around, and a notification is never ahead *)
(* of the chain.                                                             *)
GrowthInv(G) ==
    /\ pos.liq \in Liquidities /\ known.liq \in Liquidities
    /\ Since(pool) <= swaps * G
    /\ Serving => Paid(pool) <= swaps * G
    /\ note # None => /\ Serving /\ note.slot <= pool.slot
                      /\ Paid(note) <= Paid(pool) /\ Since(note) <= Since(pool)

(* Distances of readings are natural numbers.                               *)
LEMMA ReadingTypes ==
    ASSUME TypeOK
    PROVE  /\ Paid(pool) \in Nat /\ Since(pool) \in Nat
           /\ note # None => Paid(note) \in Nat /\ Since(note) \in Nat
<1>1. /\ pool.growth \in Int /\ baseline \in Int /\ FirstGrowth \in Int
      /\ note # None => note.growth \in Int
  BY LedgerAssumption, WordSquared DEF TypeOK, U128
<1>. QED
  BY <1>1, WrappingSubType DEF Paid, Since

(* A swap adds what it gained to every reading of the pool. *)
LEMMA SwapGrows ==
    ASSUME NEW G \in Nat, NEW L \in Nat, Fits(G, L), TypeOK, GrowthInv(G), Swap
    PROVE  \E g \in Growths :
              /\ g \in Nat
              /\ Since(pool)' = Since(pool) + g /\ Since(pool)' <= swaps' * G
              /\ Serving => Paid(pool)' = Paid(pool) + g /\ Paid(pool)' <= swaps' * G
              /\ pool'.slot >= pool.slot /\ swaps' \in Nat /\ swaps' <= MaxSwaps
              /\ untouched' => untouched /\ pool'.earned = pool.earned + g * pos.liq
<1>1. PICK g \in Growths, t \in Ticks, slot \in {pool.slot, pool.slot + 1} :
        LET earning == InRange(pool.tick, Lower, Upper)
            gain == IF earning THEN g * pos.liq ELSE 0
        IN  /\ pool' = [slot |-> slot, tick |-> t,
                        growth |-> (pool.growth + g) % (Word * Word),
                        earned |-> pool.earned + gain]
            /\ unmoved' = unmoved + gain
            /\ untouched' = (untouched /\ (earning \/ g = 0))
  BY DEF Swap
<1>2. /\ swaps' = swaps + 1 /\ swaps' \in Nat /\ swaps \in Nat /\ swaps' <= MaxSwaps
      /\ MaxSwaps \in Nat /\ g \in Nat /\ g <= G
      /\ pool.growth \in Int /\ baseline \in Int /\ FirstGrowth \in Int /\ pool.slot \in Nat
      /\ baseline' = baseline
  BY LedgerAssumption, WordSquared DEF Swap, TypeOK, U128, Fits, session
<1>3. swaps' * G = swaps * G + G /\ swaps' * G <= MaxSwaps * G
  BY <1>2
<1>4. swaps * G \in Nat /\ swaps' * G < Word * Word /\ Word * Word \in Nat
  BY <1>2, <1>3, WordSquared DEF Fits
<1>5. ASSUME NEW b \in Int, WrappingSub(pool.growth, b) <= swaps * G
      PROVE  /\ WrappingSub(pool'.growth, b) = WrappingSub(pool.growth, b) + g
             /\ WrappingSub(pool'.growth, b) <= swaps' * G
  <2>1. WrappingSub(pool.growth, b) \in Nat
    BY <1>2, WrappingSubType
  <2>2. WrappingSub(pool.growth, b) + g <= swaps' * G
    BY <1>2, <1>3, <1>4, <1>5, <2>1
  <2>3. WrappingSub(pool.growth, b) + g < Word * Word
    BY <1>2, <1>3, <1>4, <2>1, <2>2
  <2>4. WrappingSub((pool.growth + g) % (Word * Word), b) = WrappingSub(pool.growth, b) + g
    BY <1>2, <2>3, GrowthGrows
  <2>. QED
    BY <1>1, <2>2, <2>4
<1>6. Since(pool)' = Since(pool) + g /\ Since(pool)' <= swaps' * G
  BY <1>2, <1>5 DEF Since, GrowthInv
<1>7. Serving => Paid(pool)' = Paid(pool) + g /\ Paid(pool)' <= swaps' * G
  BY <1>2, <1>5 DEF Paid, GrowthInv
<1>8. pool'.slot >= pool.slot
  BY <1>1, <1>2
<1>9. untouched' => untouched /\ pool'.earned = pool.earned + g * pos.liq
  <2>1. pool.earned \in Nat /\ pos.liq \in Nat
    BY WordSquared DEF TypeOK, U128
  <2>2. CASE InRange(pool.tick, Lower, Upper)
    BY <1>1, <2>2
  <2>3. CASE ~InRange(pool.tick, Lower, Upper)
    <3>1. pool'.earned = pool.earned
      BY <1>1, <2>1, <2>3
    <3>2. untouched' => untouched /\ g = 0
      BY <1>1, <2>3
    <3>3. g = 0 => pool.earned + g * pos.liq = pool.earned
      BY <2>1
    <3>. QED
      BY <3>1, <3>2, <3>3
  <2>. QED
    BY <2>2, <2>3
<1>. QED
  BY <1>2, <1>6, <1>7, <1>8, <1>9

(* Every step keeps pool and notification in order.                         *)
LEMMA GrowthStep ==
    ASSUME NEW G \in Nat, NEW L \in Nat, Fits(G, L), TypeOK, GrowthInv(G), [Next]_vars
    PROVE  GrowthInv(G)'
<1>1. CASE Swap
  <2>1. PICK g \in Growths :
              /\ g \in Nat
              /\ Since(pool)' = Since(pool) + g /\ Since(pool)' <= swaps' * G
              /\ Serving => Paid(pool)' = Paid(pool) + g /\ Paid(pool)' <= swaps' * G
              /\ pool'.slot >= pool.slot
    BY <1>1, SwapGrows
  <2>2. /\ pos' = pos /\ known' = known /\ note' = note /\ mode' = mode
        /\ baseline' = baseline
    BY <1>1 DEF Swap, session
  <2>3. /\ Paid(pool) \in Nat /\ Since(pool) \in Nat /\ pool.slot \in Nat
        /\ TypeOK' /\ pool'.slot \in Nat
        /\ note # None => Paid(note) \in Nat /\ Since(note) \in Nat /\ note.slot \in Nat
    BY <1>1, SwapTypes, ReadingTypes DEF TypeOK
  <2>4. note # None => Paid(note)' = Paid(note) /\ Since(note)' = Since(note)
    BY <2>2 DEF Paid, Since
  <2>5. note # None => /\ Serving /\ note.slot <= pool.slot
                      /\ Paid(note) <= Paid(pool) /\ Since(note) <= Since(pool)
    BY DEF GrowthInv
  <2>6. (Serving => Serving') /\ (Serving' => Serving)
    BY <2>2 DEF Serving
  <2>. QED
    BY <2>1, <2>2, <2>3, <2>4, <2>5, <2>6 DEF GrowthInv
<1>2. CASE CollectFees \/ ChangeLiquidity
  <2>1. UNCHANGED <<pool, swaps, mode, baseline, known, note>> /\ pos'.liq \in Liquidities
    BY <1>2 DEF CollectFees, ChangeLiquidity, Touch, session, GrowthInv, TypeOK
  <2>. QED
    BY <2>1 DEF GrowthInv, Serving, Paid, Since
<1>3. CASE ReadPosition
  <2>1. UNCHANGED <<pool, pos, swaps, baseline, note>> /\ known' = pos /\ mode' = "starting"
        /\ mode = "down"
    BY <1>3 DEF ReadPosition, chain
  <2>. QED
    BY <2>1 DEF GrowthInv, Serving, Since
<1>4. CASE ReadPool
  <2>1. /\ UNCHANGED <<pos, swaps, known, note>> /\ baseline' = pool.growth
        /\ pool' = [pool EXCEPT !.earned = 0] /\ mode = "starting"
    BY <1>4 DEF ReadPool
  <2>2. pool'.growth = pool.growth /\ pool'.slot = pool.slot /\ pool.growth \in Int
    BY <2>1, WordSquared DEF TypeOK, U128
  <2>3. Paid(pool)' = 0
    BY <2>1, <2>2, WrappingSubSame DEF Paid
  <2>4. swaps \in Nat /\ 0 <= swaps * G
    BY DEF TypeOK
  <2>. QED
    BY <2>1, <2>2, <2>3, <2>4 DEF GrowthInv, Since, Serving
<1>5. CASE Stop
  <2>1. UNCHANGED <<pool, pos, swaps, baseline, known>> /\ note' = None /\ mode' = "down"
    BY <1>5 DEF Stop, chain
  <2>. QED
    BY <2>1 DEF GrowthInv, Serving, Since
<1>8. CASE DayPasses \/ UNCHANGED vars
  <2>1. UNCHANGED <<pool, pos, swaps, mode, baseline, known, note>>
    BY <1>8 DEF DayPasses, vars, chain, session
  <2>. QED
    BY <2>1 DEF GrowthInv, Serving, Paid, Since
<1>6. CASE Notify
  <2>1. UNCHANGED <<pool, pos, swaps, mode, baseline, known>> /\ note' = pool /\ Serving
    BY <1>6 DEF Notify, chain, Serving
  <2>2. Paid(pool) \in Nat /\ Since(pool) \in Nat /\ pool.slot \in Nat
    BY ReadingTypes DEF TypeOK
  <2>. QED
    BY <2>1, <2>2 DEF GrowthInv, Serving, Paid, Since
<1>7. CASE TickSkipped \/ Tick
  <2>1. UNCHANGED <<pool, pos, swaps, mode, baseline>> /\ note' = None /\ known' \in {pos, known}
    BY <1>7 DEF TickSkipped, Tick, chain, PositionsRead, PositionAfter
  <2>. QED
    BY <2>1 DEF GrowthInv, Serving, Paid, Since
<1>. QED
  BY <1>1, <1>2, <1>3, <1>4, <1>5, <1>6, <1>7, <1>8 DEF Next

-----------------------------------------------------------------------------
(* The stored rows.                                                         *)

(* Without a refetch every row is a notification taken in the order of the   *)
(* chain: none is ahead of the pool, nor of the notification that waits.     *)
RowsInv ==
    ~refetched =>
        /\ \A s \in DOMAIN rows :
              /\ s <= pool.slot /\ WrappingSub(rows[s], FirstGrowth) <= Since(pool)
              /\ note # None => /\ s <= note.slot
                                /\ WrappingSub(rows[s], FirstGrowth) <= Since(note)
        /\ StoredTicksOrdered

(* A stored row is a reading.                                               *)
LEMMA RowTypes ==
    ASSUME TypeOK, NEW s \in DOMAIN rows
    PROVE  s \in Nat /\ WrappingSub(rows[s], FirstGrowth) \in Nat
<1>1. s \in Nat /\ rows[s] \in Int /\ FirstGrowth \in Int
  BY LedgerAssumption, WordSquared DEF TypeOK, U128
<1>. QED
  BY <1>1, WrappingSubType

(* Every step keeps the stored rows behind the pool.                        *)
LEMMA RowsStep ==
    ASSUME NEW G \in Nat, NEW L \in Nat, Fits(G, L), TypeOK, GrowthInv(G), RowsInv, [Next]_vars
    PROVE  RowsInv'
<1>0. /\ Paid(pool) \in Nat /\ Since(pool) \in Nat /\ pool.slot \in Nat
      /\ note # None => Since(note) \in Nat /\ note.slot \in Nat
  BY ReadingTypes DEF TypeOK
<1>1. CASE Swap
  <2>1. Since(pool)' >= Since(pool) /\ pool'.slot >= pool.slot /\ Since(pool)' \in Nat
        /\ pool'.slot \in Nat
    <3>1. PICK g \in Growths : /\ g \in Nat /\ Since(pool)' = Since(pool) + g
                               /\ pool'.slot >= pool.slot
      BY <1>1, SwapGrows
    <3>2. pool'.slot \in Nat
      BY <1>1, SwapTypes DEF TypeOK
    <3>. QED
      BY <1>0, <3>1, <3>2
  <2>2. UNCHANGED <<rows, note, refetched>>
    BY <1>1 DEF Swap, session, database
  <2>3. \A s \in DOMAIN rows : s \in Nat /\ WrappingSub(rows[s], FirstGrowth) \in Nat
    BY RowTypes
  <2>. QED
    BY <1>0, <2>1, <2>2, <2>3 DEF RowsInv, StoredTicksOrdered, Since
<1>2. CASE Tick
  <2> SUFFICES ASSUME ~refetched'
               PROVE  /\ \A s \in DOMAIN rows' :
                            s <= pool.slot /\ WrappingSub(rows'[s], FirstGrowth) <= Since(pool)
                      /\ \A s, t \in DOMAIN rows' : s < t =>
                            WrappingSub(rows'[t], FirstGrowth) >= WrappingSub(rows'[s], FirstGrowth)
    <3>1. note' = None /\ pool' = pool
      BY <1>2 DEF Tick, chain
    <3>. QED
      BY <3>1 DEF RowsInv, StoredTicksOrdered, WrappingSub, Since
  <2>1. PICK present \in BOOLEAN :
            ~refetched /\ rows' \in {rows, WithTick(KeyOf(note.slot, present), note.growth)}
    BY <1>2, TickReads
  <2>2. note # None /\ note.slot <= pool.slot /\ Since(note) <= Since(pool)
    BY <1>2 DEF Tick, GrowthInv
  <2>3. /\ \A s \in DOMAIN rows :
              /\ s \in Nat /\ s <= pool.slot /\ s <= note.slot
              /\ WrappingSub(rows[s], FirstGrowth) \in Nat
              /\ WrappingSub(rows[s], FirstGrowth) <= Since(pool)
              /\ WrappingSub(rows[s], FirstGrowth) <= Since(note)
        /\ \A s, t \in DOMAIN rows : s < t =>
              WrappingSub(rows[t], FirstGrowth) >= WrappingSub(rows[s], FirstGrowth)
    BY <2>1, <2>2, RowTypes DEF RowsInv, StoredTicksOrdered, WrappingSub
  <2>4. CASE rows' = rows
    BY <2>3, <2>4
  <2>5. CASE rows' # rows
    <3>1. note.slot # None
      BY <1>0, <2>2, LedgerAssumption
    <3>2. rows' = [s \in DOMAIN rows \cup {note.slot} |->
                      IF s \in DOMAIN rows THEN rows[s] ELSE note.growth]
      BY <2>1, <2>5, <3>1 DEF WithTick, KeyOf
    <3>3. \A s \in DOMAIN rows' :
              \/ s \in DOMAIN rows /\ rows'[s] = rows[s]
              \/ s \notin DOMAIN rows /\ s = note.slot
                    /\ WrappingSub(rows'[s], FirstGrowth) = Since(note)
      BY <3>2 DEF Since
    <3>. QED
      BY <1>0, <2>2, <2>3, <3>3
  <2>. QED
    BY <2>4, <2>5
<1>3. CASE Notify
  <2>1. UNCHANGED <<rows, pool, refetched>> /\ note' = pool
    BY <1>3 DEF Notify, chain, marks
  <2>. QED
    BY <2>1 DEF RowsInv, StoredTicksOrdered, Since
<1>4. CASE ReadPool
  <2>1. UNCHANGED <<rows, note, refetched>> /\ pool' = [pool EXCEPT !.earned = 0]
    BY <1>4 DEF ReadPool, database, marks
  <2>2. pool'.growth = pool.growth /\ pool'.slot = pool.slot
    BY <2>1 DEF TypeOK
  <2>. QED
    BY <2>1, <2>2 DEF RowsInv, StoredTicksOrdered, Since
<1>5. CASE CollectFees \/ ChangeLiquidity \/ DayPasses \/ ReadPosition \/ UNCHANGED vars
  <2>1. UNCHANGED <<rows, pool, refetched, note>>
    BY <1>5 DEF CollectFees, ChangeLiquidity, Touch, DayPasses, ReadPosition, vars, chain, session,
                database, marks
  <2>. QED
    BY <2>1 DEF RowsInv, StoredTicksOrdered, Since
<1>6. CASE Stop \/ TickSkipped
  <2>1. UNCHANGED <<rows, pool, refetched>> /\ note' = None
    BY <1>6 DEF Stop, TickSkipped, chain, database, marks
  <2>. QED
    BY <2>1 DEF RowsInv, StoredTicksOrdered, Since
<1>. QED
  BY <1>1, <1>2, <1>3, <1>4, <1>5, <1>6 DEF Next

-----------------------------------------------------------------------------
(* The fees of the session.                                                 *)

(* What a position reports at a distance d of the fee growth. *)
Worth(p, d) == p.owed + ((d * p.liq) \div Word)

(* Worth grows with the position and with the distance.                     *)
LEMMA WorthMono ==
    ASSUME NEW p \in Positions, NEW r \in Positions, p.liq <= r.liq, p.owed <= r.owed,
           NEW c \in Nat, NEW d \in Nat, c <= d
    PROVE  Worth(p, c) \in Nat /\ Worth(r, d) \in Nat /\ Worth(p, c) <= Worth(r, d)
<1>1. p.liq \in Nat /\ r.liq \in Nat /\ p.owed \in Nat /\ r.owed \in Nat
  BY WordSquared DEF Positions, U128
<1> DEFINE a == c * p.liq
           b == d * r.liq
<1>2. a \in Nat /\ b \in Nat /\ a <= b
  <2>1. c * p.liq <= d * p.liq
    BY <1>1
  <2>2. d * p.liq <= d * r.liq
    BY <1>1
  <2>. QED
    BY <1>1, <2>1, <2>2
<1> HIDE DEF a, b
<1>3. a \div Word \in Nat /\ b \div Word \in Nat /\ a \div Word <= b \div Word
  BY <1>2, WordAssumption, DivMono
<1>. QED
  BY <1>1, <1>3 DEF Worth, a, b

(* Under Fits the reported fees are that worth. *)
LEMMA FeesAreWorth ==
    ASSUME NEW G \in Nat, NEW L \in Nat, Fits(G, L), TypeOK, GrowthInv(G), Serving,
           NEW p \in Positions, p.liq \in Liquidities,
           NEW q, q = pool \/ (note # None /\ q = note)
    PROVE  /\ SessionFees(p, q) = Worth(p, Paid(q))
           /\ Paid(q) \in Nat /\ Paid(q) <= Paid(pool)
<1>1. /\ Paid(q) \in Nat /\ Paid(pool) \in Nat /\ Paid(q) <= Paid(pool)
      /\ q.growth \in Int /\ baseline \in Int
  BY ReadingTypes, WordSquared DEF GrowthInv, TypeOK, U128
<1>2. /\ swaps \in Nat /\ MaxSwaps \in Nat /\ swaps <= MaxSwaps /\ Paid(pool) <= swaps * G
      /\ p.liq \in Nat /\ p.liq <= L /\ p.liq \in U128
  BY LedgerAssumption, WordSquared DEF TypeOK, GrowthInv, Fits, Positions, U128
<1>3. Paid(q) <= MaxSwaps * G
  <2>1. swaps * G <= MaxSwaps * G
    BY <1>2
  <2>2. swaps * G \in Nat /\ MaxSwaps * G \in Nat
    BY <1>2
  <2>. QED
    BY <1>1, <1>2, <2>1, <2>2
<1> DEFINE most == MaxSwaps * G
<1>4. most \in Nat /\ most * L < Word * Word /\ Paid(q) <= most
  BY <1>2, <1>3 DEF Fits
<1> HIDE DEF most
<1>5. Paid(q) * p.liq < Word * Word
  <2>1. Paid(q) * p.liq <= most * p.liq
    BY <1>1, <1>2, <1>4
  <2>2. most * p.liq <= most * L
    BY <1>2, <1>4
  <2>3. Paid(q) * p.liq \in Nat /\ most * p.liq \in Nat /\ most * L \in Nat /\ Word * Word \in Nat
    BY <1>1, <1>2, <1>4, WordSquared
  <2>. QED
    BY <1>4, <2>1, <2>2, <2>3
<1>6. compute_accrued_fees(q.growth, baseline, p.liq) = (Paid(q) * p.liq) \div Word
  BY <1>1, <1>2, <1>5, AccruedExact DEF Paid
<1>. QED
  BY <1>1, <1>6 DEF SessionFees, Worth

(* The position last read is the one on the chain while nobody touches it,   *)
(* and no more than it while nothing is taken out; what it earned this       *)
(* session is its liquidity times the growth of the pool; and the last       *)
(* report is no more than what the pool, or the notification that waits,     *)
(* would give.                                                               *)
ExactInv ==
    /\ mode # "down" /\ untouched => known = pos
    /\ Serving /\ untouched =>
           /\ pool.earned = Paid(pool) * pos.liq
           /\ note # None => note.earned = Paid(note) * pos.liq
    /\ FeesExactWhileUntouched

FallInv ==
    /\ mode # "down" /\ ~withdrawn => known.liq <= pos.liq /\ known.owed <= pos.owed
    /\ fees # None => Serving
    /\ fees # None /\ ~withdrawn /\ ~refetched =>
           /\ fees <= Worth(known, Paid(pool))
           /\ note # None => fees <= Worth(known, Paid(note))

(* Every step keeps the reported fees exact.                                *)
LEMMA ExactStep ==
    ASSUME NEW G \in Nat, NEW L \in Nat, Fits(G, L), TypeOK, GrowthInv(G), ExactInv, [Next]_vars
    PROVE  ExactInv'
<1>0. /\ Paid(pool) \in Nat /\ pos.liq \in Nat /\ pos \in Positions
      /\ note # None => Paid(note) \in Nat
  BY ReadingTypes, WordSquared DEF TypeOK, Positions, U128
<1>1. CASE Swap
  <2>1. PICK g \in Growths :
            /\ g \in Nat
            /\ Serving => Paid(pool)' = Paid(pool) + g
            /\ untouched' => untouched /\ pool'.earned = pool.earned + g * pos.liq
    BY <1>1, SwapGrows
  <2>2. UNCHANGED <<pos, known, note, mode, baseline, fees, due>>
    BY <1>1 DEF Swap, session
  <2>3. (Paid(pool) + g) * pos.liq = Paid(pool) * pos.liq + g * pos.liq
    BY <1>0, <2>1
  <2>4. (Serving' <=> Serving) /\ (note # None => Paid(note)' = Paid(note))
    BY <2>2 DEF Serving, Paid
  <2>. QED
    BY <2>1, <2>2, <2>3, <2>4 DEF ExactInv, FeesExactWhileUntouched
<1>2. CASE Tick
  <2>1. PICK p \in PositionsRead, payload \in BOOLEAN :
              LET q == PoolRead(payload)
              IN  /\ p \in Positions /\ q \in Pools /\ (p = pos \/ p = known)
                  /\ payload => q = note
                  /\ known' = p /\ fees' = SessionFees(p, q)
                  /\ due' = IF untouched THEN pos.owed + q.earned \div Word ELSE None
    BY <1>2, TickReads
  <2> DEFINE q == PoolRead(payload)
  <2>2. q = pool \/ (note # None /\ q = note)
    BY <1>2 DEF Tick, PoolRead
  <2>3. Serving /\ mode # "down"
    BY <1>2 DEF Tick, GrowthInv, Serving
  <2>4. UNCHANGED <<pool, pos, mode, baseline, untouched>> /\ note' = None
    BY <1>2 DEF Tick, chain
  <2>5. ASSUME untouched
        PROVE  fees' = due' /\ known' = pos
    <3>1. p = pos /\ p \in Positions /\ p.liq \in Liquidities
      BY <2>1, <2>3, <2>5 DEF ExactInv, GrowthInv
    <3>2. SessionFees(p, q) = Worth(p, Paid(q))
      BY <2>2, <2>3, <3>1, FeesAreWorth
    <3>3. q.earned = Paid(q) * pos.liq
      BY <2>2, <2>3, <2>5 DEF ExactInv
    <3> HIDE DEF q
    <3>4. fees' = SessionFees(p, q) /\ due' = pos.owed + q.earned \div Word /\ known' = p
      BY <2>1, <2>5 DEF q
    <3>. QED
      BY <3>1, <3>2, <3>3, <3>4 DEF Worth
  <2>6. due' # None => untouched
    BY <2>1
  <2>. QED
    BY <2>4, <2>5, <2>6 DEF ExactInv, Serving, Paid, FeesExactWhileUntouched
<1>3. CASE Notify
  <2>1. UNCHANGED <<pool, pos, mode, baseline, known, untouched, fees, due>> /\ note' = pool
    BY <1>3 DEF Notify, chain, marks
  <2>. QED
    BY <2>1 DEF ExactInv, Serving, Paid, FeesExactWhileUntouched
<1>4. CASE ReadPosition
  <2>1. known' = pos' /\ mode' = "starting" /\ UNCHANGED <<fees, due>>
    BY <1>4 DEF ReadPosition, chain
  <2>. QED
    BY <2>1 DEF ExactInv, Serving, FeesExactWhileUntouched
<1>5. CASE ReadPool
  <2>1. /\ UNCHANGED <<pos, known, note, untouched, fees, due>> /\ baseline' = pool.growth
        /\ pool' = [pool EXCEPT !.earned = 0] /\ mode = "starting"
    BY <1>5 DEF ReadPool, marks
  <2>2. pool'.growth = pool.growth /\ pool'.earned = 0 /\ pool.growth \in Int
    BY <2>1, WordSquared DEF TypeOK, U128
  <2>3. Paid(pool)' = 0 /\ note = None
    BY <2>1, <2>2, WrappingSubSame DEF Paid, GrowthInv, Serving
  <2>4. 0 * pos.liq = 0
    BY <1>0
  <2>. QED
    BY <2>1, <2>2, <2>3, <2>4 DEF ExactInv, FeesExactWhileUntouched
<1>6. CASE CollectFees \/ ChangeLiquidity
  <2>1. ~untouched' /\ UNCHANGED <<fees, due>>
    BY <1>6 DEF CollectFees, ChangeLiquidity, Touch, session
  <2>. QED
    BY <2>1 DEF ExactInv, FeesExactWhileUntouched
<1>7. CASE Stop
  <2>1. mode' = "down" /\ due' = None
    BY <1>7 DEF Stop
  <2>. QED
    BY <2>1 DEF ExactInv, Serving, FeesExactWhileUntouched
<1>8. CASE TickSkipped
  <2>1. UNCHANGED <<pool, pos, mode, baseline, untouched, fees, due>> /\ note' = None
        /\ known' \in {pos, known}
    BY <1>8 DEF TickSkipped, chain, marks, PositionsRead, PositionAfter
  <2>. QED
    BY <2>1 DEF ExactInv, Serving, Paid, FeesExactWhileUntouched
<1>9. CASE DayPasses \/ UNCHANGED vars
  <2>1. UNCHANGED <<pool, pos, mode, baseline, untouched, fees, due, known, note>>
    BY <1>9 DEF DayPasses, vars, chain, session, marks
  <2>. QED
    BY <2>1 DEF ExactInv, Serving, Paid, FeesExactWhileUntouched
<1>. QED
  BY <1>1, <1>2, <1>3, <1>4, <1>5, <1>6, <1>7, <1>8, <1>9 DEF Next

(* No step reports less, and the last report stays below the next.          *)
LEMMA FallStep ==
    ASSUME NEW G \in Nat, NEW L \in Nat, Fits(G, L), TypeOK, GrowthInv(G), FallInv, [Next]_vars
    PROVE  /\ FallInv'
           /\ fees # None /\ fees' # None /\ fees' < fees => withdrawn \/ refetched'
<1>0. /\ Paid(pool) \in Nat /\ pos \in Positions /\ known \in Positions
      /\ note # None => Paid(note) \in Nat
      /\ fees = None \/ fees \in Nat
      /\ pos.liq \in Nat /\ known.liq \in Nat /\ pos.owed \in Nat /\ known.owed \in Nat
  BY ReadingTypes, WordSquared DEF TypeOK, Positions, U128
<1>1. CASE Swap
  <2>1. PICK g \in Growths : g \in Nat /\ (Serving => Paid(pool)' = Paid(pool) + g)
    BY <1>1, SwapGrows
  <2>2. UNCHANGED <<pos, known, note, mode, baseline, fees, withdrawn, refetched>>
    BY <1>1 DEF Swap, session
  <2>3. (Serving' <=> Serving) /\ (note # None => Paid(note)' = Paid(note))
    BY <2>2 DEF Serving, Paid
  <2>4. /\ Worth(known, Paid(pool)) \in Nat /\ Worth(known, Paid(pool) + g) \in Nat
        /\ Worth(known, Paid(pool)) <= Worth(known, Paid(pool) + g)
    <3>1. Paid(pool) + g \in Nat /\ Paid(pool) <= Paid(pool) + g
      BY <1>0, <2>1
    <3>. QED
      BY <1>0, <3>1, WorthMono
  <2>5. ASSUME fees # None, ~withdrawn, ~refetched
        PROVE  /\ fees <= Worth(known, Paid(pool)')
               /\ note # None => fees <= Worth(known, Paid(note)')
    <3>1. /\ Serving /\ fees <= Worth(known, Paid(pool))
          /\ note # None => fees <= Worth(known, Paid(note))
      BY <2>5 DEF FallInv
    <3>. QED
      BY <1>0, <2>1, <2>3, <2>4, <2>5, <3>1
  <2>6. /\ known' = known /\ note' = note /\ fees' = fees /\ withdrawn' = withdrawn
        /\ refetched' = refetched
    BY <2>2
  <2>7. Worth(known', Paid(pool)') = Worth(known, Paid(pool)')
        /\ (note # None => Worth(known', Paid(note)') = Worth(known, Paid(note)'))
    BY <2>6
  <2>8. FallInv'
    BY <2>2, <2>3, <2>5, <2>6, <2>7 DEF FallInv, Worth
  <2>. QED
    BY <1>0, <2>6, <2>8
<1>2. CASE Tick
  <2>1. PICK p \in PositionsRead, payload \in BOOLEAN :
              LET q == PoolRead(payload)
              IN  /\ p \in Positions /\ (p = pos \/ p = known)
                  /\ payload => q = note
                  /\ known' = p /\ fees' = SessionFees(p, q)
                  /\ refetched' = (refetched \/ ~payload)
    BY <1>2, TickReads
  <2> DEFINE q == PoolRead(payload)
  <2>2. q = pool \/ (note # None /\ q = note)
    BY <1>2 DEF Tick, PoolRead
  <2>3. Serving /\ mode # "down"
    BY <1>2 DEF Tick, GrowthInv, Serving
  <2>4. UNCHANGED <<pool, pos, mode, baseline, withdrawn>> /\ note' = None
    BY <1>2 DEF Tick, chain
  <2>5. p.liq \in Liquidities /\ p \in Positions /\ p.liq \in Nat /\ p.owed \in Nat
    BY <1>0, <2>1 DEF GrowthInv
  <2>6. /\ SessionFees(p, q) = Worth(p, Paid(q))
        /\ Paid(q) \in Nat /\ Paid(q) <= Paid(pool)
    BY <2>2, <2>3, <2>5, FeesAreWorth
  <2>7. /\ Worth(p, Paid(q)) \in Nat /\ Worth(p, Paid(pool)) \in Nat
        /\ Worth(p, Paid(q)) <= Worth(p, Paid(pool))
    BY <1>0, <2>5, <2>6, WorthMono
  <2>8. ASSUME ~withdrawn
        PROVE  known.liq <= p.liq /\ known.owed <= p.owed /\ p.liq <= pos.liq /\ p.owed <= pos.owed
    BY <1>0, <2>1, <2>3, <2>8 DEF FallInv
  <2>9. ASSUME fees # None, ~withdrawn, ~refetched'
        PROVE  fees <= fees'
    <3>1. ~refetched /\ q = note /\ note # None
      BY <1>2, <2>1, <2>9 DEF Tick
    <3>2. fees <= Worth(known, Paid(note))
      BY <2>9, <3>1 DEF FallInv
    <3>3. /\ Worth(known, Paid(note)) \in Nat /\ Worth(p, Paid(note)) \in Nat
          /\ Worth(known, Paid(note)) <= Worth(p, Paid(note))
      BY <1>0, <2>5, <2>8, <2>9, <3>1, WorthMono
    <3>4. fees' = Worth(p, Paid(note))
      BY <2>1, <2>6, <3>1
    <3>. QED
      BY <1>0, <2>9, <3>2, <3>3, <3>4
  <2>10. fees' \in Nat /\ fees' <= Worth(p, Paid(pool))
    BY <2>1, <2>6, <2>7
  <2>11. known' = p /\ Paid(pool)' = Paid(pool) /\ Serving'
    BY <2>1, <2>3, <2>4 DEF Paid, Serving
  <2>12. Worth(known', Paid(pool)') = Worth(p, Paid(pool))
    BY <2>11
  <2>13. FallInv'
    BY <2>4, <2>8, <2>10, <2>11, <2>12 DEF FallInv, Worth
  <2>14. fees # None /\ fees' # None /\ fees' < fees => withdrawn \/ refetched'
    BY <1>0, <2>9, <2>10
  <2>. QED
    BY <2>13, <2>14
<1>3. CASE Notify
  <2>1. UNCHANGED <<pool, pos, mode, baseline, known, withdrawn, refetched, fees>> /\ note' = pool
    BY <1>3 DEF Notify, chain, marks
  <2>2. FallInv'
    BY <2>1 DEF FallInv, Serving, Paid, Worth
  <2>. QED
    BY <1>0, <2>1, <2>2
<1>4. CASE ReadPosition
  <2>1. known' = pos /\ pos' = pos /\ fees' = fees /\ ~Serving
    BY <1>4 DEF ReadPosition, chain, Serving
  <2>2. fees = None
    BY <2>1 DEF FallInv
  <2>. QED
    BY <1>0, <2>1, <2>2 DEF FallInv
<1>5. CASE ReadPool
  <2>1. /\ UNCHANGED <<pos, known, fees, withdrawn>> /\ mode = "starting" /\ fees' = fees
    BY <1>5 DEF ReadPool, marks
  <2>2. fees = None
    BY <2>1 DEF FallInv, Serving
  <2>. QED
    BY <2>1, <2>2 DEF FallInv
<1>6. CASE CollectFees \/ ChangeLiquidity
  <2>1. UNCHANGED <<pool, mode, baseline, known, note, fees, refetched>>
        /\ (~withdrawn' => ~withdrawn)
    BY <1>6 DEF CollectFees, ChangeLiquidity, Touch, session
  <2>2. ASSUME ~withdrawn'
        PROVE  pos.liq <= pos'.liq /\ pos.owed <= pos'.owed /\ pos'.liq \in Nat /\ pos'.owed \in Nat
    <3>1. PICK l \in Liquidities : Touch([liq |-> l, owed |-> Moved], l < pos.liq)
      BY <1>6, <2>2 DEF CollectFees, ChangeLiquidity, Touch
    <3>2. pos' = [liq |-> l, owed |-> Moved] /\ ~(l < pos.liq)
      BY <2>2, <3>1 DEF Touch
    <3>3. l \in Nat
      BY LedgerAssumption, WordSquared DEF U128
    <3>. QED
      BY <1>0, <3>2, <3>3, MovedNat
  <2>3. FallInv'
    BY <1>0, <2>1, <2>2 DEF FallInv, Serving, Paid, Worth
  <2>. QED
    BY <1>0, <2>1, <2>3
<1>7. CASE Stop
  <2>1. mode' = "down" /\ fees' = None
    BY <1>7 DEF Stop
  <2>. QED
    BY <2>1 DEF FallInv
<1>8. CASE TickSkipped
  <2>1. UNCHANGED <<pool, pos, mode, baseline, withdrawn, refetched, fees>> /\ note' = None
        /\ known' \in {pos, known} /\ Serving /\ mode # "down"
    BY <1>8 DEF TickSkipped, chain, marks, PositionsRead, PositionAfter, GrowthInv, Serving
  <2>2. ASSUME ~withdrawn
        PROVE  /\ known'.liq <= pos.liq /\ known'.owed <= pos.owed
               /\ known.liq <= known'.liq /\ known.owed <= known'.owed /\ known' \in Positions
    BY <1>0, <2>1, <2>2 DEF FallInv
  <2>3. ASSUME fees # None, ~withdrawn, ~refetched
        PROVE  fees <= Worth(known', Paid(pool))
    <3>1. fees <= Worth(known, Paid(pool))
      BY <2>3 DEF FallInv
    <3>2. /\ Worth(known, Paid(pool)) \in Nat /\ Worth(known', Paid(pool)) \in Nat
          /\ Worth(known, Paid(pool)) <= Worth(known', Paid(pool))
      <4>1. PICK k \in Positions : k = known'
        BY <2>2, <2>3
      <4>2. known.liq <= k.liq /\ known.owed <= k.owed
        BY <2>2, <2>3, <4>1
      <4>3. Paid(pool) <= Paid(pool)
        BY <1>0
      <4>4. /\ Worth(known, Paid(pool)) \in Nat /\ Worth(k, Paid(pool)) \in Nat
            /\ Worth(known, Paid(pool)) <= Worth(k, Paid(pool))
        BY <1>0, <4>2, <4>3, WorthMono
      <4>. QED
        BY <4>1, <4>4
    <3>. QED
      BY <1>0, <2>3, <3>1, <3>2
  <2>4. Paid(pool)' = Paid(pool) /\ Serving'
    BY <2>1 DEF Paid, Serving
  <2>5. Worth(known', Paid(pool)') = Worth(known', Paid(pool))
    BY <2>4
  <2>6. FallInv'
    BY <2>1, <2>2, <2>3, <2>4, <2>5 DEF FallInv, Worth
  <2>. QED
    BY <1>0, <2>1, <2>6
<1>9. CASE DayPasses \/ UNCHANGED vars
  <2>1. UNCHANGED <<pool, pos, mode, baseline, withdrawn, refetched, fees, known, note>>
    BY <1>9 DEF DayPasses, vars, chain, session, marks
  <2>. QED
    BY <1>0, <2>1 DEF FallInv, Serving, Paid, Worth
<1>. QED
  BY <1>1, <1>2, <1>3, <1>4, <1>5, <1>6, <1>7, <1>8, <1>9 DEF Next

-----------------------------------------------------------------------------
(* The theorems.                                                            *)

(* PlannedRangeSound (rebalance.rs:28) for every old range, spacing,         *)
(* threshold and tick: where a planned range lies and how wide it is,        *)
(* exactly, the ranges that the plan widens and those off the grid included. *)
THEOREM PlannedRangeHolds == Spec => []PlannedRangeSound
<1>1. Init => TypeOK /\ PlanInv
  BY LedgerTypesStart DEF Init, PlanInv
<1>2. TypeOK /\ PlanInv /\ [Next]_vars => (TypeOK /\ PlanInv)'
  BY LedgerTypes, PlanStep
<1>3. TypeOK /\ PlanInv => PlannedRangeSound
  BY PlanIsSound
<1>. QED
  BY <1>1, <1>2, <1>3, PTL DEF Spec

(* LiveAfterShadowDecision (writer.rs:286) for every number of days and      *)
(* every history of runs and writes that fail.                               *)
THEOREM LiveNeedsDecision == Spec => LiveAfterShadowDecision
<1>1. Init => TypeOK /\ GateInv
  BY LedgerTypesStart DEF Init, GateInv
<1>2. TypeOK /\ GateInv /\ [Next]_vars => (TypeOK /\ GateInv)'
  BY LedgerTypes, GateStep
<1>3. TypeOK /\ GateInv /\ [Next]_vars =>
          [mode # "live" /\ mode' = "live" => decided # None /\ day - decided >= RequiredDays]_vars
  BY LiveStep
<1>. QED
  BY <1>1, <1>2, <1>3, PTL DEF Spec, LiveAfterShadowDecision

FeesInv(G) == TypeOK /\ GrowthInv(G) /\ RowsInv /\ ExactInv /\ FallInv

(* The whole invariant holds at the start.                                  *)
LEMMA FeesStart ==
    ASSUME NEW G \in Nat, Init
    PROVE  FeesInv(G)
<1>1. /\ FirstLiquidity \in Liquidities /\ FirstGrowth \in Int
      /\ 0 * G = 0
  BY LedgerAssumption, WordSquared DEF U128
<1>2. TypeOK
  BY LedgerTypesStart
<1>3. Since(pool) = 0
  BY <1>1, WrappingSubSame DEF Init, Since
<1>4. GrowthInv(G)
  BY <1>1, <1>3 DEF Init, InitialPosition, GrowthInv, Serving
<1>. QED
  BY <1>2, <1>4
  DEF FeesInv, Init, RowsInv, StoredTicksOrdered, ExactInv, FallInv, FeesExactWhileUntouched, Serving

(* The whole invariant is inductive.                                        *)
LEMMA FeesKept ==
    ASSUME NEW G \in Nat, NEW L \in Nat, Fits(G, L), FeesInv(G), [Next]_vars
    PROVE  FeesInv(G)'
BY LedgerTypes, GrowthStep, RowsStep, ExactStep, FallStep DEF FeesInv

(* LedgerInv (writer.rs:34, main.rs:1218): over restarts, writes that fail   *)
(* and notifications without a slot the stored growth is ordered by slot,    *)
(* whenever G and L bound the swaps and the liquidity so that no counter     *)
(* goes all the way around.                                                  *)
THEOREM LedgerOrdered ==
    ASSUME NEW CONSTANT G \in Nat, NEW CONSTANT L \in Nat, Fits(G, L)
    PROVE  Spec => []LedgerInv
<1>1. Init => FeesInv(G)
  BY FeesStart
<1>2. FeesInv(G) /\ [Next]_vars => FeesInv(G)'
  BY FeesKept
<1>3. FeesInv(G) => LedgerInv
  BY DEF FeesInv, LedgerInv, RowsInv, StoredTicksOrdered
<1>. QED
  BY <1>1, <1>2, <1>3, PTL DEF Spec

(* FeesExactWhileUntouched (main.rs:1171) under the same bounds: to the last *)
(* unit, across the wrap of fee_growth_global and a late refresh.            *)
THEOREM FeesAreEarned ==
    ASSUME NEW CONSTANT G \in Nat, NEW CONSTANT L \in Nat, Fits(G, L)
    PROVE  Spec => []FeesExactWhileUntouched
<1>1. Init => FeesInv(G)
  BY FeesStart
<1>2. FeesInv(G) /\ [Next]_vars => FeesInv(G)'
  BY FeesKept
<1>3. FeesInv(G) => FeesExactWhileUntouched
  BY DEF FeesInv, ExactInv
<1>. QED
  BY <1>1, <1>2, <1>3, PTL DEF Spec

(* FeesFallOnlyOnWithdrawal (main.rs:1188) under the same bounds: no         *)
(* drawdown out of reads at different moments or reads that failed.          *)
THEOREM FeesNeverFallByThemselves ==
    ASSUME NEW CONSTANT G \in Nat, NEW CONSTANT L \in Nat, Fits(G, L)
    PROVE  Spec => FeesFallOnlyOnWithdrawal
<1>1. Init => FeesInv(G)
  BY FeesStart
<1>2. FeesInv(G) /\ [Next]_vars => FeesInv(G)'
  BY FeesKept
<1>3. FeesInv(G) /\ [Next]_vars =>
          [fees # None /\ fees' # None /\ fees' < fees => withdrawn \/ refetched']_vars
  BY FallStep DEF FeesInv
<1>. QED
  BY <1>1, <1>2, <1>3, PTL DEF Spec, FeesFallOnlyOnWithdrawal
=============================================================================
