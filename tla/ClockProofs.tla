----------------------------- MODULE ClockProofs -----------------------------
(***************************************************************************)
(* Proofs about time: for every width of the clock, every resolution and   *)
(* every timeout, update_transfers works as with a clock that never wraps, *)
(* as long as the timeout and the update period fit into half its range.   *)
(***************************************************************************)
EXTENDS Clock, TLAPS

(* Remainders by a divisor that is not a number: of a small number, of the *)
(* next number, and of a difference of remainders.                         *)
LEMMA SmallRemainder ==
    ASSUME NEW r \in Nat \ {0}, NEW x \in 0 .. r - 1
    PROVE  x % r = x
OBVIOUS

LEMMA NextRemainder ==
    ASSUME NEW r \in Nat \ {0}, NEW x \in Nat
    PROVE  /\ x % r \in 0 .. r - 1
           /\ (x + 1) % r = IF x % r = r - 1 THEN 0 ELSE (x % r) + 1
<1> DEFINE q == x \div r
           m == x % r
<1>1. q \in Nat /\ m \in 0 .. r - 1 /\ x = q * r + m
  OBVIOUS
<1> HIDE DEF q, m
<1>2. CASE m = r - 1
  <2>1. x + 1 = q * r + r
    BY <1>1, <1>2
  <2>2. x + 1 = (q + 1) * r
    BY <1>1, <2>1
  <2>3. ((q + 1) * r) % r = 0
    BY <1>1
  <2> QED BY <1>2, <2>2, <2>3 DEF m
<1>3. CASE m # r - 1
  <2>1. m + 1 \in 0 .. r - 1
    BY <1>1, <1>3
  <2>2. x + 1 = q * r + (m + 1)
    BY <1>1
  <2>3. (q * r + (m + 1)) % r = m + 1
    BY <1>1, <2>1
  <2> QED BY <1>3, <2>2, <2>3 DEF m
<1> QED BY <1>1, <1>2, <1>3 DEF m

LEMMA DifferenceRemainder ==
    ASSUME NEW r \in Nat \ {0}, NEW x \in 0 .. r - 1, NEW y \in 0 .. r - 1
    PROVE  (x - y) % r = IF y <= x THEN x - y ELSE x - y + r
OBVIOUS

-----------------------------------------------------------------------------
(* The inductive invariant. *)

ClockTypeOK ==
    /\ ticks \in 0 .. TickRange - 1
    /\ timeout \in Nat
    /\ then # None => then \in 0 .. TickRange - 1
    /\ time \in Nat /\ stamped \in Nat /\ updated \in Nat

(* What happened happened before now, and the last update not long ago.    *)
InThePast == stamped <= time /\ updated <= time /\ time - updated <= UpdateEvery

(* The wrapped difference of two readings is that of the real times,       *)
(* wrapped.                                                                *)
ReadingsAgree == then # None => DurationSince(ticks, then) = (time - stamped) % TickRange

(* An entry that the last update has seen had not expired then.            *)
KeptByLastUpdate ==
    Fits /\ then # None => updated - stamped <= ToGeneric(timeout)

ClockInv == ClockTypeOK /\ InThePast /\ ReadingsAgree /\ KeptByLastUpdate

LEMMA ToGenericType == ASSUME NEW n \in Nat PROVE ToGeneric(n) \in Nat
BY ClockAssumption DEF ToGeneric

LEMMA HalfRangeType ==
    HalfRange \in Nat /\ HalfRange < TickRange /\ HalfRange + HalfRange < TickRange
BY ClockAssumption DEF HalfRange

(* While time and period fit, the wrapped difference is the real one.      *)
LEMMA AgeIsReal ==
    ASSUME ClockInv, Fits, then # None
    PROVE  /\ time - stamped <= ToGeneric(timeout) + UpdateEvery
           /\ DurationSince(ticks, then) = time - stamped
           /\ ~ IsEarlier(ticks, then)
           /\ ~ ToGenericFails(timeout)
<1>1. /\ time \in Nat /\ stamped \in Nat /\ updated \in Nat /\ stamped <= time
      /\ UpdateEvery \in Nat /\ TickRange \in Nat \ {0}
      /\ ToGeneric(timeout) \in Nat /\ HalfRange \in Nat /\ HalfRange < TickRange
  BY ToGenericType, HalfRangeType, ClockAssumption DEF ClockInv, ClockTypeOK, InThePast
<1>2. time - stamped <= ToGeneric(timeout) + UpdateEvery
  BY <1>1 DEF ClockInv, InThePast, KeptByLastUpdate
<1>3. time - stamped \in 0 .. TickRange - 1 /\ time - stamped <= HalfRange
  BY <1>1, <1>2 DEF Fits
<1>4. (time - stamped) % TickRange = time - stamped
  BY <1>1, <1>3, SmallRemainder
<1>5. DurationSince(ticks, then) = time - stamped
  BY <1>4 DEF ClockInv, ReadingsAgree
<1>6. ~ IsEarlier(ticks, then)
  BY <1>1, <1>3, <1>5 DEF IsEarlier, DurationSince
<1>7. ~ ToGenericFails(timeout)
  BY <1>1 DEF ToGenericFails, Fits
<1> QED BY <1>2, <1>5, <1>6, <1>7

LEMMA ClockInitInv == ClockInit => ClockInv
BY ClockAssumption
   DEF ClockInit, ClockInv, ClockTypeOK, InThePast, ReadingsAgree, KeptByLastUpdate

(* A tick of the clock is one of the real time. *)
LEMMA PassTimeKeeps == ClockInv /\ PassTime => ClockInv'
<1> SUFFICES ASSUME ClockInv, PassTime PROVE ClockInv'
  OBVIOUS
<1>1. /\ TickRange \in Nat \ {0} /\ ticks \in 0 .. TickRange - 1
      /\ time \in Nat /\ stamped \in Nat /\ updated \in Nat /\ UpdateEvery \in Nat
      /\ stamped <= time /\ updated <= time
  BY ClockAssumption DEF ClockInv, ClockTypeOK, InThePast
<1>2. ticks' = IF ticks = TickRange - 1 THEN 0 ELSE ticks + 1
  <2>1. ticks \in Nat /\ ticks % TickRange = ticks
    BY <1>1, SmallRemainder
  <2>2. (ticks + 1) % TickRange = IF ticks = TickRange - 1 THEN 0 ELSE ticks + 1
    BY <1>1, <2>1, NextRemainder
  <2> QED BY <2>2 DEF PassTime
<1>3. ticks' \in 0 .. TickRange - 1
  BY <1>1, <1>2
<1>4. ClockTypeOK'
  BY <1>1, <1>3 DEF ClockInv, ClockTypeOK, PassTime
<1>5. InThePast'
  BY <1>1 DEF InThePast, PassTime
<1>6. then' = then /\ stamped' = stamped /\ time' = time + 1
  BY DEF PassTime
<1>7. ReadingsAgree'
  <2> SUFFICES ASSUME then # None
               PROVE  (ticks' - then) % TickRange = (time' - stamped) % TickRange
    BY <1>6 DEF ReadingsAgree, DurationSince
  <2> DEFINE age == time - stamped
  <2>1. then \in 0 .. TickRange - 1
    BY DEF ClockInv, ClockTypeOK
  <2>2. age \in Nat /\ time' - stamped = age + 1
    BY <1>1, <1>6
  <2>3. age % TickRange = IF then <= ticks THEN ticks - then ELSE ticks - then + TickRange
    BY <1>1, <2>1, DifferenceRemainder DEF ClockInv, ReadingsAgree, DurationSince
  <2>4. (ticks' - then) % TickRange =
            IF then <= ticks' THEN ticks' - then ELSE ticks' - then + TickRange
    BY <1>1, <1>3, <2>1, DifferenceRemainder
  <2> HIDE DEF age
  <2>5. (age + 1) % TickRange =
            IF age % TickRange = TickRange - 1 THEN 0 ELSE (age % TickRange) + 1
    BY <1>1, <2>2, NextRemainder
  <2>6. (age + 1) % TickRange =
            IF then <= ticks' THEN ticks' - then ELSE ticks' - then + TickRange
    BY <1>1, <1>2, <2>1, <2>3, <2>5
  <2> QED BY <2>2, <2>4, <2>6
<1>8. KeptByLastUpdate'
  BY DEF ClockInv, KeptByLastUpdate, PassTime, Fits
<1> QED BY <1>4, <1>5, <1>7, <1>8 DEF ClockInv

LEMMA StampKeeps == ClockInv /\ Stamp => ClockInv'
<1> SUFFICES ASSUME ClockInv, Stamp PROVE ClockInv'
  OBVIOUS
<1>1. /\ TickRange \in Nat \ {0} /\ ticks \in 0 .. TickRange - 1 /\ ticks \in Nat
      /\ time \in Nat /\ updated \in Nat /\ updated <= time
  BY ClockAssumption DEF ClockInv, ClockTypeOK, InThePast
<1>2. ReadingsAgree'
  <2>1. (ticks - ticks) % TickRange = 0 /\ (time - time) % TickRange = 0
    BY <1>1
  <2> QED BY <2>1 DEF Stamp, ReadingsAgree, DurationSince
<1>3. KeptByLastUpdate'
  <2>1. ToGeneric(timeout) \in Nat
    BY ToGenericType DEF ClockInv, ClockTypeOK
  <2> QED BY <1>1, <2>1 DEF Stamp, KeptByLastUpdate, Fits
<1> QED BY <1>1, <1>2, <1>3 DEF ClockInv, ClockTypeOK, InThePast, Stamp

(* What CheckTimeout finds, by the real time. *)
LEMMA OutcomeIsReal ==
    ASSUME ClockInv, CheckTimeout, Fits, then # None
    PROVE  outcome' = IF TimestampExpired(ToGeneric(timeout), time, stamped)
                      THEN "Expired" ELSE "Kept"
BY AgeIsReal DEF CheckTimeout, ExpiryOf, TimestampExpired

LEMMA CheckTimeoutKeeps == ClockInv /\ CheckTimeout => ClockInv'
<1> SUFFICES ASSUME ClockInv, CheckTimeout PROVE ClockInv'
  OBVIOUS
<1>1. /\ time \in Nat /\ stamped \in Nat /\ UpdateEvery \in Nat
      /\ then' # None => then # None /\ then' = then
  BY ClockAssumption DEF ClockInv, ClockTypeOK, CheckTimeout
<1>2. ClockTypeOK' /\ InThePast' /\ ReadingsAgree'
  BY <1>1 DEF ClockInv, ClockTypeOK, InThePast, ReadingsAgree, CheckTimeout
<1>3. KeptByLastUpdate'
  <2> SUFFICES ASSUME Fits, then' # None PROVE time - stamped <= ToGeneric(timeout)
    BY DEF KeptByLastUpdate, CheckTimeout, Fits
  <2>1. outcome' # "Expired"
    BY DEF CheckTimeout
  <2>2. ~ (time - stamped > ToGeneric(timeout))
    BY <1>1, <2>1, OutcomeIsReal DEF TimestampExpired
  <2>3. ToGeneric(timeout) \in Nat
    BY ToGenericType DEF ClockInv, ClockTypeOK
  <2> QED BY <1>1, <2>2, <2>3
<1> QED BY <1>2, <1>3 DEF ClockInv

LEMMA ClockNextInv == ClockInv /\ [ClockNext]_clock_vars => ClockInv'
<1> SUFFICES ASSUME ClockInv, [ClockNext]_clock_vars PROVE ClockInv'
  OBVIOUS
<1>1. CASE PassTime
  BY <1>1, PassTimeKeeps
<1>2. CASE Stamp
  BY <1>2, StampKeeps
<1>3. CASE Drop
  BY <1>3 DEF Drop, ClockInv, ClockTypeOK, InThePast, ReadingsAgree, KeptByLastUpdate
<1>4. CASE CheckTimeout
  BY <1>4, CheckTimeoutKeeps
<1>5. CASE UNCHANGED clock_vars
  BY <1>5 DEF clock_vars, ClockInv, ClockTypeOK, InThePast, ReadingsAgree,
              KeptByLastUpdate, Fits, DurationSince
<1> QED BY <1>1, <1>2, <1>3, <1>4, <1>5 DEF ClockNext

-----------------------------------------------------------------------------
(* No entry outlives its timeout by more than the update period, however   *)
(* often the clock's integer (time.rs, manager.rs timestamp_expired) has   *)
(* wrapped around meanwhile and before.                                    *)
THEOREM EntriesGoInTime == ClockSpec => []GoneInTime
<1>1. ClockInit => ClockInv
  BY ClockInitInv
<1>2. ClockInv /\ [ClockNext]_clock_vars => ClockInv'
  BY ClockNextInv
<1>3. ClockInv => GoneInTime
  BY AgeIsReal DEF GoneInTime
<1> QED BY <1>1, <1>2, <1>3, PTL DEF ClockSpec

(* update_transfers expires exactly what a clock that never wraps would    *)
(* expire, and neither the subtraction nor the unwrap() of                 *)
(* timestamp_expired (manager.rs) panics, for every clock width,           *)
(* resolution and timeout that fit: what every module that counts time in  *)
(* natural numbers relies on.                                              *)
THEOREM WrappingIsHarmless == ClockSpec => ExpiresAsInRealTime
<1> DEFINE Real ==
        CheckTimeout /\ Fits /\ then # None =>
            outcome' = IF TimestampExpired(ToGeneric(timeout), time, stamped)
                       THEN "Expired" ELSE "Kept"
<1>1. ClockInit => ClockInv
  BY ClockInitInv
<1>2. ClockInv /\ [ClockNext]_clock_vars => ClockInv'
  BY ClockNextInv
<1>3. ClockInv /\ [ClockNext]_clock_vars => [Real]_clock_vars
  BY OutcomeIsReal
<1>4. ClockSpec => [][Real]_clock_vars
  BY <1>1, <1>2, <1>3, PTL DEF ClockSpec
<1> QED BY <1>4 DEF ExpiresAsInRealTime
==============================================================================
