-------------------------------- MODULE Clock --------------------------------
(***************************************************************************)
(* Time as the code has it: the integer of the clock (32 or 64 bits) wraps *)
(* around, instants are compared by their wrapped difference, and timeouts *)
(* are milliseconds that timestamp_expired (manager.rs) converts to ticks. *)
(* Every other module counts time in natural numbers and compares with     *)
(* TimestampExpired of Transfers; this one says for how long that is so.   *)
(*                                                                         *)
(* One entry of the transfer manager is followed: it is stamped, and goes  *)
(* when it expires in update_transfers or when the application is done     *)
(* with it.                                                                *)
(***************************************************************************)
EXTENDS Transfers

CONSTANTS
    TickRange,           \* 2^32 in the code (2^64 for StdClock)
    TicksPerMs,          \* 1000 (1 for StmClock)
    Timeouts,            \* milliseconds an application may give
    UpdateEvery,         \* most ticks between two calls of update_transfers
    MaxTime              \* bound on the time that passes

ASSUME ClockAssumption ==
    /\ TickRange \in Nat \ {0} /\ TicksPerMs \in Nat \ {0}
    /\ Timeouts \subseteq Nat /\ UpdateEvery \in Nat /\ MaxTime \in Nat

VARIABLES
    ticks,               \* the clock's integer
    timeout,             \* the timeout the application uses
    then,                \* the entry's timestamp, None for no entry
    outcome,             \* what the last call of update_transfers did
    time,                \* the time that has really passed
    stamped,             \* when the entry was really stamped
    updated              \* when update_transfers was last called

clock_vars == << ticks, timeout, then, outcome, time, stamped, updated >>

-----------------------------------------------------------------------------
(* Instant: a difference of more than half the range is a negative one.    *)
HalfRange == (TickRange - 1) \div 2

(* Faulty: the numbers are compared. *)
IsEarlierUnwrapped(x, y) == x < y

IsEarlier(x, y) == (x - y) % TickRange > HalfRange

(* Faulty: the difference does not wrap. *)
DurationSinceUnwrapped(x, y) == x - y

DurationSince(x, y) == (x - y) % TickRange

(* Duration::to_generic: milliseconds to ticks of the clock's width.       *)
ToGeneric(milliseconds) == milliseconds * TicksPerMs
ToGenericFails(milliseconds) == ToGeneric(milliseconds) >= TickRange

(* timestamp_expired: `-` and unwrap() may panic. *)
ExpiryOf(now) ==
    IF IsEarlier(now, then) \/ ToGenericFails(timeout) THEN "Panic"
    ELSE IF DurationSince(now, then) > ToGeneric(timeout) THEN "Expired" ELSE "Kept"

-----------------------------------------------------------------------------
ClockInit ==
    /\ ticks \in 0 .. TickRange - 1     \* a clock may have run before
    /\ timeout \in Timeouts
    /\ then = None
    /\ outcome = "None"
    /\ time = 0 /\ stamped = 0 /\ updated = 0

(* The application calls update_transfers often enough. *)
PassTime ==
    /\ time < MaxTime
    /\ time - updated < UpdateEvery
    /\ time' = time + 1
    /\ ticks' = (ticks + 1) % TickRange
    /\ UNCHANGED << timeout, then, outcome, stamped, updated >>

(* try_now, for the timestamp of a new transfer. *)
Stamp ==
    /\ then = None
    /\ then' = ticks
    /\ stamped' = time
    /\ UNCHANGED << ticks, timeout, outcome, time, updated >>

(* The entry is sent to its end, or cancelled. *)
Drop ==
    /\ then # None
    /\ then' = None
    /\ UNCHANGED << ticks, timeout, outcome, time, stamped, updated >>

CheckTimeout ==
    /\ outcome' = IF then = None THEN "None" ELSE ExpiryOf(ticks)
    /\ then' = IF outcome' = "Expired" THEN None ELSE then
    /\ updated' = time
    /\ UNCHANGED << ticks, timeout, time, stamped >>

(* After a panic nothing goes on. *)
ClockNext ==
    /\ outcome # "Panic"
    /\ PassTime \/ Stamp \/ Drop \/ CheckTimeout

ClockSpec == ClockInit /\ [][ClockNext]_clock_vars

-----------------------------------------------------------------------------
(* Properties. *)

(* Timeout and update period together stay within half the clock's range.  *)
Fits == ToGeneric(timeout) + UpdateEvery <= HalfRange

(* As long as they do, update_transfers does with a transfer what a clock  *)
(* that never wraps would make it do, and does not panic, also when the    *)
(* clock has gone round since the transfer was stamped.                    *)
ExpiresAsInRealTime ==
    [][CheckTimeout /\ Fits /\ then # None =>
         outcome' = IF TimestampExpired(ToGeneric(timeout), time, stamped)
                    THEN "Expired" ELSE "Kept"]_clock_vars

(* No entry outlives its timeout by more than the update period: none is   *)
(* taken for a young one because the clock has gone round.                 *)
GoneInTime ==
    Fits /\ then # None => time - stamped <= ToGeneric(timeout) + UpdateEvery
==============================================================================
