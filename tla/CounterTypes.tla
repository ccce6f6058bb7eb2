---------------------------- MODULE CounterTypes ----------------------------
(***************************************************************************)
(* The counter types of mdcs-counters.c, and the range tracker of          *)
(* test/range-tracker.c (the type that the README builds), as operators on *)
(* their internal data.  The fields kept as double are exact rationals:    *)
(* rounding is left out.  Integers have Width bits and wrap, which is what *)
(* the compiled arithmetic does where C leaves signed overflow undefined.  *)
(*                                                                         *)
(*   "last"         MDCS_COUNTER_LAST_DOUBLE and MDCS_COUNTER_LAST_INT64,  *)
(*                  whose functions are the same but for the item type     *)
(*   "stat_double"  MDCS_COUNTER_STAT_DOUBLE                               *)
(*   "stat_int64"   MDCS_COUNTER_STAT_INT64: the product x*x is an int64   *)
(*   "range"        the range tracker                                      *)
(***************************************************************************)
EXTENDS Integers, Sequences, Rational

CONSTANT Width  \* bits in an integer item

ASSUME WidthAssumption == Width \in Nat \ {0}

Types == {"last", "stat_double", "stat_int64", "range"}

Half == 2^(Width - 1)  \* half of the values an integer has
MinInt == -Half
MaxInt == Half - 1

Unsigned(n) == n % (2 * Half)
Signed(n) == ((n - MinInt) % (2 * Half)) + MinInt

IsStat(type) == type \in {"stat_double", "stat_int64"}

-----------------------------------------------------------------------------
(* Plausible mistakes, for the mutants of PROJECT.json: an empty range      *)
(* tracker marked by a number no int32 holds, a batch whose first item      *)
(* wins, a difference read back as signed, a first push compared with the   *)
(* zeros of the reset, and a variance computed with the stale average.      *)

RangeBeyondInt == [min |-> MaxInt + 1, max |-> MinInt]

FirstOfBatch(items) == [value |-> Head(items)]

SignedDifference(d) ==
  IF d.min = MaxInt /\ d.max = MinInt THEN 0 ELSE Signed(d.max - d.min)

StatKeepsZero(d, x, square) ==
  [d EXCEPT !.count = @ + 1,
            !.min   = IF x < @ THEN x ELSE @,
            !.max   = IF x > @ THEN x ELSE @,
            !.last  = x]

StatWithOldAverage(d, x, square) ==
  LET n == d.count + 1
      p == Ratio(n - 1, n)
  IN  IF n = 1
      THEN [count |-> 1, min |-> x, max |-> x,
            avg |-> Whole(x), var |-> Whole(0), last |-> x]
      ELSE [d EXCEPT
              !.count = n,
              !.avg   = Plus(Times(p, @), Ratio(x, n - 1)),
              !.var   = Minus(Plus(Times(p, Plus(@, Square(d.avg))), Ratio(square, n)),
                              Square(d.avg))]

-----------------------------------------------------------------------------
(* last_double and last_int64 *)
LastReset == [value |-> 0]
LastPushed(x) == [value |-> x]
LastOfBatch(items) == [value |-> items[Len(items)]]
LastValue(d) == d.value

(* stat_double and stat_int64: their reset clears the whole structure, and   *)
(* their value is the structure.                                             *)
StatReset == [count |-> 0, min |-> 0, max |-> 0, avg |-> Whole(0), var |-> Whole(0), last |-> 0]

(* The push of the k-th item after the first; square is what x*x gives. *)
StatAccumulated(d, x, square) ==
  LET k   == d.count
      p   == Ratio(k, k + 1)
      avg == Plus(Times(p, d.avg), Ratio(x, k))
  IN  [count |-> k + 1,
       min   |-> IF x < d.min THEN x ELSE d.min,
       max   |-> IF x > d.max THEN x ELSE d.max,
       avg   |-> avg,
       var   |-> Minus(Plus(Times(p, Plus(d.var, Square(d.avg))), Ratio(square, k + 1)),
                       Square(avg)),
       last  |-> x]

StatPushed(d, x, square) ==
  IF d.count = 0
  THEN [count |-> 1, min |-> x, max |-> x, avg |-> Whole(x), var |-> Whole(0), last |-> x]
  ELSE StatAccumulated(d, x, square)

StatValue(d) == d

(* range_tracker *)
RangeReset == [min |-> MaxInt, max |-> MinInt]

RangePushed(d, x) ==
  [min |-> IF d.min > x THEN x ELSE d.min,
   max |-> IF d.max < x THEN x ELSE d.max]

RangeValue(d) ==
  IF d.min = MaxInt /\ d.max = MinInt THEN 0 ELSE Unsigned(d.max - d.min)

-----------------------------------------------------------------------------
(* The function pointers of the types. *)

(* reset_f *)
ResetData(type) ==
  CASE type = "last"  -> LastReset
    [] IsStat(type)   -> StatReset
    [] type = "range" -> RangeReset

(* push_one_f *)
PushOne(type, d, x) ==
  CASE type = "last"        -> LastPushed(x)
    [] type = "stat_double" -> StatPushed(d, x, x * x)
    [] type = "stat_int64"  -> StatPushed(d, x, Signed(x * x))
    [] type = "range"       -> RangePushed(d, x)

(* A loop over a batch, from its first item to its last. *)
PushEach(type, d, items) ==
  LET after[k \in 0..Len(items)] ==
        IF k = 0 THEN d ELSE PushOne(type, after[k - 1], items[k])
  IN  after[Len(items)]

RangePushedMulti(d, items) == PushEach("range", d, items)

(* push_multi_f, or the loop of push_one_f in mdcs_counter_digest for the  *)
(* types that leave it NULL                                                *)
PushMulti(type, d, items) ==
  CASE type = "last"  -> LastOfBatch(items)
    [] IsStat(type)   -> PushEach(type, d, items)
    [] type = "range" -> RangePushedMulti(d, items)

(* get_value_f *)
GetValue(type, d) ==
  CASE type = "last"  -> LastValue(d)
    [] IsStat(type)   -> StatValue(d)
    [] type = "range" -> RangeValue(d)
=============================================================================
