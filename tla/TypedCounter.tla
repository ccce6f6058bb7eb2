---------------------------- MODULE TypedCounter ----------------------------
(***************************************************************************)
(* A counter of a built-in type: the counter of MdcsCounter together with  *)
(* the internal data that its type keeps (CounterTypes).  Each call that   *)
(* changes the counter hands the type's functions what mdcs-service.c      *)
(* hands them: a batch for every digest, one item for a push without a     *)
(* buffer.  MdcsCounter shows which items the data has absorbed, in which  *)
(* order; this module shows what the data of each type then says of them.  *)
(***************************************************************************)
EXTENDS MdcsCounter, CounterTypes, Functions

ASSUME ItemsAssumption == Item \subseteq MinInt..MaxInt

VARIABLES
  type,  \* the counter's type
  data   \* counter_internal_data

typedVars == << vars, type, data >>

(* mdcs_counter_register resets the data it has created. *)
TypedInit ==
  /\ Init
  /\ type \in Types
  /\ data = ResetData(type)

DigestedData ==
  IF counter.num_buffered # 0 THEN PushMulti(type, data, Buffered(counter)) ELSE data

TypedPush(x) ==
  /\ Push(x)
  /\ data' = CASE counter.max_buffer_size = 0 -> PushOne(type, data, x)
               [] IsFull(counter) -> DigestedData
               [] OTHER -> data
  /\ UNCHANGED type

TypedDigest == Digest /\ data' = DigestedData /\ UNCHANGED type

TypedValue == Value /\ data' = DigestedData /\ UNCHANGED type

TypedReset == Reset /\ data' = ResetData(type) /\ UNCHANGED type

TypedNext ==
  \/ \E x \in Item : TypedPush(x)
  \/ TypedDigest
  \/ TypedValue
  \/ TypedReset

TypedSpec == TypedInit /\ [][TypedNext]_typedVars

-----------------------------------------------------------------------------
(* The items of the counter since its last reset, for the properties. *)
absorbed == counter.data
Absorbed == Range(absorbed)
Greatest(S) == CHOOSE x \in S : \A y \in S : y <= x
Least(S) == CHOOSE x \in S : \A y \in S : x <= y


Sum(F(_), s) ==
  LET total[k \in 0..Len(s)] == IF k = 0 THEN 0 ELSE total[k - 1] + F(s[k])
  IN  total[Len(s)]

(* Every field stays in the range of its C type, that of the range tracker   *)
(* for which MaxInt and MinInt mark an empty tracker included.               *)
TypedTypeOK ==
  /\ type \in Types
  /\ type = "last" => data.value \in MinInt..MaxInt
  /\ type = "range" => data.min \in MinInt..MaxInt /\ data.max \in MinInt..MaxInt
  /\ IsStat(type) =>
       /\ data.count \in Nat
       /\ {data.min, data.max, data.last} \subseteq MinInt..MaxInt
       /\ data.avg[2] > 0 /\ data.var[2] > 0

(* A LAST counter returns the item it absorbed last, whether it arrived      *)
(* alone, at the end of a full buffer, in the batch of a read, or before a   *)
(* reset that emptied the counter.                                           *)
LastIsLast ==
  type = "last" =>
    GetValue(type, data) = IF absorbed = << >> THEN 0 ELSE absorbed[Len(absorbed)]

(* count, min, max and last of a STAT counter are those of the items since   *)
(* the reset, although a reset leaves min and max at 0 (memset) and pushes   *)
(* of negative items only must not keep that 0.                              *)
StatsAreExact ==
  IsStat(type) /\ absorbed # << >> =>
    /\ GetValue(type, data).count = Len(absorbed)
    /\ GetValue(type, data).min = Least(Absorbed)
    /\ GetValue(type, data).max = Greatest(Absorbed)
    /\ GetValue(type, data).last = absorbed[Len(absorbed)]

(* The variance and the average of a STAT counter together give the exact    *)
(* mean of the squares of the items, avg^2 + var, whatever the average is:   *)
(* each push replaces one by the other without a loss.  For int64 items this *)
(* needs the products x*x to fit in an int64.                                *)
SecondMomentIsExact ==
  /\ IsStat(type) /\ absorbed # << >>
  /\ type = "stat_int64" => \A x \in Absorbed : x * x <= MaxInt
  => Plus(data.var, Square(data.avg)) = Ratio(Sum(LAMBDA x : x * x, absorbed), Len(absorbed))

(* The range tracker returns the distance between the least and the greatest *)
(* item, even where that distance does not fit in a signed item, and 0 for   *)
(* an empty tracker.                                                         *)
RangeIsExact ==
  type = "range" =>
    GetValue(type, data) =
      IF absorbed = << >> THEN 0 ELSE Greatest(Absorbed) - Least(Absorbed)

(* What README.md:100-101 says of the STAT counters: they "maintain          *)
(* statistics (count, min, max, average, variance, and last pushed value)".  *)
AverageIsMean ==
  IsStat(type) /\ absorbed # << >> =>
    data.avg = Ratio(Sum(LAMBDA x : x, absorbed), Len(absorbed))
=============================================================================
