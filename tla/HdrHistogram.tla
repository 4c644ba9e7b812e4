---------------------------- MODULE HdrHistogram ----------------------------
(***************************************************************************)
(* The histogram that latencies and rates are recorded in                  *)
(* (src/src/hdr_histogram.c), as operators on a record of its counts.      *)
(*                                                                         *)
(* A value is found by a bucket, which says how coarse it is kept, and a   *)
(* sub-bucket within it.  Every bucket but the first uses the upper half   *)
(* of its sub-buckets.  In the code figures are decimal, hence Radix, and  *)
(* an argument is an int64_t, hence WordLength.                            *)
(***************************************************************************)
EXTENDS Integers, Sequences, FiniteSetsExt, Functions

CONSTANTS
    Radix,                    \* the base of a significant figure (10)
    lowest_trackable_value, highest_trackable_value, significant_figures,
    WordLength                \* bits of a value (64)

ASSUME HdrAssumption ==
    /\ Radix \in Nat \ {0, 1} /\ significant_figures \in 1..5
    /\ lowest_trackable_value \in Nat \ {0} /\ highest_trackable_value \in Nat \ {0}
    /\ WordLength \in Nat \ {0}
    /\ Radix ^ significant_figures \in Nat \ {0}

\* 1 << n.
TwoTo[n \in Nat] == IF n = 0 THEN 1 ELSE 2 * TwoTo[n - 1]

\* The bits that n >= 0 takes.
BitLength(n) == CHOOSE k \in 0..n : n < TwoTo[k] /\ (k > 0 => TwoTo[k - 1] <= n)

-----------------------------------------------------------------------------
(* hdr_init *)

largest_value_with_single_unit_resolution == 2 * Radix ^ significant_figures
sub_bucket_count_magnitude == BitLength(largest_value_with_single_unit_resolution - 1)
sub_bucket_half_count_magnitude ==
    (IF sub_bucket_count_magnitude > 1 THEN sub_bucket_count_magnitude ELSE 1) - 1
unit_magnitude        == BitLength(lowest_trackable_value) - 1
sub_bucket_count      == TwoTo[sub_bucket_half_count_magnitude + 1]
sub_bucket_half_count == sub_bucket_count \div 2
sub_bucket_mask       == (sub_bucket_count - 1) * TwoTo[unit_magnitude]
bucket_count == CHOOSE n \in 1..(highest_trackable_value + 1) :
    /\ sub_bucket_mask * TwoTo[n - 1] >= highest_trackable_value
    /\ n > 1 => sub_bucket_mask * TwoTo[n - 2] < highest_trackable_value
counts_len   == (bucket_count + 1) * sub_bucket_half_count

\* What the mask covers is positive as a word.
ASSUME MaskAssumption == sub_bucket_mask < TwoTo[WordLength - 1]

hdr_init == [counts |-> [i \in 0..(counts_len - 1) |-> 0], total_count |-> 0]
Histogram == [counts : [0..(counts_len - 1) -> Nat], total_count : Nat]

\* Mutant: the counts alone are cleared.
hdr_reset_KeepsTotal(h) == [hdr_init EXCEPT !.total_count = h.total_count]
hdr_reset(h) == hdr_init

-----------------------------------------------------------------------------
(* The place of a value and the values of a place.                          *)

get_bucket_index(value) ==
    (IF value < 0 THEN WordLength
     ELSE IF value > sub_bucket_mask THEN BitLength(value) ELSE BitLength(sub_bucket_mask))
        - unit_magnitude - (sub_bucket_half_count_magnitude + 1)

get_sub_bucket_index(value) == value \div TwoTo[get_bucket_index(value) + unit_magnitude]

counts_index(bucket, sub) ==
    (bucket + 1) * TwoTo[sub_bucket_half_count_magnitude] + (sub - sub_bucket_half_count)

counts_index_for(value) == counts_index(get_bucket_index(value), get_sub_bucket_index(value))

\* The assertions of counts_index, which the build leaves in: without them
\* the process is aborted.
AssertionsHold(value) ==
    /\ get_bucket_index(value) < bucket_count
    /\ get_sub_bucket_index(value) < sub_bucket_count
    /\ \/ get_bucket_index(value) = 0
       \/ get_sub_bucket_index(value) >= sub_bucket_half_count

value_from_index(bucket, sub) == sub * TwoTo[bucket + unit_magnitude]

size_of_equivalent_value_range(value) ==
    TwoTo[unit_magnitude + IF get_sub_bucket_index(value) >= sub_bucket_count
                           THEN get_bucket_index(value) + 1 ELSE get_bucket_index(value)]

lowest_equivalent_value(value) ==
    value_from_index(get_bucket_index(value), get_sub_bucket_index(value))

highest_equivalent_value(value) ==
    lowest_equivalent_value(value) + size_of_equivalent_value_range(value) - 1

median_equivalent_value(value) ==
    lowest_equivalent_value(value) + size_of_equivalent_value_range(value) \div 2

-----------------------------------------------------------------------------
(* Recording.                                                               *)

\* Mutant: the last place is taken to be out of range.
hdr_record_values_OneShort(h, value, count) ==
    IF counts_index_for(value) \in 0..(counts_len - 2)
    THEN [counts |-> [h.counts EXCEPT ![counts_index_for(value)] = @ + count],
          total_count |-> h.total_count + count]
    ELSE h

hdr_record_values(h, value, count) ==
    IF counts_index_for(value) \in 0..(counts_len - 1)
    THEN [counts |-> [h.counts EXCEPT ![counts_index_for(value)] = @ + count],
          total_count |-> h.total_count + count]
    ELSE h

hdr_record_value(h, value) == hdr_record_values(h, value, 1)

-----------------------------------------------------------------------------
(* hdr_iter: the places it comes to, one after the other, each with what it *)
(* finds there.                                                             *)

hdr_iter_init == [bucket |-> 0, sub |-> -1]

increment_bucket(here) ==
    IF here.sub + 1 >= sub_bucket_count
    THEN [bucket |-> here.bucket + 1, sub |-> sub_bucket_half_count]
    ELSE [bucket |-> here.bucket, sub |-> here.sub + 1]

move_next(here) ==
    LET to == increment_bucket(here)
        value == value_from_index(to.bucket, to.sub)
    IN  [bucket |-> to.bucket, sub |-> to.sub, value |-> value,
         highest |-> highest_equivalent_value(value), index |-> counts_index(to.bucket, to.sub)]

walk[n \in 0..counts_len] ==
    IF n = 0 THEN <<>>
    ELSE LET before == walk[n - 1]
         IN  Append(before, move_next(IF n = 1 THEN hdr_iter_init ELSE before[n - 1]))

place == walk[counts_len]

CountAt(h, n) == h.counts[place[n].index]
CountTo(h, n) ==
    LET to[k \in 0..n] == IF k = 0 THEN 0 ELSE to[k - 1] + CountAt(h, k) IN to[n]

\* The places hdr_iter_next stops at: it goes on while the counts it has
\* passed do not make up the total.
Visited(h)  == {n \in 1..counts_len : CountTo(h, n - 1) < h.total_count}
Recorded(h) == {n \in Visited(h) : CountAt(h, n) # 0}

-----------------------------------------------------------------------------
(* What is asked of a histogram.                                            *)

hdr_add(h, from) ==
    FoldSet(LAMBDA n, sum : hdr_record_values(sum, place[n].value, CountAt(from, n)),
            h, Recorded(from))

hdr_max(h) ==
    lowest_equivalent_value(IF Recorded(h) = {} THEN 0 ELSE place[Max(Recorded(h))].highest)

hdr_min(h) == LET reached == {n \in Visited(h) : CountTo(h, n) # 0}
              IN  IF reached = {} THEN 0 ELSE place[Min(reached)].value

\* The rank of a percentile among total values, rounded to the nearest.
\* Mutant: rounded down.
CountAtPercentile_Truncated(percentile, total) ==
    Max({1, (Min({percentile, 100}) * total) \div 100})

CountAtPercentile(percentile, total) ==
    Max({1, (2 * Min({percentile, 100}) * total + 100) \div 200})

hdr_value_at_percentile(h, percentile) ==
    LET rank    == CountAtPercentile(percentile, h.total_count)
        reached == {n \in Visited(h) : CountTo(h, n) >= rank}
    IN  IF reached = {} THEN 0 ELSE highest_equivalent_value(place[Min(reached)].value)

\* hdr_mean is this divided by the total: not a number when that is 0.
MedianSum(h) ==
    MapThenSumSet(LAMBDA n : CountAt(h, n) * median_equivalent_value(place[n].value), Recorded(h))
MeanIsZero(h) == h.total_count # 0 /\ MedianSum(h) = 0
=============================================================================
