----------------------------- MODULE BenchmarkGemm -----------------------------
(***************************************************************************)
(* The benchmark program (native/rvai_bench.cpp): it fills two matrices of *)
(* small numbers, multiplies them with 32-bit accumulators, verifies the   *)
(* product against 64-bit sums, and then multiplies them again a number of *)
(* times, of which it reports the 95th percentile.                         *)
(*                                                                         *)
(* Any positive sizes up to IntMax are taken.  What has no defined meaning *)
(* in the code is the overflow of an int.  In the expressions that fill    *)
(* the matrices a build computes them in 32 bits, and wraps, or in wider   *)
(* registers, and does not: size.wide says which.  An accumulator is only  *)
(* used once it is stored in 32 bits, so it wraps either way.  The 64-bit  *)
(* sums cannot overflow: a product is at most 441, and there are fewer     *)
(* than 2^31 of them.                                                      *)
(***************************************************************************)
EXTENDS Integers

CONSTANTS
    IntMax,      \* the largest int, 2^31 - 1
    Sizes,       \* the sizes the program is started with
    MaxLatency   \* bound on what a clock may measure

Int32 == (-IntMax - 1)..IntMax
Latencies == 0..MaxLatency
Size == [m: 1..IntMax, n: 1..IntMax, k: 1..IntMax, iterations: 1..IntMax,
         wide: BOOLEAN]

ASSUME GemmAssumption ==
    /\ IntMax \in Nat /\ IntMax >= 441
    /\ Sizes \subseteq Size
    /\ MaxLatency \in Nat

VARIABLES
    size,      \* m, n, k, iterations, and what the build does
    lhs,       \* by row and depth
    rhs,       \* by depth and column
    output,    \* by row and column
    loop,      \* where the program stands
    atMost,    \* how many of the measured latencies are not above each value
    p95,       \* what is reported
    sums       \* history: for each entry, the exact sums of its first products

vars == <<size, lhs, rhs, output, loop, atMost, p95, sums>>

Left == (0..(size.m - 1)) \X (0..(size.k - 1))
Right == (0..(size.k - 1)) \X (0..(size.n - 1))
Cells == (0..(size.m - 1)) \X (0..(size.n - 1))
Elements == (-21)..7    \* fits an int8

Passes == {"warm", "timed"}
Over == {"done", "unverified", "exhausted"}
Stages == Passes \cup {"fill", "verify", "report"} \cup Over
Loop == [pc: Stages, row: 0..(size.m - 1), column: 0..(size.n - 1), depth: 0..size.k,
         sum: Int, iteration: 0..size.iterations]

TypeOK ==
    /\ size \in Sizes
    /\ lhs \in [Left -> Elements]
    /\ rhs \in [Right -> Elements]
    /\ output \in [Cells -> Int32]
    /\ loop \in Loop
    /\ loop.pc \in Passes => loop.sum \in Int32
    /\ atMost \in [Latencies -> 0..loop.iteration]
    /\ p95 \in Latencies
    /\ sums \in [Cells -> [0..size.k -> Int]]

At(l) == loop.pc = l
Begin(l) == [loop EXCEPT !.pc = l, !.row = 0, !.column = 0, !.depth = 0, !.sum = 0]

\* The program starts, its options being what they must be.
Init ==
    /\ size \in Sizes
    /\ lhs = [c \in Left |-> 0] /\ rhs = [c \in Right |-> 0]
    /\ output = [c \in Cells |-> 0]
    /\ loop = [pc |-> "fill", row |-> 0, column |-> 0, depth |-> 0, sum |-> 0,
               iteration |-> 0]
    /\ atMost = [t \in Latencies |-> 0] /\ p95 = 0
    /\ sums = [c \in Cells |-> [d \in 0..size.k |-> 0]]

-----------------------------------------------------------------------------
Modulus == 2 * (IntMax + 1)
Wrap(v) == ((v + IntMax + 1) % Modulus) - (IntMax + 1)
Index(v) == IF size.wide THEN v ELSE Wrap(v)

\* Faulty variant: the remainders are not shifted.
ElementUnshifted(v) == IF v >= 0 THEN v % 15 ELSE 0 - ((0 - v) % 15)

\* The remainder of a negative number is negative.
Element(v) == (IF v >= 0 THEN v % 15 ELSE 0 - ((0 - v) % 15)) - 7

\* No memory for the three vectors, whose sizes fit a size_t, or, after the
\* verification, for the latencies.
Exhaust ==
    /\ At("fill") \/ (loop = Begin("timed") /\ loop.iteration = 0)
    /\ loop' = Begin("exhausted")
    /\ UNCHANGED <<size, lhs, rhs, output, atMost, p95, sums>>

\* fill_inputs, and the sum of the first entry is 0.
Fill ==
    /\ At("fill")
    /\ lhs' = [c \in Left |-> Element(Index(3 * c[1] + 5 * c[2]))]
    /\ rhs' = [c \in Right |-> Element(Index(7 * c[1] + 11 * c[2]))]
    /\ loop' = Begin("warm")
    /\ UNCHANGED <<size, output, atMost, p95, sums>>

Cell == <<loop.row, loop.column>>
Product == lhs[<<loop.row, loop.depth>>] * rhs[<<loop.depth, loop.column>>]
More == loop.depth < size.k
LastCell == loop.row = size.m - 1 /\ loop.column = size.n - 1

\* Faulty variant: rows and columns are taken for each other.
NextCellTransposed ==
    [loop EXCEPT !.depth = 0, !.sum = 0,
                 !.row = IF loop.column = size.m - 1 THEN @ + 1 ELSE @,
                 !.column = IF @ = size.m - 1 THEN 0 ELSE @ + 1]

NextCell ==
    [loop EXCEPT !.depth = 0, !.sum = 0,
                 !.row = IF loop.column = size.n - 1 THEN @ + 1 ELSE @,
                 !.column = IF @ = size.n - 1 THEN 0 ELSE @ + 1]

\* One more product, in either pass.
Accumulate ==
    /\ loop.pc \in Passes /\ More
    /\ loop' = [loop EXCEPT !.depth = @ + 1, !.sum = Wrap(@ + Product)]
    /\ sums' = IF At("warm")
               THEN [sums EXCEPT ![Cell][loop.depth + 1] = sums[Cell][loop.depth] + Product]
               ELSE sums
    /\ UNCHANGED <<size, lhs, rhs, output, atMost, p95>>

Follow(stage) ==
    /\ loop' = IF LastCell THEN Begin(stage) ELSE NextCell
    /\ UNCHANGED atMost

\* A pass has been timed.
Measure ==
    /\ \E t \in Latencies :
          atMost' = [u \in Latencies |-> IF t <= u THEN atMost[u] + 1 ELSE atMost[u]]
    /\ loop' = [Begin(IF loop.iteration + 1 = size.iterations THEN "report" ELSE "timed")
                EXCEPT !.iteration = @ + 1]

Store ==
    /\ loop.pc \in Passes /\ ~More
    /\ output' = [output EXCEPT ![Cell] = loop.sum]
    /\ IF At("timed") /\ LastCell THEN Measure ELSE Follow("verify")
    /\ UNCHANGED <<size, lhs, rhs, p95, sums>>

\* Faulty variant: the reference has 32 bits, like what it is held against.
ReferenceNarrow ==
    /\ At("verify") /\ More
    /\ loop' = [loop EXCEPT !.depth = @ + 1, !.sum = Wrap(@ + Product)]
    /\ UNCHANGED <<size, lhs, rhs, output, atMost, p95, sums>>

\* verify_result: one more product of the reference.
Reference ==
    /\ At("verify") /\ More
    /\ loop' = [loop EXCEPT !.depth = @ + 1, !.sum = @ + Product]
    /\ UNCHANGED <<size, lhs, rhs, output, atMost, p95, sums>>

Compare ==
    /\ At("verify") /\ ~More
    /\ IF output[Cell] = loop.sum THEN Follow("timed")
       ELSE loop' = [loop EXCEPT !.pc = "unverified"] /\ UNCHANGED atMost
    /\ UNCHANGED <<size, lhs, rhs, output, p95, sums>>

\* The ceiling of 0.95 * N; in double precision it comes out the same.
Rank == (95 * size.iterations + 99) \div 100

\* The latencies are sorted, and the one at Rank - 1, counting from 0, is taken.
Report ==
    /\ At("report")
    /\ p95' \in Latencies
    /\ atMost[p95'] >= Rank
    /\ \A t \in Latencies : t < p95' => atMost[t] < Rank
    /\ loop' = [loop EXCEPT !.pc = "done"]
    /\ UNCHANGED <<size, lhs, rhs, output, atMost, sums>>

Finished == loop.pc \in Over /\ UNCHANGED vars

Next ==
    \/ Exhaust \/ Fill \/ Accumulate \/ Store \/ Reference \/ Compare \/ Report
    \/ Finished

Spec == Init /\ [][Next]_vars

-----------------------------------------------------------------------------
(* Properties                                                              *)

Exact(c) == sums[c][size.k]

\* The verification accepts a product that is right and no other, whatever
\* overflowed: a sum that leaves the 32 bits and comes back is right.
VerdictRight ==
    /\ At("unverified") => \E c \in Cells : Exact(c) \notin Int32
    /\ loop.pc \in {"timed", "report", "done"} => \A c \in Cells : output[c] = Exact(c)

\* The sizes for which nothing overflows, whatever the build, so that the
\* program never rejects its own product.
Safe ==
    /\ 3 * (size.m - 1) + 5 * (size.k - 1) <= IntMax
    /\ 7 * (size.k - 1) + 11 * (size.n - 1) <= IntMax
    /\ 49 * size.k <= IntMax
SafeSizes ==
    Safe => /\ ~At("unverified")
            /\ \A c \in Cells, d \in 0..size.k : sums[c][d] \in Int32

\* At least 95 per cent of the latencies are not above the reported one, and
\* fewer are below it.
NearestRank ==
    At("done") =>
        /\ 100 * atMost[p95] >= 95 * size.iterations
        /\ \A t \in Latencies : t < p95 => 100 * atMost[t] < 95 * size.iterations
=============================================================================
