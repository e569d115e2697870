-------------------------- MODULE BenchmarkGemmProofs --------------------------
(***************************************************************************)
(* Proofs about BenchmarkGemm, for every width of an int and all sizes.    *)
(***************************************************************************)
EXTENDS BenchmarkGemm, TLAPS

\* Two numbers that are the same in the bits of an int.
Near(a, b) == \E q \in Int : a = b + q * Modulus

-----------------------------------------------------------------------------
(* Arithmetic                                                              *)

LEMMA WidthFacts ==
    /\ IntMax \in Nat /\ Modulus \in Nat \ {0} /\ Modulus = 2 * IntMax + 2
    /\ 441 \in Int32 /\ 0 \in Int32 /\ Int32 \subseteq Int
    /\ \A v : v \in Int32 <=> v \in Int /\ 0 - IntMax - 1 <= v /\ v <= IntMax
BY GemmAssumption DEF GemmAssumption, Modulus, Int32

LEMMA Division ==
    ASSUME NEW t \in Int, NEW M \in Nat \ {0}
    PROVE  /\ t % M \in 0..(M - 1) /\ t \div M \in Int
           /\ t = M * (t \div M) + (t % M)
           /\ t \in 0..(M - 1) => t % M = t
OBVIOUS

LEMMA WrapFacts ==
    ASSUME NEW v \in Int
    PROVE  /\ Wrap(v) \in Int32 /\ Near(Wrap(v), v)
           /\ v \in Int32 => Wrap(v) = v
<1> DEFINE t == v + IntMax + 1
<1>1. t \in Int
  BY WidthFacts
<1>2. /\ t % Modulus \in 0..(Modulus - 1) /\ t \div Modulus \in Int
      /\ t = Modulus * (t \div Modulus) + (t % Modulus)
      /\ t \in 0..(Modulus - 1) => t % Modulus = t
  <2>1. Modulus \in Nat \ {0}
    BY WidthFacts
  <2> HIDE DEF t
  <2> QED
    BY <1>1, <2>1, Division
<1>3. Wrap(v) = (t % Modulus) - (IntMax + 1)
  BY DEF Wrap
<1>4. Wrap(v) \in Int32
  BY <1>2, <1>3, WidthFacts
<1>5. v \in Int32 => Wrap(v) = v
  BY <1>2, <1>3, WidthFacts
<1>6. Near(Wrap(v), v)
  <2> DEFINE q == t \div Modulus
  <2>1. q \in Int /\ (0 - q) \in Int
    BY <1>2
  <2>2. Wrap(v) = v - Modulus * q
    BY <1>2, <1>3, WidthFacts
  <2>3. (0 - q) * Modulus = 0 - Modulus * q
    <3> HIDE DEF q
    <3> QED
      BY <2>1, WidthFacts
  <2>4. Modulus * q \in Int
    <3> HIDE DEF q
    <3> QED
      BY <2>1, WidthFacts
  <2>5. Wrap(v) = v + (0 - q) * Modulus
    <3> HIDE DEF q
    <3> QED
      BY <2>2, <2>3, <2>4
  <2> HIDE DEF q
  <2> QED
    BY <2>1, <2>5 DEF Near
<1> QED
  BY <1>4, <1>5, <1>6

LEMMA NearSame ==
    ASSUME NEW a \in Int32, NEW b \in Int32, Near(a, b)
    PROVE  a = b
<1>1. PICK q \in Int : a = b + q * Modulus
  BY DEF Near
<1>2. a \in Int /\ b \in Int /\ a - b < Modulus /\ b - a < Modulus
  BY WidthFacts
<1>3. CASE q >= 1
  <2>1. q * Modulus >= Modulus /\ q * Modulus \in Int
    BY <1>3, WidthFacts
  <2> QED
    BY <1>1, <1>2, <2>1, WidthFacts
<1>4. CASE q <= -1
  <2>1. q * Modulus <= 0 - Modulus /\ q * Modulus \in Int
    BY <1>4, WidthFacts
  <2> QED
    BY <1>1, <1>2, <2>1, WidthFacts
<1>5. CASE q = 0
  BY <1>1, <1>2, <1>5, WidthFacts
<1> QED
  BY <1>3, <1>4, <1>5

LEMMA NearSum ==
    ASSUME NEW a \in Int, NEW b \in Int, NEW x \in Int, Near(a, b)
    PROVE  Near(Wrap(a + x), b + x)
<1>1. PICK p \in Int : a = b + p * Modulus
  BY DEF Near
<1>2. PICK q \in Int : Wrap(a + x) = (a + x) + q * Modulus
  BY WrapFacts DEF Near
<1>3. (p + q) * Modulus = p * Modulus + q * Modulus /\ p + q \in Int
      /\ p * Modulus \in Int /\ q * Modulus \in Int
  BY WidthFacts
<1>4. Wrap(a + x) = (b + x) + (p + q) * Modulus
  BY <1>1, <1>2, <1>3
<1> QED
  BY <1>3, <1>4 DEF Near

LEMMA ElementFacts ==
    ASSUME NEW v \in Int
    PROVE  /\ Element(v) \in Elements
           /\ v >= 0 => Element(v) \in (-7)..7
BY DEF Element, Elements

LEMMA Products ==
    ASSUME NEW x \in Int, NEW y \in Int
    PROVE  /\ x * y \in Int
           /\ x \in (-7)..7 /\ y \in (-7)..7 => x * y \in (-49)..49
OBVIOUS

-----------------------------------------------------------------------------
(* The inductive invariant                                                 *)

Before(c) == c[1] < loop.row \/ (c[1] = loop.row /\ c[2] < loop.column)
Verifying == loop.pc \in {"verify", "unverified"}
Behind == loop.pc \in {"timed", "report", "done"}

\* How many products of an entry have been summed up exactly.
Done(c) == IF At("warm") THEN IF Before(c) THEN size.k ELSE IF c = Cell THEN loop.depth ELSE 0
           ELSE IF Verifying \/ Behind THEN size.k ELSE 0

\* The exact sums are those of the products.
Chained ==
    ~At("exhausted") => \A c \in Cells :
        /\ sums[c][0] = 0
        /\ \A d \in 0..(size.k - 1) :
              sums[c][d + 1] = IF d < Done(c) THEN sums[c][d] + lhs[<<c[1], d>>] * rhs[<<d, c[2]>>] ELSE 0

\* The sum that a loop is at, and the sums that were stored.
Summing ==
    /\ loop.pc \in Passes => Near(loop.sum, sums[Cell][loop.depth])
    /\ At("verify") => loop.sum = sums[Cell][loop.depth]
Stored ==
    /\ At("warm") => \A c \in Cells : Before(c) => Near(output[c], Exact(c))
    /\ Verifying => \A c \in Cells : Near(output[c], Exact(c))

\* What the verification has seen.
Verified ==
    /\ At("verify") => \A c \in Cells : Before(c) => output[c] = Exact(c)
    /\ Behind => \A c \in Cells : output[c] = Exact(c)
    /\ At("unverified") => \E c \in Cells : output[c] # Exact(c)

\* Where a pass is timed, there is one left to time.
Counting ==
    /\ loop.pc \in {"fill", "warm", "verify"} => loop.iteration = 0
    /\ At("timed") => loop.iteration < size.iterations

IInv == TypeOK /\ Chained /\ Summing /\ Stored /\ Verified /\ Counting

-----------------------------------------------------------------------------
(* Loops                                                                   *)

LEMMA SizeFacts ==
    ASSUME TypeOK
    PROVE  /\ size.m \in Nat \ {0} /\ size.n \in Nat \ {0} /\ size.k \in Nat \ {0}
           /\ size.iterations \in Nat \ {0} /\ size \in Size
           /\ loop.row \in 0..(size.m - 1) /\ loop.column \in 0..(size.n - 1)
           /\ loop.depth \in 0..size.k /\ loop.iteration \in 0..size.iterations
           /\ loop.row \in Nat /\ loop.column \in Nat /\ loop.depth \in Nat
           /\ Cell \in Cells
<1>1. size \in Size /\ IntMax \in Nat
  BY GemmAssumption DEF GemmAssumption, TypeOK
<1>2. /\ size.m \in Nat \ {0} /\ size.n \in Nat \ {0} /\ size.k \in Nat \ {0}
      /\ size.iterations \in Nat \ {0}
  BY <1>1 DEF Size
<1>3. /\ loop.row \in 0..(size.m - 1) /\ loop.column \in 0..(size.n - 1)
      /\ loop.depth \in 0..size.k /\ loop.iteration \in 0..size.iterations
  BY DEF TypeOK, Loop
<1>4. loop.row \in Nat /\ loop.column \in Nat /\ loop.depth \in Nat
  BY <1>2, <1>3
<1>5. Cell \in Cells
  BY <1>3 DEF Cell, Cells
<1> QED
  BY <1>1, <1>2, <1>3, <1>4, <1>5

\* Cells are taken row by row.
LEMMA NextCellFacts ==
    ASSUME TypeOK, ~LastCell
    PROVE  /\ NextCell.row \in 0..(size.m - 1) /\ NextCell.column \in 0..(size.n - 1)
           /\ NextCell = [loop EXCEPT !.row = NextCell.row, !.column = NextCell.column,
                                      !.depth = 0, !.sum = 0]
           /\ \A c \in Cells :
                 (c[1] < NextCell.row \/ (c[1] = NextCell.row /\ c[2] < NextCell.column))
                    <=> (Before(c) \/ c = Cell)
<1>1. NextCell.row = (IF loop.column = size.n - 1 THEN loop.row + 1 ELSE loop.row)
      /\ NextCell.column = (IF loop.column = size.n - 1 THEN 0 ELSE loop.column + 1)
  BY DEF TypeOK, Loop, NextCell
<1>2. NextCell = [loop EXCEPT !.row = NextCell.row, !.column = NextCell.column,
                              !.depth = 0, !.sum = 0]
  BY <1>1 DEF TypeOK, Loop, NextCell
<1>3. NextCell.row \in 0..(size.m - 1) /\ NextCell.column \in 0..(size.n - 1)
  BY <1>1, SizeFacts DEF LastCell
<1>4. ASSUME NEW c \in Cells
      PROVE  (c[1] < NextCell.row \/ (c[1] = NextCell.row /\ c[2] < NextCell.column))
                <=> (Before(c) \/ c = Cell)
  <2>1. /\ c = <<c[1], c[2]>> /\ c[1] \in 0..(size.m - 1) /\ c[2] \in 0..(size.n - 1)
        /\ c[1] \in Nat /\ c[2] \in Nat
    BY SizeFacts DEF Cells
  <2>2. c = Cell <=> c[1] = loop.row /\ c[2] = loop.column
    BY <2>1 DEF Cell
  <2> QED
    BY <1>1, <2>1, <2>2, SizeFacts DEF Before
<1> QED
  BY <1>2, <1>3, <1>4

\* In the last cell, all others are behind.
LEMMA LastCellFacts ==
    ASSUME TypeOK, LastCell, NEW c \in Cells
    PROVE  Before(c) \/ c = Cell
<1>1. /\ c = <<c[1], c[2]>> /\ c[1] \in 0..(size.m - 1) /\ c[2] \in 0..(size.n - 1)
  BY DEF Cells
<1> QED
  BY <1>1, SizeFacts DEF LastCell, Before, Cell

LEMMA ProductFacts ==
    ASSUME TypeOK, NEW c \in Cells, NEW d \in 0..(size.k - 1)
    PROVE  /\ lhs[<<c[1], d>>] \in Int /\ rhs[<<d, c[2]>>] \in Int
           /\ lhs[<<c[1], d>>] * rhs[<<d, c[2]>>] \in Int
           /\ c = Cell /\ d = loop.depth => Product = lhs[<<c[1], d>>] * rhs[<<d, c[2]>>]
<1>1. <<c[1], d>> \in Left /\ <<d, c[2]>> \in Right
  BY DEF Cells, Left, Right
<1>2. lhs[<<c[1], d>>] \in Elements /\ rhs[<<d, c[2]>>] \in Elements
  BY <1>1 DEF TypeOK
<1>3. lhs[<<c[1], d>>] \in Int /\ rhs[<<d, c[2]>>] \in Int
  BY <1>2 DEF Elements
<1>4. c = Cell /\ d = loop.depth => Product = lhs[<<c[1], d>>] * rhs[<<d, c[2]>>]
  BY DEF Cell, Product
<1> QED
  BY <1>3, <1>4, Products

LEMMA Beginning ==
    ASSUME TypeOK, NEW l \in Stages
    PROVE  /\ Begin(l) \in Loop /\ Begin(l).pc = l
           /\ Begin(l).row = 0 /\ Begin(l).column = 0 /\ Begin(l).depth = 0
           /\ Begin(l).sum = 0 /\ Begin(l).iteration = loop.iteration
<1>1. 0 \in 0..(size.m - 1) /\ 0 \in 0..(size.n - 1) /\ 0 \in 0..size.k /\ 0 \in Int
  BY SizeFacts
<1> QED
  BY <1>1 DEF TypeOK, Loop, Begin

\* At the beginning of a loop over the cells, none is behind.
LEMMA AtFirst ==
    ASSUME TypeOK, NEW l \in Stages, loop' = Begin(l), UNCHANGED size
    PROVE  /\ loop' \in Loop /\ loop'.pc = l /\ loop'.sum = 0 /\ loop'.depth = 0
           /\ Cell' = <<0, 0>> /\ Cell' \in Cells
           /\ \A c \in Cells : ~Before(c)'
<1>1. /\ loop' \in Loop /\ loop'.pc = l /\ loop'.sum = 0 /\ loop'.depth = 0
      /\ loop'.row = 0 /\ loop'.column = 0
  BY Beginning
<1>2. Cell' = <<0, 0>> /\ <<0, 0>> \in Cells
  BY <1>1, SizeFacts DEF Cell, Cells
<1>3. ASSUME NEW c \in Cells PROVE ~Before(c)'
  <2>1. c[1] \in Nat /\ c[2] \in Nat
    BY SizeFacts DEF Cells
  <2> QED
    BY <1>1, <2>1 DEF Before
<1> QED
  BY <1>1, <1>2, <1>3

\* From one cell to the next.
LEMMA AtNext ==
    ASSUME TypeOK, ~LastCell, loop' = NextCell, UNCHANGED size
    PROVE  /\ loop' \in Loop /\ loop'.pc = loop.pc /\ loop'.sum = 0 /\ loop'.depth = 0
           /\ loop'.iteration = loop.iteration /\ Cell' \in Cells
           /\ \A c \in Cells : Before(c)' <=> Before(c) \/ c = Cell
<1>1. /\ loop'.row \in 0..(size.m - 1) /\ loop'.column \in 0..(size.n - 1)
      /\ loop' = [loop EXCEPT !.row = loop'.row, !.column = loop'.column,
                              !.depth = 0, !.sum = 0]
      /\ \A c \in Cells : Before(c)' <=> Before(c) \/ c = Cell
  BY NextCellFacts DEF Before
<1>2. /\ loop' \in Loop /\ loop'.pc = loop.pc /\ loop'.sum = 0 /\ loop'.depth = 0
      /\ loop'.iteration = loop.iteration
  <2>1. PICK r \in 0..(size.m - 1), s \in 0..(size.n - 1) :
          loop' = [loop EXCEPT !.row = r, !.column = s, !.depth = 0, !.sum = 0]
    BY <1>1
  <2>2. 0 \in 0..size.k /\ 0 \in Int /\ loop \in Loop
    BY SizeFacts DEF TypeOK
  <2> QED
    BY <2>1, <2>2 DEF Loop
<1>3. Cell' \in Cells
  BY <1>1 DEF Cell, Cells
<1> QED
  BY <1>1, <1>2, <1>3

\* One product further, the sum being x.
LEMMA AtDeeper ==
    ASSUME TypeOK, More, NEW x \in Int, UNCHANGED size,
           loop' = [loop EXCEPT !.depth = @ + 1, !.sum = x]
    PROVE  /\ loop' \in Loop /\ loop'.pc = loop.pc /\ loop'.sum = x
           /\ loop'.depth = loop.depth + 1 /\ loop.depth \in 0..(size.k - 1)
           /\ loop'.iteration = loop.iteration /\ Cell' = Cell
           /\ \A c \in Cells : Before(c)' = Before(c)
<1>1. loop.depth \in 0..(size.k - 1) /\ loop.depth + 1 \in 0..size.k
  BY SizeFacts DEF More
<1>2. /\ loop' \in Loop /\ loop'.pc = loop.pc /\ loop'.sum = x
      /\ loop'.depth = loop.depth + 1 /\ loop'.iteration = loop.iteration
      /\ loop'.row = loop.row /\ loop'.column = loop.column
  BY <1>1 DEF TypeOK, Loop
<1> QED
  BY <1>1, <1>2 DEF Cell, Before

-----------------------------------------------------------------------------
(* The invariant over the steps                                            *)

LEMMA NearItself ==
    ASSUME NEW a \in Int
    PROVE  Near(a, a)
<1>1. 0 \in Int /\ a = a + 0 * Modulus
  BY WidthFacts
<1> QED
  BY <1>1 DEF Near

\* The exact sums are integers, and the next one is there after the first pass.
LEMMA ChainFacts ==
    ASSUME TypeOK, Chained, ~At("exhausted"), NEW c \in Cells
    PROVE  /\ \A d \in 0..size.k : sums[c][d] \in Int
           /\ Exact(c) \in Int /\ sums[c][0] = 0
           /\ \A d \in 0..(size.k - 1) : d < Done(c) =>
                 sums[c][d + 1] = sums[c][d] + lhs[<<c[1], d>>] * rhs[<<d, c[2]>>]
<1>1. \A d \in 0..size.k : sums[c][d] \in Int
  BY DEF TypeOK
<1>2. Exact(c) \in Int
  BY <1>1, SizeFacts DEF Exact
<1> QED
  BY <1>1, <1>2 DEF Chained

LEMMA InitInvariant == Init => IInv
<1> SUFFICES ASSUME Init PROVE IInv
  OBVIOUS
<1>1. size \in Size /\ IntMax \in Nat /\ MaxLatency \in Nat
  BY GemmAssumption DEF Init, GemmAssumption
<1>2. /\ size.m \in Nat \ {0} /\ size.n \in Nat \ {0} /\ size.k \in Nat \ {0}
      /\ size.iterations \in Nat \ {0}
  BY <1>1 DEF Size
<1>3. loop \in Loop /\ loop.pc = "fill" /\ loop.iteration = 0
  BY <1>2 DEF Init, Loop, Stages
<1>4. /\ lhs \in [Left -> Elements] /\ rhs \in [Right -> Elements]
      /\ output \in [Cells -> Int32]
  BY WidthFacts DEF Init, Elements
<1>5. /\ atMost \in [Latencies -> 0..0] /\ p95 \in Latencies
      /\ sums \in [Cells -> [0..size.k -> Int]]
  BY <1>1 DEF Init, Latencies
<1>6. TypeOK
  BY <1>3, <1>4, <1>5 DEF TypeOK, Init, Passes
<1>7. Chained
  <2> SUFFICES ASSUME NEW c \in Cells
               PROVE  /\ sums[c][0] = 0
                      /\ \A d \in 0..(size.k - 1) : sums[c][d + 1] = 0 /\ ~(d < Done(c))
    BY DEF Chained
  <2>1. Done(c) = 0
    BY <1>3 DEF Done, At, Verifying, Behind
  <2>2. sums[c] = [d \in 0..size.k |-> 0]
    BY DEF Init
  <2> QED
    BY <1>2, <2>1, <2>2
<1>8. Summing /\ Stored /\ Verified /\ Counting
  BY <1>3 DEF Summing, Stored, Verified, Counting, Passes, At, Verifying, Behind
<1> QED
  BY <1>6, <1>7, <1>8 DEF IInv

LEMMA ExhaustKeeps == ASSUME IInv, Exhaust PROVE IInv'
<1>1. TypeOK /\ loop' = Begin("exhausted")
      /\ UNCHANGED <<size, lhs, rhs, output, atMost, p95, sums>>
  BY DEF IInv, Exhaust
<1>2. loop' \in Loop /\ loop'.pc = "exhausted"
  BY <1>1, AtFirst DEF Stages, Over
<1>3. loop'.iteration = loop.iteration
  BY <1>1, Beginning DEF Stages, Over
<1>4. TypeOK'
  BY <1>1, <1>2, <1>3 DEF TypeOK, Loop, Left, Right, Cells, Latencies, Passes
<1>5. (Chained /\ Summing /\ Stored /\ Verified /\ Counting)'
  BY <1>2 DEF Chained, Summing, Stored, Verified, Counting, At, Verifying, Behind, Passes
<1> QED
  BY <1>4, <1>5 DEF IInv

LEMMA FillKeeps == ASSUME IInv, Fill PROVE IInv'
<1>0. TypeOK /\ Chained /\ At("fill") /\ loop' = Begin("warm")
      /\ UNCHANGED <<size, output, atMost, p95, sums>>
  BY DEF IInv, Fill
<1>2. /\ loop' \in Loop /\ loop'.pc = "warm" /\ loop'.sum = 0 /\ loop'.depth = 0
      /\ Cell' \in Cells /\ \A c \in Cells : ~Before(c)'
  BY <1>0, AtFirst DEF Stages, Passes
<1>3. lhs' \in [Left -> Elements] /\ rhs' \in [Right -> Elements]
  <2>1. ASSUME NEW i \in Nat, NEW j \in Nat
        PROVE  /\ Element(Index(3 * i + 5 * j)) \in Elements
               /\ Element(Index(7 * i + 11 * j)) \in Elements
    <3>1. 3 * i + 5 * j \in Int /\ 7 * i + 11 * j \in Int
      OBVIOUS
    <3>2. Index(3 * i + 5 * j) \in Int /\ Index(7 * i + 11 * j) \in Int
      BY <3>1, WrapFacts, WidthFacts DEF Index
    <3> QED
      BY <3>2, ElementFacts
  <2>2. \A c \in Left : c[1] \in Nat /\ c[2] \in Nat
    BY <1>0, SizeFacts DEF Left
  <2>3. \A c \in Right : c[1] \in Nat /\ c[2] \in Nat
    BY <1>0, SizeFacts DEF Right
  <2> QED
    BY <2>1, <2>2, <2>3 DEF Fill
<1>4. loop'.iteration = loop.iteration
  BY <1>0, Beginning DEF Stages, Passes
<1>5. TypeOK'
  BY <1>0, <1>2, <1>3, <1>4, WidthFacts
     DEF TypeOK, Loop, Left, Right, Cells, Latencies, Passes
<1>6. Chained'
  <2>1. \A c \in Cells : Done(c) = 0 /\ Done(c)' = 0
    BY <1>0, <1>2 DEF Done, At, Verifying, Behind
  <2> QED
    BY <1>0, <2>1, SizeFacts DEF Chained, Cells, At
<1>7. Summing'
  <2>1. sums[Cell'][0] = 0
    BY <1>0, <1>2 DEF Chained, At
  <2> QED
    BY <1>0, <1>2, <2>1, NearItself DEF Summing, At
<1>8. (Stored /\ Verified /\ Counting)'
  BY <1>0, <1>2, <1>4
     DEF IInv, Stored, Verified, Counting, At, Verifying, Behind, Cells
<1> QED
  BY <1>5, <1>6, <1>7, <1>8 DEF IInv

\* What the invariant says of the loop, where there is one more product.
LEMMA DeeperFacts ==
    ASSUME IInv, More, loop.pc \in Passes \cup {"verify"}
    PROVE  /\ TypeOK /\ Chained /\ ~At("exhausted") /\ Cell \in Cells
           /\ loop.depth \in 0..(size.k - 1) /\ Product \in Int
           /\ Product = lhs[<<Cell[1], loop.depth>>] * rhs[<<loop.depth, Cell[2]>>]
           /\ sums[Cell][loop.depth] \in Int /\ loop.sum \in Int
<1>1. TypeOK /\ Chained /\ ~At("exhausted")
  BY DEF IInv, At, Passes
<1>2. Cell \in Cells /\ loop.depth \in 0..(size.k - 1) /\ loop.depth \in 0..size.k
  BY <1>1, SizeFacts DEF More
<1>3. Product \in Int
      /\ Product = lhs[<<Cell[1], loop.depth>>] * rhs[<<loop.depth, Cell[2]>>]
  BY <1>1, <1>2, ProductFacts
<1>4. sums[Cell][loop.depth] \in Int
  BY <1>1, <1>2, ChainFacts
<1>5. loop.sum \in Int
  BY <1>1 DEF TypeOK, Loop
<1> QED
  BY <1>1, <1>2, <1>3, <1>4, <1>5

LEMMA AccumulateKeeps == ASSUME IInv, Accumulate PROVE IInv'
<1>0. loop.pc \in Passes /\ More /\ UNCHANGED <<size, lhs, rhs, output, atMost, p95>>
  BY DEF Accumulate
<1>1. /\ TypeOK /\ Chained /\ ~At("exhausted") /\ Cell \in Cells
      /\ loop.depth \in 0..(size.k - 1) /\ Product \in Int
      /\ Product = lhs[<<Cell[1], loop.depth>>] * rhs[<<loop.depth, Cell[2]>>]
      /\ sums[Cell][loop.depth] \in Int /\ loop.sum \in Int
  BY <1>0, DeeperFacts
<1>2. PICK x \in Int : x = Wrap(loop.sum + Product)
  BY <1>1, WrapFacts, WidthFacts
<1>3. /\ loop' \in Loop /\ loop'.pc = loop.pc /\ loop'.sum = x
      /\ loop'.depth = loop.depth + 1 /\ loop'.iteration = loop.iteration
      /\ Cell' = Cell /\ \A c \in Cells : Before(c)' = Before(c)
  <2>1. loop' = [loop EXCEPT !.depth = @ + 1, !.sum = x]
    BY <1>2 DEF Accumulate
  <2> QED
    BY <1>0, <1>1, <2>1, AtDeeper
<1>4. x \in Int32 /\ Near(x, sums[Cell][loop.depth] + Product)
  <2>1. loop.sum + Product \in Int
    BY <1>1
  <2>2. Near(loop.sum, sums[Cell][loop.depth])
    BY <1>0 DEF IInv, Summing
  <2> QED
    BY <1>1, <1>2, <2>1, <2>2, WrapFacts, NearSum
<1>5. Cells' = Cells /\ size.k \in Nat \ {0} /\ loop.depth + 1 \in 0..size.k
  BY <1>0, <1>1, SizeFacts DEF Cells
<1>6. Counting'
  BY <1>0, <1>3 DEF IInv, Counting, At
<1>7. CASE At("timed")
  <2>1. sums' = sums
    BY <1>7 DEF Accumulate, At
  <2>2. TypeOK'
    BY <1>0, <1>1, <1>3, <1>4, <2>1 DEF TypeOK, Loop, Left, Right, Cells, Latencies
  <2>3. \A c \in Cells : Done(c)' = Done(c) /\ Done(c) = size.k
    BY <1>0, <1>3, <1>7 DEF Done, At, Behind, Verifying
  <2>4. Chained'
    BY <1>0, <1>1, <1>5, <2>1, <2>3 DEF Chained
  <2>5. sums[Cell][loop.depth + 1] = sums[Cell][loop.depth] + Product
    BY <1>1, <1>5, <2>3, ChainFacts
  <2>6. Summing'
    BY <1>3, <1>4, <1>7, <2>1, <2>5 DEF Summing, At
  <2>7. (Stored /\ Verified)'
    BY <1>0, <1>3, <1>5, <1>7, <2>1
       DEF IInv, Stored, Verified, At, Verifying, Behind, Exact
  <2> QED
    BY <1>6, <2>2, <2>4, <2>6, <2>7 DEF IInv
<1>8. CASE At("warm")
  <2> DEFINE y == sums[Cell][loop.depth] + Product
  <2>1. y \in Int
    BY <1>1
  <2>2. sums' = [sums EXCEPT ![Cell][loop.depth + 1] = y]
    BY <1>8 DEF Accumulate
  <2>3. /\ sums'[Cell][loop.depth + 1] = y
        /\ \A d \in 0..size.k : d # loop.depth + 1 => sums'[Cell][d] = sums[Cell][d]
        /\ \A c \in Cells : c # Cell => sums'[c] = sums[c]
        /\ sums' \in [Cells -> [0..size.k -> Int]]
    <3> HIDE DEF y
    <3> QED
      BY <1>1, <1>5, <2>1, <2>2 DEF TypeOK
  <2>4. TypeOK'
    BY <1>0, <1>1, <1>3, <1>4, <2>3 DEF TypeOK, Loop, Left, Right, Cells, Latencies
  <2>5. \A c \in Cells :
           /\ c # Cell => Done(c)' = Done(c)
           /\ c = Cell => Done(c) = loop.depth /\ Done(c)' = loop.depth + 1
    <3>1. \A c \in Cells : c = Cell => ~Before(c) /\ ~Before(c)'
      <4>1. ~Before(Cell)
        BY <1>1, SizeFacts DEF Before, Cell
      <4> QED
        BY <1>3, <4>1
    <3> QED
      BY <1>0, <1>3, <1>8, <3>1 DEF Done, At
  <2>6. Chained'
    <3> SUFFICES ASSUME NEW c \in Cells
                 PROVE  /\ sums'[c][0] = 0
                        /\ \A d \in 0..(size.k - 1) :
                              sums'[c][d + 1] =
                                 IF d < Done(c)'
                                 THEN sums'[c][d] + lhs[<<c[1], d>>] * rhs[<<d, c[2]>>]
                                 ELSE 0
      BY <1>0, <1>5 DEF Chained
    <3>1. sums[c][0] = 0 /\ \A d \in 0..(size.k - 1) :
            sums[c][d + 1] = IF d < Done(c) THEN sums[c][d] + lhs[<<c[1], d>>] * rhs[<<d, c[2]>>] ELSE 0
      BY <1>1 DEF Chained
    <3>2. CASE c # Cell
      BY <2>3, <2>5, <3>1, <3>2
    <3>3. CASE c = Cell
      <4>0. /\ sums'[c][loop.depth + 1] = sums[c][loop.depth] + Product
            /\ \A d \in 0..size.k : d # loop.depth + 1 => sums'[c][d] = sums[c][d]
            /\ Product = lhs[<<c[1], loop.depth>>] * rhs[<<loop.depth, c[2]>>]
            /\ Done(c) = loop.depth /\ Done(c)' = loop.depth + 1
        BY <1>1, <2>3, <2>5, <3>3
      <4>1. sums'[c][0] = 0
        BY <1>1, <1>5, <3>1, <4>0
      <4>2. ASSUME NEW d \in 0..(size.k - 1)
            PROVE  sums'[c][d + 1] =
                      IF d < Done(c)'
                      THEN sums'[c][d] + lhs[<<c[1], d>>] * rhs[<<d, c[2]>>] ELSE 0
        <5>1. /\ d \in 0..size.k /\ d + 1 \in 0..size.k /\ d \in Int
              /\ d + 1 = loop.depth + 1 <=> d = loop.depth
          BY <1>1, <1>5
        <5>2. CASE d = loop.depth
          <6>1. sums'[c][d] = sums[c][d] /\ d < Done(c)'
            BY <1>1, <4>0, <5>1, <5>2
          <6> QED
            BY <4>0, <5>2, <6>1
        <5>3. CASE d < loop.depth
          <6>1. sums'[c][d] = sums[c][d] /\ sums'[c][d + 1] = sums[c][d + 1]
            BY <1>1, <4>0, <5>1, <5>3
          <6>2. d < Done(c) /\ d < Done(c)'
            BY <1>1, <4>0, <5>1, <5>3
          <6> QED
            BY <3>1, <6>1, <6>2
        <5>4. CASE d > loop.depth
          <6>1. sums'[c][d + 1] = sums[c][d + 1]
            BY <1>1, <4>0, <5>1, <5>4
          <6>2. ~(d < Done(c)) /\ ~(d < Done(c)')
            BY <1>1, <4>0, <5>1, <5>4
          <6> QED
            BY <3>1, <6>1, <6>2
        <5> QED
          BY <1>1, <5>1, <5>2, <5>3, <5>4
      <4> QED
        BY <4>1, <4>2
    <3> QED
      BY <3>2, <3>3
  <2>7. Summing'
    BY <1>3, <1>4, <1>8, <2>3 DEF Summing, At
  <2>8. Stored'
    <3> SUFFICES ASSUME NEW c \in Cells, Before(c) PROVE Near(output[c], Exact(c)')
      BY <1>0, <1>3, <1>5, <1>8 DEF Stored, At, Verifying
    <3>1. c # Cell
      BY <1>1, SizeFacts DEF Before, Cell
    <3>2. Near(output[c], Exact(c))
      BY <1>8 DEF IInv, Stored
    <3> QED
      BY <1>0, <2>3, <3>1, <3>2 DEF Exact
  <2>9. Verified'
    BY <1>3, <1>8 DEF Verified, At, Behind
  <2> QED
    BY <1>6, <2>4, <2>6, <2>7, <2>8, <2>9 DEF IInv
<1> QED
  BY <1>0, <1>7, <1>8 DEF Passes, At

\* What the invariant says of the loop, where an entry is summed up.
LEMMA SummedFacts ==
    ASSUME IInv, ~More, loop.pc \in Passes \cup {"verify"}
    PROVE  /\ TypeOK /\ Chained /\ ~At("exhausted") /\ Cell \in Cells
           /\ loop.depth = size.k /\ Exact(Cell) \in Int
           /\ loop.pc \in Passes => loop.sum \in Int32 /\ Near(loop.sum, Exact(Cell))
           /\ At("verify") => loop.sum = Exact(Cell)
<1>1. TypeOK /\ Chained /\ ~At("exhausted")
  BY DEF IInv, At, Passes
<1>2. Cell \in Cells /\ loop.depth = size.k
  BY <1>1, SizeFacts DEF More
<1>3. Exact(Cell) \in Int
  BY <1>1, <1>2, ChainFacts
<1>4. loop.pc \in Passes => loop.sum \in Int32 /\ Near(loop.sum, Exact(Cell))
  BY <1>2 DEF IInv, TypeOK, Summing, Exact
<1>5. At("verify") => loop.sum = Exact(Cell)
  BY <1>2 DEF IInv, Summing, Exact
<1> QED
  BY <1>1, <1>2, <1>3, <1>4, <1>5

\* What is timed was verified: it stores what is there.
LEMMA SameStored ==
    ASSUME IInv, Store, At("timed")
    PROVE  output' = output
<1>1. ~More /\ loop.pc \in Passes /\ output' = [output EXCEPT ![Cell] = loop.sum]
  BY DEF Store
<1>2. /\ TypeOK /\ Cell \in Cells
      /\ loop.sum \in Int32 /\ Near(loop.sum, Exact(Cell))
  BY <1>1, SummedFacts
<1>3. output[Cell] = Exact(Cell) /\ output[Cell] \in Int32
  BY <1>2 DEF IInv, TypeOK, Verified, Behind, At
<1>4. loop.sum = output[Cell]
  BY <1>2, <1>3, NearSame
<1> QED
  BY <1>1, <1>2, <1>4 DEF TypeOK

LEMMA StoreWarmKeeps == ASSUME IInv, Store, At("warm") PROVE IInv'
<1>1. /\ ~More /\ loop.pc \in Passes /\ output' = [output EXCEPT ![Cell] = loop.sum]
      /\ UNCHANGED <<size, lhs, rhs, p95, sums>>
      /\ loop' = (IF LastCell THEN Begin("verify") ELSE NextCell) /\ UNCHANGED atMost
  BY DEF Store, Follow, At
<1>2. /\ TypeOK /\ Chained /\ Cell \in Cells /\ loop.depth = size.k
      /\ loop.sum \in Int32 /\ Near(loop.sum, Exact(Cell))
  BY <1>1, SummedFacts
<1>3. loop.iteration = 0 /\ loop.iteration \in 0..size.iterations
  BY <1>2, SizeFacts DEF IInv, Counting, At
<1>4. /\ output'[Cell] = loop.sum /\ output' \in [Cells -> Int32]
      /\ \A c \in Cells : c # Cell => output'[c] = output[c]
  BY <1>1, <1>2 DEF TypeOK
<1>5. \A c \in Cells : Before(c) \/ c = Cell => Near(output'[c], Exact(c)')
  <2> SUFFICES ASSUME NEW c \in Cells, Before(c) \/ c = Cell
               PROVE  Near(output'[c], Exact(c)')
    OBVIOUS
  <2>1. Exact(c)' = Exact(c)
    BY <1>1 DEF Exact
  <2>2. Before(c) => Near(output[c], Exact(c))
    BY DEF IInv, Stored, At
  <2> QED
    BY <1>2, <1>4, <2>1, <2>2
<1>6. CASE LastCell
  <2>1. /\ loop' \in Loop /\ loop'.pc = "verify" /\ loop'.sum = 0 /\ loop'.depth = 0
        /\ Cell' \in Cells /\ \A c \in Cells : ~Before(c)'
    BY <1>1, <1>2, <1>6, AtFirst DEF Stages
  <2>2. loop'.iteration = loop.iteration
    BY <1>1, <1>2, <1>6, Beginning DEF Stages
  <2>3. TypeOK'
    BY <1>1, <1>2, <1>4, <2>1, <2>2
       DEF TypeOK, Loop, Left, Right, Cells, Latencies, Passes
  <2>4. \A c \in Cells : Before(c) \/ c = Cell
    BY <1>2, <1>6, LastCellFacts
  <2>5. \A c \in Cells : Done(c)' = Done(c)
    BY <1>1, <1>2, <2>1, <2>4 DEF Done, At, Verifying, Behind
  <2>6. Chained'
    BY <1>1, <1>2, <2>1, <2>5 DEF Chained, Cells, At
  <2>7. Summing'
    <3>1. sums[Cell'][0] = 0
      BY <1>2, <2>1 DEF Chained, At
    <3> QED
      BY <1>1, <2>1, <3>1 DEF Summing, At, Passes
  <2>8. Stored'
    BY <1>1, <1>5, <2>1, <2>4 DEF Stored, At, Verifying, Cells
  <2>9. (Verified /\ Counting)'
    BY <1>1, <1>3, <2>1, <2>2 DEF Verified, Counting, At, Behind, Cells
  <2> QED
    BY <2>3, <2>6, <2>7, <2>8, <2>9 DEF IInv
<1>7. CASE ~LastCell
  <2>1. /\ loop' \in Loop /\ loop'.pc = "warm" /\ loop'.sum = 0 /\ loop'.depth = 0
        /\ loop'.iteration = loop.iteration /\ Cell' \in Cells
        /\ \A c \in Cells : Before(c)' <=> Before(c) \/ c = Cell
    BY <1>1, <1>2, <1>7, AtNext DEF At
  <2>3. TypeOK'
    <3>1. loop'.sum \in Int32
      BY <2>1, WidthFacts
    <3> QED
      BY <1>1, <1>2, <1>4, <2>1, <3>1 DEF TypeOK, Loop, Left, Right, Cells, Latencies
  <2>5. \A c \in Cells : Done(c)' = Done(c)
    BY <1>1, <1>2, <2>1 DEF Done, At
  <2>6. Chained'
    BY <1>1, <1>2, <2>1, <2>5 DEF Chained, Cells, At
  <2>7. Summing'
    <3>1. sums[Cell'][0] = 0
      BY <1>2, <2>1 DEF Chained, At
    <3> QED
      BY <1>1, <2>1, <3>1, NearItself DEF Summing, At, Passes
  <2>8. Stored'
    BY <1>1, <1>5, <2>1 DEF Stored, At, Verifying, Cells
  <2>9. (Verified /\ Counting)'
    BY <1>1, <1>3, <2>1 DEF Verified, Counting, At, Behind, Cells
  <2> QED
    BY <2>3, <2>6, <2>7, <2>8, <2>9 DEF IInv
<1> QED
  BY <1>6, <1>7

\* What does not change once everything is verified.
LEMMA BehindKeeps ==
    ASSUME IInv, Behind, Behind', UNCHANGED <<size, lhs, rhs, output, sums>>
    PROVE  (Chained /\ Stored /\ Verified)'
<1>1. Chained /\ TypeOK /\ ~At("exhausted") /\ Cells' = Cells
  BY DEF IInv, At, Behind, Cells
<1>2. \A c \in Cells : Done(c)' = Done(c)
  BY DEF Done, At, Behind
<1>3. Chained'
  BY <1>1, <1>2 DEF Chained
<1>4. (Stored /\ Verified)'
  BY <1>1 DEF IInv, Stored, Verified, At, Behind, Verifying, Exact
<1> QED
  BY <1>3, <1>4

LEMMA StoreTimedKeeps == ASSUME IInv, Store, At("timed") PROVE IInv'
<1>1. /\ ~More /\ loop.pc \in Passes
      /\ UNCHANGED <<size, lhs, rhs, p95, sums, output>>
      /\ IF LastCell THEN Measure ELSE loop' = NextCell /\ UNCHANGED atMost
  BY SameStored DEF Store, Follow, At
<1>2. TypeOK /\ Chained /\ Cell \in Cells
  BY <1>1, SummedFacts
<1>3. /\ loop.iteration < size.iterations /\ loop.iteration \in 0..size.iterations
      /\ size.iterations \in Nat
  BY <1>2, SizeFacts DEF IInv, Counting, At
<1>4. CASE ~LastCell
  <2>1. /\ loop' \in Loop /\ loop'.pc = "timed" /\ loop'.sum = 0 /\ loop'.depth = 0
        /\ loop'.iteration = loop.iteration /\ Cell' \in Cells
    BY <1>1, <1>2, <1>4, AtNext DEF At
  <2>2. TypeOK'
    <3>1. loop'.sum \in Int32
      BY <2>1, WidthFacts
    <3> QED
      BY <1>1, <1>2, <1>4, <2>1, <3>1 DEF TypeOK, Loop, Left, Right, Cells, Latencies
  <2>3. (Chained /\ Stored /\ Verified)'
    BY <1>1, <2>1, BehindKeeps DEF Behind, At
  <2>4. Summing'
    <3>1. sums[Cell'][0] = 0
      BY <1>2, <2>1 DEF Chained, At
    <3> QED
      BY <1>1, <2>1, <3>1, NearItself DEF Summing, At
  <2>5. Counting'
    BY <1>1, <1>3, <2>1 DEF Counting, At
  <2> QED
    BY <2>2, <2>3, <2>4, <2>5 DEF IInv
<1>5. CASE LastCell
  <2>1. Measure
    BY <1>1, <1>5
  <2>2. PICK l \in {"report", "timed"} :
          /\ l = (IF loop.iteration + 1 = size.iterations THEN "report" ELSE "timed")
          /\ loop' = [Begin(l) EXCEPT !.iteration = loop.iteration + 1]
    <3>1. /\ Begin("report") \in Loop /\ Begin("timed") \in Loop
          /\ Begin("report").iteration = loop.iteration
          /\ Begin("timed").iteration = loop.iteration
      BY <1>2, Beginning DEF Stages, Passes
    <3>2. CASE loop.iteration + 1 = size.iterations
      BY <2>1, <3>1, <3>2 DEF Measure, Loop
    <3>3. CASE loop.iteration + 1 # size.iterations
      BY <2>1, <3>1, <3>3 DEF Measure, Loop
    <3> QED
      BY <3>2, <3>3
  <2>3. /\ Begin(l) \in Loop /\ Begin(l).pc = l /\ Begin(l).row = 0
        /\ Begin(l).column = 0 /\ Begin(l).depth = 0 /\ Begin(l).sum = 0
    BY <1>2, Beginning DEF Stages, Passes
  <2>4. loop.iteration + 1 \in 0..size.iterations
    BY <1>3
  <2>5. /\ loop' \in Loop /\ loop'.pc = l /\ loop'.row = 0 /\ loop'.column = 0
        /\ loop'.depth = 0 /\ loop'.sum = 0 /\ loop'.iteration = loop.iteration + 1
    BY <2>2, <2>3, <2>4 DEF Loop
  <2>6. Cell' = <<0, 0>> /\ <<0, 0>> \in Cells
    BY <1>2, <2>5, SizeFacts DEF Cell, Cells
  <2>7. atMost' \in [Latencies -> 0..loop'.iteration]
    <3>1. PICK t \in Latencies :
            atMost' = [u \in Latencies |-> IF t <= u THEN atMost[u] + 1 ELSE atMost[u]]
      BY <2>1 DEF Measure
    <3>2. \A u \in Latencies : atMost[u] \in 0..loop.iteration
      BY <1>2 DEF TypeOK
    <3> QED
      BY <1>3, <2>5, <3>1, <3>2
  <2>8. TypeOK'
    BY <1>1, <1>2, <2>5, <2>7, WidthFacts DEF TypeOK, Loop, Left, Right, Cells, Latencies
  <2>9. (Chained /\ Stored /\ Verified)'
    BY <1>1, <2>5, BehindKeeps DEF Behind, At
  <2>10. Summing'
    <3>1. sums[Cell'][0] = 0
      BY <1>2, <2>6 DEF Chained, At
    <3> QED
      BY <1>1, <2>5, <3>1, NearItself DEF Summing, At
  <2>11. Counting'
    BY <1>1, <1>3, <2>2, <2>5 DEF Counting, At
  <2> QED
    BY <2>8, <2>9, <2>10, <2>11 DEF IInv
<1> QED
  BY <1>4, <1>5

LEMMA ReferenceKeeps == ASSUME IInv, Reference PROVE IInv'
<1>0. /\ At("verify") /\ More
      /\ UNCHANGED <<size, lhs, rhs, output, atMost, p95, sums>>
  BY DEF Reference
<1>1. /\ TypeOK /\ Chained /\ ~At("exhausted") /\ Cell \in Cells
      /\ loop.depth \in 0..(size.k - 1) /\ Product \in Int
      /\ Product = lhs[<<Cell[1], loop.depth>>] * rhs[<<loop.depth, Cell[2]>>]
      /\ sums[Cell][loop.depth] \in Int /\ loop.sum \in Int
  BY <1>0, DeeperFacts DEF At
<1>2. PICK x \in Int : x = loop.sum + Product
  BY <1>1
<1>3. /\ loop' \in Loop /\ loop'.pc = loop.pc /\ loop'.sum = x
      /\ loop'.depth = loop.depth + 1 /\ loop'.iteration = loop.iteration
      /\ Cell' = Cell /\ \A c \in Cells : Before(c)' = Before(c)
  <2>1. loop' = [loop EXCEPT !.depth = @ + 1, !.sum = x]
    BY <1>2 DEF Reference
  <2> QED
    BY <1>0, <1>1, <2>1, AtDeeper
<1>4. \A c \in Cells : Done(c)' = Done(c) /\ Done(c) = size.k
  BY <1>0, <1>3 DEF Done, At, Behind, Verifying
<1>5. TypeOK'
  BY <1>0, <1>1, <1>3 DEF TypeOK, Loop, Left, Right, Cells, Latencies, At, Passes
<1>6. Chained'
  BY <1>0, <1>1, <1>3, <1>4 DEF Chained, Cells
<1>7. Summing'
  <2>1. sums[Cell][loop.depth + 1] = sums[Cell][loop.depth] + Product
    BY <1>1, <1>4, SizeFacts, ChainFacts
  <2>2. loop.sum = sums[Cell][loop.depth]
    BY <1>0 DEF IInv, Summing
  <2> QED
    BY <1>0, <1>2, <1>3, <2>1, <2>2 DEF Summing, At, Passes
<1>8. (Stored /\ Verified /\ Counting)'
  BY <1>0, <1>3
     DEF IInv, Stored, Verified, Counting, At, Verifying, Behind, Exact, Cells
<1> QED
  BY <1>5, <1>6, <1>7, <1>8 DEF IInv

LEMMA CompareKeeps == ASSUME IInv, Compare PROVE IInv'
<1>1. /\ At("verify") /\ ~More /\ UNCHANGED <<size, lhs, rhs, output, p95, sums, atMost>>
      /\ loop' = IF output[Cell] = loop.sum
                 THEN IF LastCell THEN Begin("timed") ELSE NextCell
                 ELSE [loop EXCEPT !.pc = "unverified"]
  BY DEF Compare, Follow
<1>2. /\ TypeOK /\ Chained /\ Cell \in Cells /\ loop.sum = Exact(Cell)
      /\ loop.iteration = 0 /\ size.iterations \in Nat \ {0} /\ Cells' = Cells
      /\ \A c \in Cells : Exact(c)' = Exact(c)
  BY <1>1, SummedFacts, SizeFacts DEF At, IInv, Counting, Cells, Exact
<1>3. CASE output[Cell] # loop.sum
  <2>1. loop' \in Loop /\ loop'.pc = "unverified" /\ loop'.iteration = loop.iteration
    BY <1>1, <1>2, <1>3 DEF TypeOK, Loop, Stages, Over
  <2>2. TypeOK'
    BY <1>1, <1>2, <2>1 DEF TypeOK, Loop, Left, Right, Cells, Latencies, Passes
  <2>3. \A c \in Cells : Done(c)' = Done(c)
    BY <1>1, <2>1 DEF Done, At, Behind, Verifying
  <2>4. Chained'
    BY <1>1, <1>2, <2>1, <2>3 DEF Chained, At
  <2>5. (Summing /\ Stored /\ Counting)'
    BY <1>1, <1>2, <2>1
       DEF IInv, Summing, Stored, Counting, At, Verifying, Passes
  <2>6. Verified'
    BY <1>1, <1>2, <1>3, <2>1 DEF Verified, At, Behind
  <2> QED
    BY <2>2, <2>4, <2>5, <2>6 DEF IInv
<1>4. CASE output[Cell] = loop.sum /\ ~LastCell
  <2>1. /\ loop' \in Loop /\ loop'.pc = "verify" /\ loop'.sum = 0 /\ loop'.depth = 0
        /\ loop'.iteration = loop.iteration /\ Cell' \in Cells
        /\ \A c \in Cells : Before(c)' <=> Before(c) \/ c = Cell
    BY <1>1, <1>2, <1>4, AtNext DEF At
  <2>2. TypeOK'
    BY <1>1, <1>2, <2>1 DEF TypeOK, Loop, Left, Right, Cells, Latencies, Passes
  <2>3. \A c \in Cells : Done(c)' = Done(c)
    BY <1>1, <2>1 DEF Done, At, Behind, Verifying
  <2>4. Chained'
    BY <1>1, <1>2, <2>1, <2>3 DEF Chained, At
  <2>5. Summing'
    <3>1. sums[Cell'][0] = 0
      BY <1>1, <1>2, <2>1 DEF Chained, At
    <3> QED
      BY <1>1, <2>1, <3>1 DEF Summing, At, Passes
  <2>6. (Stored /\ Counting)'
    BY <1>1, <1>2, <2>1 DEF IInv, Stored, Counting, At, Verifying
  <2>7. Verified'
    BY <1>1, <1>2, <1>4, <2>1 DEF IInv, Verified, At, Behind
  <2> QED
    BY <2>2, <2>4, <2>5, <2>6, <2>7 DEF IInv
<1>5. CASE output[Cell] = loop.sum /\ LastCell
  <2>1. /\ loop' \in Loop /\ loop'.pc = "timed" /\ loop'.sum = 0 /\ loop'.depth = 0
        /\ Cell' \in Cells
    BY <1>1, <1>2, <1>5, AtFirst DEF Stages, Passes
  <2>2. loop'.iteration = loop.iteration
    BY <1>1, <1>2, <1>5, Beginning DEF Stages, Passes
  <2>3. TypeOK'
    <3>1. loop'.sum \in Int32
      BY <2>1, WidthFacts
    <3> QED
      BY <1>1, <1>2, <2>1, <2>2, <3>1 DEF TypeOK, Loop, Left, Right, Cells, Latencies
  <2>4. \A c \in Cells : Done(c)' = Done(c)
    BY <1>1, <2>1 DEF Done, At, Behind, Verifying
  <2>5. Chained'
    BY <1>1, <1>2, <2>1, <2>4 DEF Chained, At
  <2>6. Summing'
    <3>1. sums[Cell'][0] = 0
      BY <1>1, <1>2, <2>1 DEF Chained, At
    <3> QED
      BY <1>1, <2>1, <3>1, NearItself DEF Summing, At
  <2>7. (Stored /\ Counting)'
    BY <1>1, <1>2, <2>1, <2>2 DEF Stored, Counting, At, Verifying
  <2>8. Verified'
    <3>1. \A c \in Cells : Before(c) \/ c = Cell
      BY <1>2, <1>5, LastCellFacts
    <3>2. \A c \in Cells : output[c] = Exact(c)
      BY <1>1, <1>2, <1>5, <3>1 DEF IInv, Verified
    <3> QED
      BY <1>1, <1>2, <2>1, <3>2 DEF Verified, At, Behind
  <2> QED
    BY <2>3, <2>5, <2>6, <2>7, <2>8 DEF IInv
<1> QED
  BY <1>3, <1>4, <1>5

LEMMA ReportKeeps == ASSUME IInv, Report PROVE IInv'
<1>1. /\ At("report") /\ p95' \in Latencies /\ loop' = [loop EXCEPT !.pc = "done"]
      /\ UNCHANGED <<size, lhs, rhs, output, atMost, sums>>
  BY DEF Report
<1>2. /\ loop' \in Loop /\ loop'.pc = "done" /\ loop'.iteration = loop.iteration
  BY <1>1 DEF IInv, TypeOK, Loop, Stages, Over
<1>3. TypeOK'
  BY <1>1, <1>2 DEF IInv, TypeOK, Loop, Left, Right, Cells, Latencies, Passes
<1>4. (Chained /\ Stored /\ Verified)'
  BY <1>1, <1>2, BehindKeeps DEF Behind, At
<1>5. (Summing /\ Counting)'
  BY <1>2 DEF Summing, Counting, At, Passes
<1> QED
  BY <1>3, <1>4, <1>5 DEF IInv

LEMMA StutterKeeps == ASSUME IInv, UNCHANGED vars PROVE IInv'
BY DEF IInv, TypeOK, Loop, Left, Right, Cells, Latencies, Chained, Summing, Stored,
       Verified, Counting, At, Verifying, Behind, Before, Done, Cell, Exact, vars

LEMMA NextInvariant == ASSUME IInv, [Next]_vars PROVE IInv'
<1>1. CASE Exhaust
  BY <1>1, ExhaustKeeps
<1>2. CASE Fill
  BY <1>2, FillKeeps
<1>3. CASE Accumulate
  BY <1>3, AccumulateKeeps
<1>4. CASE Store
  BY <1>4, StoreWarmKeeps, StoreTimedKeeps DEF Store, Passes, At
<1>5. CASE Reference
  BY <1>5, ReferenceKeeps
<1>6. CASE Compare
  BY <1>6, CompareKeeps
<1>7. CASE Report
  BY <1>7, ReportKeeps
<1>8. CASE Finished \/ UNCHANGED vars
  BY <1>8, StutterKeeps DEF Finished
<1> QED
  BY <1>1, <1>2, <1>3, <1>4, <1>5, <1>6, <1>7, <1>8 DEF Next

LEMMA Invariant == Spec => []IInv
BY InitInvariant, NextInvariant, PTL DEF Spec

-----------------------------------------------------------------------------
(* Safe sizes                                                              *)

\* Where the sizes are safe, the numbers that are multiplied are small, and
\* the sums grow no faster than 49 a product.
Bounded ==
    Safe => /\ lhs \in [Left -> (-7)..7]
            /\ rhs \in [Right -> (-7)..7]
            /\ \A c \in Cells, d \in 0..size.k :
                  0 - 49 * d <= sums[c][d] /\ sums[c][d] <= 49 * d

LEMMA InitBounded == Init => Bounded
<1> SUFFICES ASSUME Init PROVE Bounded
  OBVIOUS
<1>1. lhs \in [Left -> (-7)..7] /\ rhs \in [Right -> (-7)..7]
  BY DEF Init
<1>2. \A c \in Cells, d \in 0..size.k : sums[c][d] = 0
  BY DEF Init
<1>3. size.k \in Nat
  BY GemmAssumption DEF Init, GemmAssumption, Size
<1> QED
  BY <1>1, <1>2, <1>3 DEF Bounded

\* With safe sizes no index wraps, and none is negative.
LEMMA FillBounded == ASSUME IInv, Bounded, Fill PROVE Bounded'
<1>1. /\ TypeOK /\ UNCHANGED <<size, sums>>
      /\ lhs' = [c \in Left |-> Element(Index(3 * c[1] + 5 * c[2]))]
      /\ rhs' = [c \in Right |-> Element(Index(7 * c[1] + 11 * c[2]))]
  BY DEF IInv, Fill
<1> SUFFICES ASSUME Safe
             PROVE  lhs' \in [Left -> (-7)..7] /\ rhs' \in [Right -> (-7)..7]
  BY <1>1 DEF Bounded, Safe, Left, Right, Cells
<1>2. ASSUME NEW v \in 0..IntMax
      PROVE  Element(Index(v)) \in (-7)..7
  <2>1. v \in Int /\ v >= 0 /\ v \in Int32
    BY WidthFacts
  <2>2. Index(v) = v
    BY <2>1, WrapFacts DEF Index
  <2> QED
    BY <2>1, <2>2, ElementFacts
<1>3. \A c \in Left : 3 * c[1] + 5 * c[2] \in 0..IntMax
  <2> SUFFICES ASSUME NEW i \in 0..(size.m - 1), NEW j \in 0..(size.k - 1)
               PROVE  3 * i + 5 * j \in 0..IntMax
    BY DEF Left
  <2> QED
    BY <1>1, SizeFacts, WidthFacts DEF Safe
<1>4. \A c \in Right : 7 * c[1] + 11 * c[2] \in 0..IntMax
  <2> SUFFICES ASSUME NEW i \in 0..(size.k - 1), NEW j \in 0..(size.n - 1)
               PROVE  7 * i + 11 * j \in 0..IntMax
    BY DEF Right
  <2> QED
    BY <1>1, SizeFacts, WidthFacts DEF Safe
<1> QED
  BY <1>1, <1>2, <1>3, <1>4

LEMMA AccumulateBounded == ASSUME IInv, Bounded, Accumulate PROVE Bounded'
<1>0. loop.pc \in Passes /\ More /\ UNCHANGED <<size, lhs, rhs>>
  BY DEF Accumulate
<1>1. /\ TypeOK /\ Cell \in Cells /\ loop.depth \in 0..(size.k - 1) /\ size.k \in Nat
      /\ Product = lhs[<<Cell[1], loop.depth>>] * rhs[<<loop.depth, Cell[2]>>]
      /\ sums[Cell][loop.depth] \in Int
  BY <1>0, DeeperFacts, SizeFacts
<1> SUFFICES ASSUME Safe, NEW c \in Cells, NEW d \in 0..size.k
             PROVE  0 - 49 * d <= sums'[c][d] /\ sums'[c][d] <= 49 * d
  BY <1>0 DEF Bounded, Safe, Left, Right, Cells
<1>2. 0 - 49 * d <= sums[c][d] /\ sums[c][d] <= 49 * d
  BY DEF Bounded
<1>3. CASE sums'[c][d] = sums[c][d]
  BY <1>2, <1>3
<1>4. CASE sums'[c][d] # sums[c][d]
  <2>1. PICK x \in Int : x = Product
    <3>1. Product \in Int
      BY <1>0, DeeperFacts
    <3> QED
      BY <3>1
  <2>2. sums' = [sums EXCEPT ![Cell][loop.depth + 1] = sums[Cell][loop.depth] + x]
    BY <1>4, <2>1 DEF Accumulate
  <2>3. /\ c = Cell /\ d = loop.depth + 1
        /\ sums'[c][d] = sums[Cell][loop.depth] + x
    BY <1>1, <1>4, <2>2 DEF TypeOK
  <2>4. x \in (-49)..49
    <3>1. <<Cell[1], loop.depth>> \in Left /\ <<loop.depth, Cell[2]>> \in Right
      BY <1>1 DEF Cells, Left, Right
    <3>2. /\ lhs[<<Cell[1], loop.depth>>] \in (-7)..7
          /\ rhs[<<loop.depth, Cell[2]>>] \in (-7)..7
      BY <3>1 DEF Bounded
    <3> QED
      BY <1>1, <2>1, <3>2, Products
  <2>5. /\ 0 - 49 * loop.depth <= sums[Cell][loop.depth]
        /\ sums[Cell][loop.depth] <= 49 * loop.depth
    BY <1>1 DEF Bounded
  <2> QED
    BY <1>1, <2>3, <2>4, <2>5
<1> QED
  BY <1>3, <1>4

LEMMA NextBounded == ASSUME IInv, Bounded, [Next]_vars PROVE Bounded'
<1>1. CASE Fill
  BY <1>1, FillBounded
<1>2. CASE Accumulate
  BY <1>2, AccumulateBounded
<1>3. CASE ~Fill /\ ~Accumulate
  <2>1. UNCHANGED <<size, lhs, rhs, sums>>
    BY <1>3 DEF Next, vars, Exhaust, Store, Reference, Compare, Report, Finished
  <2> QED
    BY <2>1 DEF Bounded, Safe, Left, Right, Cells
<1> QED
  BY <1>1, <1>2, <1>3

-----------------------------------------------------------------------------
(* Theorems                                                                *)

\* The matrices have the sizes asked for and hold numbers of eight bits, and
\* an accumulator never holds more than 32 (fill_inputs, gemm_scalar).
THEOREM TypeCorrect == Spec => []TypeOK
<1>1. IInv => TypeOK
  BY DEF IInv
<1> QED
  BY <1>1, Invariant, PTL

LEMMA VerdictFromInvariant == IInv => VerdictRight
<1> SUFFICES ASSUME IInv PROVE VerdictRight
  OBVIOUS
<1>1. ASSUME At("unverified") PROVE \E c \in Cells : Exact(c) \notin Int32
  <2>1. PICK c \in Cells : output[c] # Exact(c)
    BY <1>1 DEF IInv, Verified
  <2>2. output[c] \in Int32 /\ Near(output[c], Exact(c))
    BY <1>1 DEF IInv, TypeOK, Stored, Verifying, At
  <2>3. Exact(c) \notin Int32
    BY <2>1, <2>2, NearSame
  <2> QED
    BY <2>3
<1>2. loop.pc \in {"timed", "report", "done"} => \A c \in Cells : output[c] = Exact(c)
  BY DEF IInv, Verified, Behind
<1> QED
  BY <1>1, <1>2 DEF VerdictRight

\* The program goes on to time itself only with a product that is exact, and
\* rejects its product only if an entry does not fit 32 bits (verify_result).
THEOREM VerdictIsRight == Spec => []VerdictRight
BY VerdictFromInvariant, Invariant, PTL

LEMMA SafeFromBounded == IInv /\ Bounded => SafeSizes
<1> SUFFICES ASSUME IInv, Bounded, Safe
             PROVE  /\ ~At("unverified")
                    /\ \A c \in Cells, d \in 0..size.k : sums[c][d] \in Int32
  BY DEF SafeSizes
<1>0. TypeOK /\ size.k \in Nat /\ size.k \in 0..size.k
  BY SizeFacts DEF IInv
<1>1. ASSUME NEW c \in Cells, NEW d \in 0..size.k
      PROVE  sums[c][d] \in Int32
  <2>1. sums[c][d] \in Int
    BY <1>0 DEF TypeOK
  <2>2. 0 - 49 * d <= sums[c][d] /\ sums[c][d] <= 49 * d
    BY DEF Bounded
  <2>3. 49 * d <= 49 * size.k /\ 49 * size.k <= IntMax
    BY <1>0 DEF Safe
  <2> QED
    BY <1>0, <2>1, <2>2, <2>3, WidthFacts
<1>2. ~At("unverified")
  BY <1>0, <1>1, VerdictFromInvariant DEF VerdictRight, Exact
<1> QED
  BY <1>1, <1>2

\* For the sizes up to the bound, nothing overflows and the program never
\* rejects its own product, whatever the build (fill_inputs, gemm_scalar).
THEOREM SafeSizesAreSafe == Spec => []SafeSizes
<1>1. Init => IInv /\ Bounded
  BY InitInvariant, InitBounded
<1>2. IInv /\ Bounded /\ [Next]_vars => (IInv /\ Bounded)'
  BY NextInvariant, NextBounded
<1> QED
  BY <1>1, <1>2, SafeFromBounded, PTL DEF Spec

LEMMA RankFacts ==
    ASSUME NEW n \in Nat, NEW a \in Nat
    PROVE  /\ a >= (95 * n + 99) \div 100 => 100 * a >= 95 * n
           /\ a < (95 * n + 99) \div 100 => 100 * a < 95 * n
OBVIOUS

\* The latency that is reported is the nearest rank of the 95th percentile,
\* for every number of iterations (run_gemm: p95_index).
THEOREM RankIsNearest == Spec => []NearestRank
<1>1. Init => NearestRank
  BY DEF Init, NearestRank, At
<1>2. ASSUME IInv, NearestRank, [Next]_vars PROVE NearestRank'
  <2>1. CASE Report
    <3>1. /\ p95' \in Latencies /\ atMost[p95'] >= Rank
          /\ \A t \in Latencies : t < p95' => atMost[t] < Rank
          /\ UNCHANGED <<size, atMost>>
      BY <2>1 DEF Report
    <3>2. size.iterations \in Nat /\ \A t \in Latencies : atMost[t] \in Nat
      BY <1>2, SizeFacts DEF IInv, TypeOK
    <3>3. /\ 100 * atMost[p95'] >= 95 * size.iterations
          /\ \A t \in Latencies : t < p95' => 100 * atMost[t] < 95 * size.iterations
      BY <3>1, <3>2, RankFacts DEF Rank
    <3> QED
      BY <3>1, <3>3 DEF NearestRank, Latencies
  <2>2. CASE Finished \/ UNCHANGED vars
    BY <1>2, <2>2 DEF Finished, vars, NearestRank, At, Latencies
  <2>3. CASE Exhaust \/ Fill \/ Accumulate \/ Store \/ Reference \/ Compare
    <3>1. loop'.pc # "done"
      <4>1. TypeOK
        BY <1>2 DEF IInv
      <4>2. CASE Exhaust
        BY <4>1, <4>2, Beginning DEF Exhaust, Stages, Over
      <4>3. CASE Fill
        BY <4>1, <4>3, Beginning DEF Fill, Stages, Passes
      <4>4. CASE Accumulate
        BY <4>1, <4>4 DEF Accumulate, TypeOK, Loop, Passes
      <4>5. NextCell.pc = loop.pc
        BY <4>1 DEF NextCell, TypeOK, Loop
      <4>6. CASE Store
        <5>1. CASE At("timed") /\ LastCell
          <6>1. PICK l \in {"report", "timed"} :
                  loop' = [Begin(l) EXCEPT !.iteration = @ + 1]
            BY <4>6, <5>1 DEF Store, Measure
          <6>2. Begin(l) \in Loop /\ Begin(l).pc = l
            BY <4>1, Beginning DEF Stages, Passes
          <6> QED
            BY <6>1, <6>2 DEF Loop
        <5>2. CASE ~(At("timed") /\ LastCell)
          BY <4>1, <4>5, <4>6, <5>2, Beginning DEF Store, Follow, Stages, Passes
        <5> QED
          BY <5>1, <5>2
      <4>7. CASE Reference
        BY <4>1, <4>7 DEF Reference, TypeOK, Loop, At
      <4>8. CASE Compare
        BY <4>1, <4>5, <4>8, Beginning
           DEF Compare, Follow, TypeOK, Loop, Stages, Passes, At
      <4> QED
        BY <2>3, <4>2, <4>3, <4>4, <4>6, <4>7, <4>8
    <3> QED
      BY <3>1 DEF NearestRank, At
  <2> QED
    BY <1>2, <2>1, <2>2, <2>3 DEF Next
<1> QED
  BY <1>1, <1>2, Invariant, PTL DEF Spec
=============================================================================
