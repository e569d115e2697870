---------------------------- MODULE MCBenchmarkGemm ----------------------------
(* A small instance of BenchmarkGemm for TLC: an int has ten bits.         *)
EXTENDS BenchmarkGemm

\* Every loop several times; a sum near the limit; indices and sums beyond
\* it, on either side, and back; ranks that are whole and ranks that are not.
Shapes == {<<2, 3, 3, 2>>, <<2, 2, 10, 1>>, <<1, 2, 160, 1>>, <<172, 1, 2, 1>>,
           <<1, 1, 141, 2>>, <<1, 1, 1, 20>>, <<1, 1, 1, 21>>}
MCSizes == {[m |-> s[1], n |-> s[2], k |-> s[3], iterations |-> s[4], wide |-> w] :
               s \in Shapes, w \in BOOLEAN}
=============================================================================
