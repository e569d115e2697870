----------------------------- MODULE MCRunRecords -----------------------------
(* A small instance of RunRecords for TLC: two native runs, one of them    *)
(* forced, and one under QEMU.                                             *)
EXTENDS RunRecords

CONSTANTS n1, n2, q1, f1, f2

MCOutput == [r \in Runners |-> IF r = q1 THEN f2 ELSE f1]

Native == [env |-> "native", arch |-> "host", representative |-> TRUE,
           verified |-> TRUE, workload |-> 1, mean |-> 1, finite |-> TRUE]
Qemu == [Native EXCEPT !.env = "qemu-user", !.arch = "riscv64",
                       !.representative = FALSE]

\* What good programs print, and a few ways of getting it wrong.
MCPayloads == {Native, Qemu,
    [Native EXCEPT !.workload = 2], [Native EXCEPT !.mean = 0],
    [Native EXCEPT !.finite = FALSE],
    [Native EXCEPT !.verified = FALSE], [Native EXCEPT !.representative = FALSE],
    [Qemu EXCEPT !.arch = "host"]}

MCEarlier == [by |-> "earlier", result |-> Native]
=============================================================================
