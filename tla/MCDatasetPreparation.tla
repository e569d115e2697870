------------------------- MODULE MCDatasetPreparation -------------------------
(* A small instance of DatasetPreparation for TLC: two classes, two or     *)
(* three files in each, one sample of each kind.                           *)
EXTENDS DatasetPreparation

CONSTANTS i1, i2, i3

Two(first, second) == 0 :> first @@ 1 :> second @@ 2 :> None

\* A good folder with a gap in the first class and one file more than needed
\* in the second; one with the same image for calibration and evaluation of a
\* class, one with the same image in two classes.
MCFolders == {
    Two(<<None, i1, i2>>, <<i1, i3, i2>>),
    Two(<<i1, i1, None>>, <<i2, i3, None>>),
    Two(<<i1, i2, None>>, <<i2, i3, None>>)}
=============================================================================
