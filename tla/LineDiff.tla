------------------------------ MODULE LineDiff ------------------------------
(***************************************************************************)
(* diffOps of src/src/inspect.js: the lines of two texts side by side.     *)
(***************************************************************************)
EXTENDS Integers, Sequences, FiniteSets, Ascending

\* A line of both texts, of the old one alone, of the new one alone.
InBoth == " "
OnlyA == "-"
OnlyB == "+"

Larger(x, y) == IF x >= y THEN x ELSE y

\* One row of dp, from its end, and the row below it: how many lines a from i and b from j
\* can have in common.  (For \o TLC evaluates the row as a whole.)
DpRow(a, b, i, below) ==
  LET row[j \in 1 .. Len(b) + 1] ==
        IF j > Len(b) THEN 0
        ELSE IF a[i] = b[j] THEN below[j + 1] + 1 ELSE Larger(below[j], row[j + 1])
  IN  row \o <<>>

\* dp[i][j], from the last row.
Common(a, b) ==
  LET dp[i \in 1 .. Len(a) + 1] ==
        IF i > Len(a) THEN [j \in 1 .. Len(b) + 1 |-> 0] ELSE DpRow(a, b, i, dp[i + 1])
  IN  dp

\* Mutant: the first difference is taken from the old text, whatever is lost.
GreedySign(a, b, dp, i, j) ==
  IF i > Len(a) THEN OnlyB ELSE IF j > Len(b) THEN OnlyA
  ELSE IF a[i] = b[j] THEN InBoth ELSE OnlyA

\* What comes next at lines i and j: a common line, one of a alone or one of b alone.
Sign(a, b, dp, i, j) ==
  IF i > Len(a) THEN OnlyB ELSE IF j > Len(b) THEN OnlyA
  ELSE IF a[i] = b[j] THEN InBoth
  ELSE IF dp[i + 1][j] >= dp[i][j + 1] THEN OnlyA ELSE OnlyB

\* i and j after each operation.
Walk(a, b, dp) ==
  LET place[k \in 0 .. Len(a) + Len(b)] ==
        IF k = 0 THEN [i |-> 1, j |-> 1]
        ELSE LET last == place[k - 1]
                 sign == Sign(a, b, dp, last.i, last.j)
             IN  [i |-> IF sign = OnlyB THEN last.i ELSE last.i + 1,
                  j |-> IF sign = OnlyA THEN last.j ELSE last.j + 1]
  IN  place

\* ops, until both texts are at their ends.
diffOps(a, b) ==
  LET dp == Common(a, b)
      place == Walk(a, b, dp)
      length == CHOOSE k \in DOMAIN place : place[k] = [i |-> Len(a) + 1, j |-> Len(b) + 1]
  IN  [k \in 1 .. length |->
         LET last == place[k - 1]
             sign == Sign(a, b, dp, last.i, last.j)
         IN  <<sign, IF sign = OnlyB THEN b[last.j] ELSE a[last.i]>>]

-----------------------------------------------------------------------------
(* What a diff is.                                                           *)

\* The lines a reader finds behind the signs.
Side(ops, signs) ==
  Filtered([k \in DOMAIN ops |-> ops[k][2]], {k \in DOMAIN ops : ops[k][1] \in signs})

\* No lines that can be chosen alike from a and from b are more than the common ones.
Minimal(ops, a, b) ==
  \A S \in SUBSET DOMAIN a, T \in SUBSET DOMAIN b :
    Filtered(a, S) = Filtered(b, T) => Cardinality(S) <= Len(Side(ops, {InBoth}))

\* It leads from a to b, on a shortest way.
IsDiff(ops, a, b) ==
  /\ Side(ops, {InBoth, OnlyA}) = a /\ Side(ops, {InBoth, OnlyB}) = b
  /\ Minimal(ops, a, b)
=============================================================================
