------------------------------ MODULE Collections ------------------------------
(***************************************************************************)
(* Helpers on sequences and functions, in a form that the proofs can       *)
(* unfold.                                                                 *)
(***************************************************************************)
EXTENDS Integers, Sequences, FiniteSetsExt

\* The map f once v is inserted at x, and once the keys in S are removed.
With(f, x, v) == [y \in DOMAIN f \cup {x} |-> IF y = x THEN v ELSE f[y]]
Less(f, S) == [y \in DOMAIN f \ S |-> f[y]]

\* The sum of f over a finite set.
SumOver(f, S) == MapThenSumSet(LAMBDA x : f[x], S)

\* The elements of s at the positions in I, in their order.
Selected(s, I) ==
  LET upTo[n \in 0 .. Len(s)] ==
        IF n = 0 THEN <<>>
        ELSE IF n \in I THEN Append(upTo[n - 1], s[n]) ELSE upTo[n - 1]
  IN  upTo[Len(s)]
================================================================================
