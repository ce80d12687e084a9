------------------------------- MODULE SeqOps -------------------------------
(***************************************************************************)
(* The operators of SequencesExt and FiniteSetsExt that the parts use.     *)
(* Parts has each part as an INSTANCE; with the library itself in them     *)
(* every proof obligation would carry a dozen copies of it.  Selections    *)
(* are folds: the prover has no facts about SelectSeq.                     *)
(***************************************************************************)
EXTENDS Naturals, Sequences

ToSet(s) == {s[i] : i \in 1 .. Len(s)}

Contains(s, e) == \E i \in 1 .. Len(s) : s[i] = e

Last(s) == s[Len(s)]

Front(s) == SubSeq(s, 1, Len(s) - 1)

InsertAt(s, i, e) == SubSeq(s, 1, i - 1) \o <<e>> \o SubSeq(s, i, Len(s))

RemoveAt(s, i) == SubSeq(s, 1, i - 1) \o SubSeq(s, i + 1, Len(s))

Reverse(s) == [i \in 1 .. Len(s) |-> s[Len(s) + 1 - i]]

\* Where e stands for the first time
IndexOf(s, e) == CHOOSE i \in 1 .. Len(s) : s[i] = e /\ \A j \in 1 .. i - 1 : s[j] # e

FoldLeft(op(_, _), base, s) ==
    LET fold[n \in 0 .. Len(s)] == IF n = 0 THEN base ELSE op(fold[n - 1], s[n])
    IN fold[Len(s)]

\* The elements that are in S, in their order
Only(s, S) == FoldLeft(LAMBDA kept, e : IF e \in S THEN Append(kept, e) ELSE kept, <<>>, s)

Remove(s, e) == Only(s, ToSet(s) \ {e})

Min(S) == CHOOSE n \in S : \A m \in S : n <= m

Max(S) == CHOOSE n \in S : \A m \in S : m <= n
=============================================================================
