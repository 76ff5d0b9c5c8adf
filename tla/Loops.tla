-------------------------------- MODULE Loops --------------------------------
(* The loops of the code, as folds. *)
EXTENDS Integers, Sequences, SequencesExt

LOCAL Few == 16

\* FoldLeft over records and sequences, in a form that TLC runs on a small
\* stack: a few steps at a time, and what a step gets is evaluated before the
\* step (that is all the comparison of its domain is for).
Fold(Step(_, _), start, seq) ==
  LET n == Len(seq)
      FewSteps(s, from, to) ==
        LET after[i \in from..to] ==
              IF i = from THEN s
              ELSE LET t == after[i - 1] IN IF DOMAIN t = DOMAIN t THEN Step(t, seq[i]) ELSE t
        IN after[to]
      done[k \in 0..((n + Few - 1) \div Few)] ==
        IF k = 0 THEN start
        ELSE LET t == done[k - 1]
             IN IF DOMAIN t = DOMAIN t
                THEN FewSteps(t, (k - 1) * Few, IF k * Few < n THEN k * Few ELSE n) ELSE t
  IN done[(n + Few - 1) \div Few]

\* The same sequence, which TLC then evaluates once.
Evaluated(s) == SubSeq(s, 1, Len(s))

\* A value, once the parts it is made of are evaluated: else TLC comes to them
\* where they are used, on a stack that is deep already.
Once(parts, value) == IF DOMAIN parts = DOMAIN parts THEN value ELSE value

Joined(seqs) == Fold(LAMBDA all, s : all \o s, <<>>, seqs)
=============================================================================
