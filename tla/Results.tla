------------------------------ MODULE Results ------------------------------
(***************************************************************************)
(* What a Go function gives that returns a slice and an error: a record    *)
(* with the error and what it built, which is nothing if it failed.        *)
(***************************************************************************)
EXTENDS Integers, Sequences, SequencesExt

Ok(out)   == [err |-> "none", out |-> out]
Fail(why) == [err |-> why, out |-> <<>>]

\* The results of a loop that appends and returns at the first error.
Collect(results) ==
    LET k == SelectInSeq(results, LAMBDA r : r.err # "none")
    IN  IF k = 0 THEN Ok(FlattenSeq([i \in DOMAIN results |-> results[i].out]))
                 ELSE results[k]

Each(parts, Op(_)) == Collect([i \in DOMAIN parts |-> Op(parts[i])])
=============================================================================
