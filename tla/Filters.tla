--------------------------------- MODULE Filters ---------------------------------
(* The elements of a sequence that are in a set, or outside it, in their order: what *)
(* the tray's list comprehensions with a membership test make.  A recursive function *)
(* rather than SelectSeq, of which the provers know nothing.                         *)
EXTENDS Integers, Sequences, Functions

Within(s, S) ==
    LET kept[i \in 0 .. Len(s)] ==
            IF i = 0 THEN <<>> ELSE IF s[i] \in S THEN Append(kept[i - 1], s[i]) ELSE kept[i - 1]
    IN  kept[Len(s)]
Without(s, T) == Within(s, Range(s) \ T)
================================================================================
