---------------------------- MODULE MCWriteLocks ----------------------------
(* Instances of WriteLocks for TLC. *)
EXTENDS WriteLocks

\* Two requests that name the same streams in opposite orders; a third that
\* names one stream.
MCRequest ==
    [c \in Committers |-> CASE c = "c1" -> <<1, 2>>
                            [] c = "c2" -> <<2, 1>>
                            [] OTHER    -> <<1>>]

=============================================================================
