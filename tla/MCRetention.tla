---------------------------- MODULE MCRetention ----------------------------
\* Buckets of four ticks of the clock and maintenance as often, as in the
\* program; one setting with the default order of the windows, and one whose
\* raw window is the shorter.
EXTENDS Retention

MCSettings == {[down |-> 3, raw |-> 6, rollup |-> 7],
               [down |-> 5, raw |-> 2, rollup |-> 6]}
=============================================================================
