---------------------------- MODULE MCCollector ----------------------------
(* Two connections, of one device that connects again or of two devices,   *)
(* one of which may have an address ending in .1 and so the number 0.      *)
EXTENDS Collector

MCContent == {[card |-> 1, tot |-> 1, dist |-> <<0, 1>>],
              [card |-> 2, tot |-> 3, dist |-> <<0, 1, 1>>]}
FadingContent == {[card |-> 2, tot |-> 3, dist |-> <<0, 1, 0>>]}
=============================================================================
