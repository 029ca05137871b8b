---------------------------- MODULE MCKeepAlive ----------------------------
(***************************************************************************)
(* The instances of KeepAlive that TLC checks.                             *)
(***************************************************************************)
EXTENDS KeepAlive

\* A short window that asks for more and a longer one that asks for less.
TwoThresholds == {[bytes |-> 2, window |-> 2], [bytes |-> 1, window |-> 3]}

\* One window of the length of a poll interval.
OneThreshold == {[bytes |-> 1, window |-> 2]}

=============================================================================
