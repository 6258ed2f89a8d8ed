----------------------------- MODULE MCTracker -----------------------------
(* A small instance of Tracker. *)
EXTENDS Tracker

CONSTANTS a, b, c, d

TwoTiers == << <<a, b>>, <<c, d>> >>

=============================================================================
