----------------------------- MODULE MCContent -----------------------------
(* Small instances of Content. *)
EXTENDS Content

CONSTANTS t1, t2

\* Two pieces of two blocks; the first file ends inside the second piece.
TwoFiles == <<3, 4>>

\* Two pieces of one block in one file.
OneFile == <<2>>

\* No errors, those that do no harm, and all but one of those.
SomeScenarios == {{}, {"stat", "startup", "close_full"}, ErrorKinds \ {"stat"}}

=============================================================================
