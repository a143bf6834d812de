------------------------------ MODULE JsonlFile ------------------------------
(***************************************************************************)
(* The file behind one object of a store that appends a JSON line at every *)
(* save and, when the process starts, keeps the last line it can parse.    *)
(* The stores of reviews and workflows persist this way.  (Those of        *)
(* ingestion runs, memories and conversations stop at the first bad line.) *)
(* An append that fails is swallowed by the store: it leaves the           *)
(* file as it was, or with a piece of a line that no newline ends, and the *)
(* next line is then written behind that piece and lost with it.           *)
(***************************************************************************)
CONSTANTS Objects, \* what a line may hold
          Absent   \* there is no line that can be parsed

\* A file: the object a restart would load, and whether its last line is
\* complete.
Files == [last: Objects \cup {Absent}, torn: BOOLEAN]

EmptyFile == [last |-> Absent, torn |-> FALSE]

\* A complete line is appended.
Appended(file, object) ==
  [last |-> IF file.torn THEN file.last ELSE object, torn |-> FALSE]

\* An append fails: nothing is written, or a piece of the line.
Damaged(file) == {file, [file EXCEPT !.torn = TRUE]}

\* What a restart finds.
Loaded(file) == file.last
=============================================================================
