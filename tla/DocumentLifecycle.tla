------------------------- MODULE DocumentLifecycle -------------------------
(***************************************************************************)
(* The lifecycle of a document of the registry: the statuses of            *)
(* models/document.py and the rule of services/document.py that every      *)
(* status update is checked against.                                       *)
(***************************************************************************)

StatusEnum ==
  {"UPLOADED", "PROCESSING", "PARSING", "PARSED", "INDEXED", "FAILED"}

(* The table `transitions` of _is_valid_transition. *)
Transitions ==
  {<<"UPLOADED", "PROCESSING">>, <<"UPLOADED", "PARSING">>,
   <<"PROCESSING", "PARSING">>, <<"PARSING", "PARSED">>,
   <<"PARSED", "INDEXED">>, <<"FAILED", "PROCESSING">>}
    \union ({"UPLOADED", "PROCESSING", "PARSING", "PARSED", "INDEXED"}
              \X {"FAILED"})

ValidTransition(current, target) ==
  current = target \/ <<current, target>> \in Transitions
=============================================================================
