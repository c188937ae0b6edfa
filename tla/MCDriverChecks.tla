--------------------------- MODULE MCDriverChecks ---------------------------
(***************************************************************************)
(* DriverChecks with prompts and answers that pass, or fail, each of the   *)
(* searches for words in its own way.                                      *)
(***************************************************************************)
EXTENDS DriverChecks

\* Without and with the declaration of the API and a call of parse_msg.
MCPrompts == { {}, {"api", "msg"} }

\* The words in the function and after it.
Text(function, rest) ==
  [p \in Places \ {"prompt"} |-> IF p = "function" THEN function ELSE rest]

MCSolutions ==
  { [func |-> "none",   last |-> "other", words |-> Text({}, {})],
    [func |-> "open",   last |-> "brace", words |-> Text({"api"}, {})],
    [func |-> "closed", last |-> "other", words |-> Text({"api"}, {})],
    [func |-> "closed", last |-> "brace", words |-> Text({"api"}, {"msg"})],
    [func |-> "closed", last |-> "brace", words |-> Text({}, {"api"})] }

\* As for the API of gpac: the leak together with a frame of its stack.
MCKnownBugs == { {"leak", "trace"} }
=============================================================================
