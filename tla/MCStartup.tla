------------------------------ MODULE MCStartup ------------------------------
(***************************************************************************)
(* Command lines for checking Startup with TLC.                            *)
(***************************************************************************)
EXTENDS Startup

(* Numbers below, at and above the limits of --max-events. *)
Numbers == [ w \in {"-1", "0", "4", "99"} |->
               CASE w = "-1" -> -1 [] w = "0" -> 0 [] w = "4" -> 4 [] OTHER -> 99 ]

(* Two options with a value, one without, and the numbers. *)
SomeWords == {"--max-events", "--port", "--verbose", "--help"} \cup DOMAIN Numbers
=============================================================================
