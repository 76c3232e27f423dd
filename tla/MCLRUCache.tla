----------------------------- MODULE MCLRUCache -----------------------------
(***************************************************************************)
(* A cache of four bytes and data of one to five: some fit together, some    *)
(* only alone, some not at all, and two of the same size are told apart.    *)
(***************************************************************************)
EXTENDS LRUCache

DataOfSizes == [ d \in {"one", "two", "deux", "four", "five"} |->
                   CASE d = "one" -> 1
                     [] d = "four" -> 4
                     [] d = "five" -> 5
                     [] OTHER -> 2 ]
=============================================================================
