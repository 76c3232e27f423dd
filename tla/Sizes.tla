-------------------------------- MODULE Sizes --------------------------------
(***************************************************************************)
(* How many bytes several things hold together.  Each byte is known by its  *)
(* owner and its place in it, and they are counted: a sum over a set that   *)
(* can be reasoned about without recursion.                                 *)
(***************************************************************************)
EXTENDS Integers, FiniteSets

(* size[o] is the number of bytes that o holds. *)
BytesOf(owners, size) == UNION { {o} \X (1..size[o]) : o \in owners }

SizeOf(owners, size) == Cardinality(BytesOf(owners, size))
=============================================================================
