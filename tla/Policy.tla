------------------------------- MODULE Policy --------------------------------
(***************************************************************************)
(* policy.py: values, and which attributes pass.                           *)
(*                                                                         *)
(* A value is a leaf, an array of leaves, or a mapping, which only the     *)
(* body of a log record may be (Bodies).  Leaves differ in where they may  *)
(* be: "text" and "number" are anywhere; "loose" ones are strings, too     *)
(* long or not printable, that may be a whole body only; a "null" may be   *)
(* in a mapping only; and "odd" ones (bytes, objects) may be nowhere.      *)
(***************************************************************************)
EXTENDS Integers, SequencesExt

CONSTANTS
  MaxAttributes, \* attributes of a record (64)
  MaxItems,      \* items of an array (32)
  BadKeys        \* keys that are malformed or denied

Leaf(sort) == [kind |-> "leaf", sort |-> sort]
Array(sorts) == [kind |-> "array", sorts |-> sorts]

Scalars == {"text", "number"}

-----------------------------------------------------------------------------
(* Attributes: a function from names to values.  A name is a prefix and a   *)
(* key, and denied where its key is.                                        *)

PassesAttribute(value) ==
  \/ value.kind = "leaf" /\ value.sort \in Scalars
  \/ /\ value.kind = "array" /\ Len(value.sorts) \in 1..MaxItems
     /\ \E sort \in Scalars : ToSet(value.sorts) = {sort}

\* What sanitize_attributes does not raise for.
sanitize_attributes(values) ==
  /\ Cardinality(DOMAIN values) <= MaxAttributes
  /\ \A name \in DOMAIN values : name[2] \notin BadKeys /\ PassesAttribute(values[name])

=============================================================================
