----------------------------- MODULE Flattening -----------------------------
(***************************************************************************)
(* How the modes that have no nested values flatten one (flattenToStream,  *)
(* flattenToItem and flattenToAttributes in internal/logline), and what    *)
(* becomes of one that is read into Go as a whole.                         *)
(***************************************************************************)
EXTENDS Reconstruct

\* The name of a member.
Child(style, prefix, node, key) ==
  IF node.t = "array"
  THEN CASE style = "sentry" -> prefix \o "[" \o key \o "]"
         [] style = "loki"   -> prefix \o "_" \o key
         [] style = "otel"   -> IF prefix = "" THEN key ELSE prefix \o "." \o key
  ELSE IF prefix = "" THEN key ELSE prefix \o (IF style = "otel" THEN "." ELSE "__") \o key

RECURSIVE LeavesUnder(_, _, _)
LeavesUnder(style, prefix, value) ==
  IF ~IsNode(value) THEN <<[key |-> prefix, val |-> value]>>
  ELSE FlattenSeq([i \in 1 .. Len(value.of) |->
         LeavesUnder(style, Child(style, prefix, value, value.of[i].key), value.of[i].val)])

\* gjson's Value, written by sjson: every number in it has been a float64.  In what order
\* the members of an object come is left as it was.
RECURSIVE ReadAndWritten(_)
ReadAndWritten(value) ==
  CASE IsNode(value) -> [value EXCEPT !.of = [i \in DOMAIN @ |-> [@[i] EXCEPT !.val = ReadAndWritten(@)]]]
    [] value.t \in {"integer", "decimal"} -> Leaf(value.t, Float64[value.v])
    [] OTHER -> value
=============================================================================
