----------------------------- MODULE DeviceTree ------------------------------
(***************************************************************************)
(* A device tree as its writer means it: the beginnings and ends of nodes  *)
(* and the properties, in order.  A call adds its token or, having failed, *)
(* nothing.                                                                *)
(***************************************************************************)
EXTENDS Integers, Sequences

CONSTANT Program \* the calls

VARIABLES calls, tokens

Writes == [begin_node |-> "begin", end_node |-> "end", property |-> "prop"]

TreeInit == calls = 0 /\ tokens = <<>>

TreeNext ==
    /\ calls < Len(Program)
    /\ calls' = calls + 1
    /\ LET c == Program[calls + 1]
       IN  \/ tokens' = tokens
           \/ c.op = "create" /\ tokens' = <<>>
           \/ /\ c.op \in DOMAIN Writes
              /\ tokens' = Append(tokens, [tag |-> Writes[c.op], names |-> {c.name}])

TreeSpec == TreeInit /\ [][TreeNext]_<<calls, tokens>>
=============================================================================
