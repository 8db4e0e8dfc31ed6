---------------------------- MODULE MCModelStream ----------------------------
(* A small instance of the adapter for TLC. *)
EXTENDS ModelStream

ToolPart(i, id, p) == [kind |-> "tool", index |-> i, id |-> id, part |-> p]

\* s1 streams white space, a text between the parts of a call and a call of which only
\* the index is sent, or arguments that are no object; s2 nothing at all.
SomeScripts ==
    [s \in Streams |-> IF s # "s1" THEN {<<>>} ELSE
        {<<Blank>>,
         <<ToolPart(1, 8, "open"), Word, ToolPart(0, NoId, "none"), ToolPart(1, NoId, "shut")>>,
         <<ToolPart(0, 7, "bare")>>}]

=============================================================================
