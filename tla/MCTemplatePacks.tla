--------------------------- MODULE MCTemplatePacks ---------------------------
(* A model-checking instance of TemplatePacks.                             *)
EXTENDS TemplatePacks

Item(kind, base, ok) == [kind |-> kind, base |-> base, ok |-> ok]
Asset(path, form, size) == [path |-> path, form |-> form, size |-> size]

\* A first release, one that reverts its items under a new manifest and has a name
\* twice, and one with assets over the limit.
Releases ==
    {[version |-> "v1", sha |-> "s1", items |-> <<Item("command", "x", TRUE)>>,
      assets |-> {Asset("a", "binary", 2)}],
     [version |-> "v2", sha |-> "s2",
      items |-> <<Item("command", "x", FALSE), Item("command", "x", TRUE)>>,
      assets |-> {Asset("a", "text", 2), Asset("b", "text", 0)}],
     [version |-> "v2", sha |-> "s3", items |-> <<>>,
      assets |-> {Asset("a", "binary", 3), Asset("b", "binary", 2)}]}
=============================================================================
