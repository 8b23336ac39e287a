-------------------------------- MODULE Maps --------------------------------
(***************************************************************************)
(* Maps as functions with a changing domain, for the hash maps the code    *)
(* keeps its records in.                                                   *)
(***************************************************************************)
EmptyMap == [x \in {} |-> x]
Put(f, x, y) == [z \in DOMAIN f \cup {x} |-> IF z = x THEN y ELSE f[z]]
Drop(f, x) == [z \in DOMAIN f \ {x} |-> f[z]]
=============================================================================
