-------------------------------- MODULE Maps --------------------------------
(* A row or a link that is added to those that exist, or takes the place   *)
(* of the one with the same name.  Functions has Restrict to take one out. *)

Put(map, name, value) == [n \in DOMAIN map \cup {name} |-> IF n = name THEN value ELSE map[n]]
=============================================================================
