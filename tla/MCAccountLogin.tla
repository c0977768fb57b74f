--------------------------- MODULE MCAccountLogin ---------------------------
(* Names for the users of the instances of AccountLogin, and what is typed *)
(* in a page: the account of either, a password without a name, nothing.   *)
EXTENDS AccountLogin

CONSTANTS u1, u2

Typed ==
  [user : {u1, u2, None}, pass : {TRUE}] \cup {[user |-> None, pass |-> FALSE]}
=============================================================================
