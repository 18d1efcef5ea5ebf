---------------------------- MODULE JanusConfigMap ----------------------------
(***************************************************************************)
(* What the configuration API promises its callers, without lists: a set  *)
(* of existing categories and, per category (and for the uncategorized    *)
(* items), a value or Absent per item name.  The variable call records    *)
(* the API call a step stands for, so that each call is held to its own    *)
(* effect and not to that of some other call.                              *)
(***************************************************************************)
CONSTANTS Cats, Names, Vals, NoCat, Absent

VARIABLES exists, val, call

Keys == Cats \cup {NoCat}

Call(op, c, n, v) == [op |-> op, cat |-> c, name |-> n, value |-> v]

Init ==
    /\ exists = {}
    /\ val = [c \in Keys |-> [n \in Names |-> Absent]]
    /\ call = Call("create", NoCat, NoCat, NoCat)

CreateCategory(c) ==
    /\ call' = Call("add_category", c, NoCat, NoCat)
    /\ exists' = exists \cup {c}
    /\ UNCHANGED val

DeleteCategory(c) ==
    /\ call' = Call("remove_category", c, NoCat, NoCat)
    /\ exists' = exists \ {c}
    /\ val' = [val EXCEPT ![c] = [n \in Names |-> Absent]]

(* Setting an item of a named category makes the category exist.         *)
Put(c, n, v) ==
    /\ call' = Call("add_item", c, n, v)
    /\ exists' = IF c = NoCat THEN exists ELSE exists \cup {c}
    /\ val' = [val EXCEPT ![c][n] = v]

Delete(c, n) ==
    /\ call' = Call("remove_item", c, n, NoCat)
    /\ UNCHANGED exists
    /\ val' = [val EXCEPT ![c][n] = Absent]

Next ==
    \/ \E c \in Cats : CreateCategory(c) \/ DeleteCategory(c)
    \/ \E c \in Keys, n \in Names : Delete(c, n) \/ \E v \in Vals : Put(c, n, v)

Spec == Init /\ [][Next]_<<exists, val, call>>
=============================================================================
