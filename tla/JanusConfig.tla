----------------------------- MODULE JanusConfig -----------------------------
(***************************************************************************)
(* The in-memory INI configuration container of config.h (src/unnamed/    *)
(* part_000): a janus_config holds a list of uncategorized items and a     *)
(* list of categories, each a list of name=value items, all GLists kept    *)
(* in insertion order.  The API adds and removes categories and items and  *)
(* looks them up by name (the first match in list order).  Parsing and     *)
(* saving files are I/O around these operations and are not modelled.     *)
(* A single thread edits a configuration: each call is one step.          *)
(***************************************************************************)
EXTENDS Naturals, Sequences, SequencesExt

CONSTANTS
    Cats,      \* category names (model values)
    Names,     \* item names (model values)
    Vals,      \* item values (model values)
    NoCat      \* the NULL category argument: the uncategorized items

ASSUME NoCat \notin Cats

Item == [name : Names, value : Vals]

VARIABLES
    items,       \* config->items: Seq(Item)
    categories,  \* config->categories: Seq([name : Cats, items : Seq(Item)])
    lastCall     \* history: the API call the last step made

vars == <<items, categories, lastCall>>

(* An API call with its arguments; unused arguments are NoCat (NULL).      *)
CallOf(op, c, n, v) == [op |-> op, cat |-> c, name |-> n, value |-> v]

(* Position of the first element of s whose field f is x, 0 if none (the  *)
(* g_list walk of the getters).                                            *)
FirstIndex(s, f, x) == SelectInSeq(s, LAMBDA e : e[f] = x)

(* janus_config_get_category                                               *)
CategoryIndex(c) == FirstIndex(categories, "name", c)

(* The item list a category argument designates (NULL: uncategorized).    *)
ItemsOf(c) ==
    IF c = NoCat THEN items
    ELSE IF CategoryIndex(c) = 0 THEN <<>>
    ELSE categories[CategoryIndex(c)].items

(* janus_config_get_item_drilldown: the value found, or NoCat for NULL.    *)
GetItemDrilldown(c, n) ==
    LET is == ItemsOf(c)
        k  == FirstIndex(is, "name", n)
    IN  IF k = 0 THEN NoCat ELSE is[k].value

(* Write the item list of category c (which exists, or is NoCat).          *)
SetItems(c, is) ==
    IF c = NoCat
    THEN /\ items' = is
         /\ UNCHANGED categories
    ELSE /\ categories' = [categories EXCEPT ![CategoryIndex(c)].items = is]
         /\ UNCHANGED items

(* An item list with n set to v: the existing item is overwritten in       *)
(* place, or a new one is appended.                                        *)
PutItem(is, n, v) ==
    LET k == FirstIndex(is, "name", n)
    IN  IF k = 0 THEN Append(is, [name |-> n, value |-> v])
        ELSE [is EXCEPT ![k].value = v]
-----------------------------------------------------------------------------
(* janus_config_create: an empty configuration.                          *)
Init ==
    /\ items = <<>>
    /\ categories = <<>>
    /\ lastCall = CallOf("create", NoCat, NoCat, NoCat)

(* Variant that appends a new category whether or not one of that name     *)
(* exists.                                                                 *)
AddCategoryAlways(c) ==
    /\ categories' = Append(categories, [name |-> c, items |-> <<>>])
    /\ UNCHANGED items
    /\ lastCall' = CallOf("add_category", c, NoCat, NoCat)

(* janus_config_add_category: an existing category of that name is        *)
(* returned as it is; otherwise an empty one is appended.                  *)
AddCategory(c) ==
    /\ categories' = IF CategoryIndex(c) # 0 THEN categories
                     ELSE Append(categories, [name |-> c, items |-> <<>>])
    /\ UNCHANGED items
    /\ lastCall' = CallOf("add_category", c, NoCat, NoCat)

(* janus_config_remove_category: the category goes with all its items;    *)
(* an error, and no change, if there is none of that name.                 *)
RemoveCategory(c) ==
    /\ categories' = IF CategoryIndex(c) = 0 THEN categories
                     ELSE RemoveAt(categories, CategoryIndex(c))
    /\ UNCHANGED items
    /\ lastCall' = CallOf("remove_category", c, NoCat, NoCat)

(* Variant that treats the NULL category as a name like any other.         *)
AddItemNullAsName(c, n, v) ==
    /\ IF CategoryIndex(c) = 0
       THEN /\ categories' = Append(categories,
                   [name |-> c, items |-> <<[name |-> n, value |-> v]>>])
            /\ UNCHANGED items
       ELSE SetItems(c, PutItem(ItemsOf(c), n, v))
    /\ lastCall' = CallOf("add_item", c, n, v)

(* Variant that appends the item even when one of that name exists.        *)
AddItemAppend(c, n, v) ==
    /\ IF c # NoCat /\ CategoryIndex(c) = 0
       THEN /\ categories' = Append(categories,
                   [name |-> c, items |-> <<[name |-> n, value |-> v]>>])
            /\ UNCHANGED items
       ELSE SetItems(c, Append(ItemsOf(c), [name |-> n, value |-> v]))
    /\ lastCall' = CallOf("add_item", c, n, v)

(* janus_config_add_item: the category is created if it does not exist;   *)
(* an existing item of that name has its value overwritten, otherwise the *)
(* item is appended.                                                       *)
AddItem(c, n, v) ==
    /\ IF c # NoCat /\ CategoryIndex(c) = 0
       THEN /\ categories' = Append(categories,
                   [name |-> c, items |-> <<[name |-> n, value |-> v]>>])
            /\ UNCHANGED items
       ELSE SetItems(c, PutItem(ItemsOf(c), n, v))
    /\ lastCall' = CallOf("add_item", c, n, v)

(* janus_config_remove_item: an error, and no change, if the category or  *)
(* the item does not exist.                                                *)
RemoveItem(c, n) ==
    /\ LET k == FirstIndex(ItemsOf(c), "name", n)
       IN  IF (c # NoCat /\ CategoryIndex(c) = 0) \/ k = 0
           THEN UNCHANGED <<items, categories>>
           ELSE SetItems(c, RemoveAt(ItemsOf(c), k))
    /\ lastCall' = CallOf("remove_item", c, n, NoCat)

Next ==
    \/ \E c \in Cats : AddCategory(c) \/ RemoveCategory(c)
    \/ \E c \in Cats \cup {NoCat}, n \in Names :
          RemoveItem(c, n) \/ \E v \in Vals : AddItem(c, n, v)

Spec == Init /\ [][Next]_vars
-----------------------------------------------------------------------------
TypeOK ==
    /\ items \in Seq(Item)
    /\ categories \in Seq([name : Cats, items : Seq(Item)])
    /\ lastCall \in [op : {"create", "add_category", "remove_category",
                            "add_item", "remove_item"},
                     cat : Cats \cup {NoCat}, name : Names \cup {NoCat},
                     value : Vals \cup {NoCat}]

Names_(s) == [i \in DOMAIN s |-> s[i].name]

(* However the calls are interleaved, no two categories share a name and  *)
(* no category (nor the uncategorized list) holds two items of one name,  *)
(* so that the first-match getters see every item that is there.           *)
UniqueNames ==
    /\ IsInjective(Names_(categories))
    /\ IsInjective(Names_(items))
    /\ \A i \in DOMAIN categories : IsInjective(Names_(categories[i].items))

(* What the lookups see: the categories that exist and, per category, the *)
(* value get_item_drilldown returns for each name.                         *)
Visible == [c \in Cats \cup {NoCat} |-> [n \in Names |-> GetItemDrilldown(c, n)]]

Abstract == INSTANCE JanusConfigMap
    WITH exists <- {c \in Cats : CategoryIndex(c) # 0}, val <- Visible,
         Absent <- NoCat, call <- lastCall

(* The container behaves as a map of maps: after add_item(c, n, v) the     *)
(* lookup of (c, n) returns v, after remove_item or remove_category it     *)
(* returns NULL, and a call changes no other lookup; in particular a later *)
(* removal never uncovers a stale duplicate of the item it removed.        *)
ConfigRefinement == Abstract!Spec
=============================================================================
