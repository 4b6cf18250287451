------------------------------ MODULE MCCatalog ------------------------------
(* ActionCatalog for TLC: room for one preset beside Default, two names that *)
(* differ in their case, two requests at work at once.                       *)
EXTENDS ActionCatalog, TLC
MCLower == ("a" :> "a") @@ ("A" :> "a") @@ ("default" :> "default")
MCNames == {"a", "A", "default"}
MCButtons == {1, 2}
MCFactory == <<1>>
MCLists == {<<1, 2>>, <<2>>}
=============================================================================
