---------------------------- MODULE MCMainMenu ----------------------------
(***************************************************************************)
(* Small installers for MainMenu.  Menu: three ordinary items in two       *)
(* stages, the first of which fetches one and is a dependency of another,  *)
(* and the item that changes the priority.  Deps: an item over two virtual *)
(* packages, one with a menu item among its providers and one without, and *)
(* an item in a dependency loop through a virtual package.                 *)
(***************************************************************************)
EXTENDS MainMenu, TLC

CONSTANTS anna, disk, late, mode,           \* Menu
          net, e100, e1000, dhcp, static, ppp, loop, \* Deps
          vnet, veth, vloop

MenuReal == {anna, disk, late, mode}
MenuItem == anna :> 20 @@ disk :> 30 @@ late :> 10 @@ mode :> 95000
MenuDepends == [p \in MenuReal |-> IF p = disk THEN <<anna>> ELSE <<>>]
MenuRank == [p \in MenuReal |-> 1]
MenuOrder == <<late, anna, disk, mode>>
MenuFetches == [p \in MenuReal |-> IF p = anna THEN {late} ELSE {}]
MenuFile == [p \in MenuReal |-> IF p = late THEN "absent" ELSE "unpacked"]
MenuProviders == [v \in {} |-> <<>>]

DepsReal == {net, e100, e1000, dhcp, static, ppp, loop}
DepsVirtual == {vnet, veth, vloop}
DepsItem == [p \in DepsReal |->
                CASE p = static -> 25 [] p = net -> 30 [] p = loop -> 40 [] OTHER -> 0]
DepsDepends == [p \in DepsReal |->
                CASE p = net -> <<veth, vnet>> [] p = dhcp -> <<veth>>
                  [] p = e100 -> <<ppp>> [] p = loop -> <<vloop>> [] OTHER -> <<>>]
DepsProviders == vnet :> <<dhcp, static>> @@ veth :> <<e100, e1000>> @@ vloop :> <<ppp, loop>>
DepsRank == [p \in DepsReal |-> 1]
DepsOrder == <<static, net, loop>>
DepsFetches == [p \in DepsReal |-> {}]
DepsFile == [p \in DepsReal |-> IF p = ppp THEN "absent" ELSE "unpacked"]
=============================================================================
