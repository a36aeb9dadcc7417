-------------------------------- MODULE MCAnna --------------------------------
(***************************************************************************)
(* An instance of Anna: a library, a menu item that needs it, and a        *)
(* package of standard priority whose name contains the library's.  The    *)
(* old list names no file for the library, and the new one no checksum for *)
(* the third package.                                                      *)
(***************************************************************************)
EXTENDS Anna, TLC

CONSTANTS lib, item, std

ThreePackages == <<item, lib, std>>
ThreeDepends == (item :> {lib}) @@ (lib :> {}) @@ (std :> {})
ThreeInside == (item :> {item}) @@ (lib :> {lib}) @@ (std :> {std, lib})
BootChoices ==
    {[lowmem |-> 0, standard_modules |-> TRUE, include |-> {}, exclude |-> {lib},
      initrd |-> {}],
     [lowmem |-> 2, standard_modules |-> FALSE, include |-> {lib}, exclude |-> {},
      initrd |-> {lib}]}
NoFilename == {<<1, lib>>}
NoSum == {<<2, std>>}
ThreeSince == (item :> 1) @@ (lib :> 1) @@ (std :> 2)
=============================================================================
