---------------------------- MODULE MCInventory ----------------------------
(***************************************************************************)
(* Instances of Inventory for TLC.                                         *)
(***************************************************************************)
EXTENDS Inventory

CONSTANTS A, B, C, X, Pen, Hat

EntryAt(parent, name, kind, asset) ==
  [parent |-> parent, name |-> name, kind |-> kind, asset |-> asset]

(* /A, /A/B, /A/B/X and /A/X: an item two levels deep and a sibling.       *)
MCInitial == <<EntryAt(<<>>, A, "directory", NoAsset), EntryAt(<<A>>, B, "directory", NoAsset),
               EntryAt(<<A, B>>, X, "item", Pen), EntryAt(<<A>>, X, "item", Hat)>>

Request(op, src, dst, recursive) ==
  [op |-> op, src |-> src, dst |-> dst, recursive |-> recursive]

(* Calls whose trees meet: a copy and a move of the same tree, a removal   *)
(* inside it, a directory made where the copy goes.                        *)
MCCalls == {Request("copy", <<A>>, <<C>>, TRUE), Request("move", <<A>>, <<B>>, TRUE),
            Request("remove", <<A, B>>, <<>>, TRUE), Request("mkdir", <<C>>, <<>>, FALSE)}

RefusedCalls == {Request("copy", <<A>>, <<C>>, FALSE), Request("remove", <<A>>, <<>>, FALSE),
                 Request("mkdir", <<A>>, <<>>, FALSE), Request("copy", <<A, X>>, <<>>, FALSE),
                 Request("move", <<X>>, <<C>>, TRUE)}
=============================================================================
