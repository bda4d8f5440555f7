----------------------------- MODULE MCCveScan -----------------------------
(***************************************************************************)
(* Instance of the scan, with two worlds.  Endpoints: a product to be      *)
(* discovered, one with a local mapping, one that is not eligible and one  *)
(* whose version says nothing, on endpoints that are scanned one after the *)
(* other.  Pages: one product with a local mapping whose CVEs fill three   *)
(* pages, so that a page can be older than one before it and a row can     *)
(* move over their border; nobody cancels its scans.  What a world leaves  *)
(* out is chosen by the provider, the assessor or the user, and so the     *)
(* fairness of the scan and of the clock are not touched.                  *)
(***************************************************************************)
EXTENDS CveScan

VARIABLE world

MCProducts == 1..5
MCKind == <<"remote", "local", "ineligible", "unversioned", "local">>
MCMaxRows == <<2, 0, 0, 0, 3>>
MCInventories == {<<1, 3>>, <<4, 2>>, <<5>>}
MCCves == {1, 2}

Mine == IF world = "pages" THEN {5} ELSE 1..4

\* The scans are of the world's products, and only those get rows.
InWorld ==
  /\ ToSet(inventory') \subseteq Mine
  /\ \A p \in Products \ Mine : rows'[p] = <<>>
  /\ world = "pages" => ~cancel'

MCInit == Init /\ world \in {"endpoints", "pages"} /\ (world = "pages" => half = "scan")

MCSpec == MCInit /\ [][Next /\ InWorld /\ UNCHANGED world]_<<vars, world>> /\ Fairness

============================================================================
