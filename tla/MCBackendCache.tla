--------------------------- MODULE MCBackendCache ---------------------------
(* Two linear atoms and one non-linear atom.  Entry 1 applies to every     *)
(* formula, entry 2 only to a non-linear one (it joins late, after the     *)
(* linear atoms were passed on), entry 3 only to a purely linear one.      *)
EXTENDS BackendCache, TLC

CONSTANTS l1, l2, n1

MCFormulas == {l1, l2, n1}
MCKinds == {"lin", "nl"}
MCKind == (l1 :> "lin") @@ (l2 :> "lin") @@ (n1 :> "nl")
MCPriorities == {1, 2, 3}
MCApplies ==
    (1 :> SUBSET MCKinds)
    @@ (2 :> {{"nl"}, {"lin", "nl"}})
    @@ (3 :> {{"lin"}})

OnlyLinear == {"lin"}
AnyKind == MCKinds

=============================================================================
