------------------------------- MODULE MCGate -------------------------------
(***************************************************************************)
(* Gate for TLC.  Two requests are turned away first: one to a host nobody  *)
(* serves and one of tenant t1 with a token of tenant t2.  Then a buildx    *)
(* push of tenant t1 (an image, an attestation, and an index by tag that    *)
(* names both) runs beside a push of an image whose layers are of a type    *)
(* nobody knows, by a service whose credential is valid for both tenants;   *)
(* after the index comes a manifest that has a layer and lists a manifest.  *)
(***************************************************************************)
EXTENDS Gate

CONSTANTS stray, other, img, odd, att, idx, both, t1, t2

Layers(p) ==
    CASE p \in {img, both} -> {"filesystem"} [] p = odd -> {"in-toto", "unknown"}
      [] p = idx -> {} [] OTHER -> {"in-toto"}

After(p) ==
    CASE p = other -> {stray} [] p \in {img, odd} -> {other}
      [] p = att -> {img, odd} [] p = idx -> {att} [] p = both -> {idx} [] OTHER -> {}

BuildxPush == [p \in Requests |->
    [host |-> IF p = stray THEN None ELSE t1,
     tokenHost |-> IF p = stray THEN None ELSE IF p = other THEN t2 ELSE t1,
     digest |-> p, tag |-> p # img, index |-> p = idx,
     manifests |-> CASE p = idx -> {img, att} [] p = both -> {img} [] OTHER -> {},
     layers |-> Layers(p), after |-> After(p)]]

Credentials == {<<p, IF p = other THEN t2 ELSE t1>> : p \in Requests} \cup {<<odd, t2>>}
=============================================================================
