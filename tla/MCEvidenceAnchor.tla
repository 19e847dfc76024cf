--------------------------- MODULE MCEvidenceAnchor ---------------------------
(***************************************************************************)
(* Instances of EvidenceAnchor: three manifests, the third of them with a  *)
(* second job (enqueue retried), batches of two.                           *)
(***************************************************************************)
EXTENDS EvidenceAnchor

CONSTANTS m1, m2, m3, j1, j2, j3, j3again, w1

MCManifestOf ==
    [j \in Jobs |-> CASE j = j1 -> m1 [] j = j2 -> m2 [] j \in {j3, j3again} -> m3]

MCKinds ==
    {[m \in Manifests |-> "good"],
     [m \in Manifests |-> IF m = m1 THEN "refused" ELSE "good"],
     [m \in Manifests |-> IF m = m1 THEN "invalid" ELSE "good"]}
==============================================================================
