---------------------------- MODULE MCProvision ----------------------------
(* A variant with weights and a tokenizer published apart, whose weights    *)
(* have two revisions that share a file.                                    *)
EXTENDS Provision, TLC

CONSTANTS g1, g2, a, weights, tokenizer, x, y, z, t, e, rev1, rev2

MCVariants == {a}
MCSourcesOf == (a :> <<weights, tokenizer>>)
MCEnvOf == (a :> e)
MCFilesOf == (weights :> (rev1 :> {x, y} @@ rev2 :> {y, z})) @@ (tokenizer :> (rev2 :> {t}))
MCSize == (x :> 2 @@ y :> 1 @@ z :> 2 @@ t :> 1)
=============================================================================
