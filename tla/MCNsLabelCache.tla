--------------------------- MODULE MCNsLabelCache ---------------------------
(* NsLabelCache as it is; its callers are model values.                    *)
EXTENDS NsLabelCache

=============================================================================
