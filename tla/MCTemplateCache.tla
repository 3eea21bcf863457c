--------------------------- MODULE MCTemplateCache ---------------------------
(* TLC instances of TemplateCache. *)
EXTENDS TemplateCache, TLC

(* Requests are interchangeable among themselves, and so are processes.    *)
TemplateSymmetry == Permutations(Nodes) \cup Permutations(Creators)
                      \cup Permutations(Admins)
=============================================================================
