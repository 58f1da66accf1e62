----------------------------- MODULE MCPackages ------------------------------
EXTENDS PackageCache, TLC

(* Publishers, clients, versions and files are interchangeable. *)
MCSymmetry ==
  Permutations(Publishers) \cup Permutations(Clients) \cup Permutations(Versions)
    \cup Permutations(Files)
=============================================================================
