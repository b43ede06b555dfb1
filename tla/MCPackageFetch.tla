--------------------------- MODULE MCPackageFetch ---------------------------
(* Small instances of PackageFetch.                                        *)
EXTENDS PackageFetch

TwoPackages == <<"sha-a", "sha-b">>
OnePackage == <<"sha-a">>
=============================================================================
