-------------------------- MODULE MCLanguageServer --------------------------
EXTENDS LanguageServer, TLC

CONSTANTS a, b, c

(* a imports b                                                             *)
OneImport == {<<a, b>>}
(* a imports b, which imports c                                            *)
Chain == {<<a, b>>, <<b, c>>}
(* a and b import each other                                               *)
Cycle == {<<a, b>>, <<b, a>>}
=============================================================================
