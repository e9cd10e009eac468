----------------------------- MODULE MCDepGraph -----------------------------
(* DepGraph for TLC: four plugins, declarations that make chains, cycles,  *)
(* second providers, optional uses and a plugin that requires its own type.*)
EXTENDS DepGraph

Decl(p, r, o) == [provides |-> p, required |-> r, optional |-> o]

MCDecls == {
    Decl({"logger"}, {}, {}),
    Decl({"cache"}, {"logger"}, {}),
    Decl({}, {"cache"}, {"logger"}),
    Decl({"logger", "cache"}, {}, {}),
    Decl({"logger"}, {"cache"}, {}),
    Decl({"cache"}, {"cache"}, {})}
=============================================================================
