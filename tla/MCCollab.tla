------------------------------ MODULE MCCollab ------------------------------
EXTENDS CollabCommands, TLC
CONSTANTS owner, member, nobody, c1, c2, server, cli
MCMembers == {owner, member}
MCContexts == {c1, c2}
MCProcs == {server, cli}
(* The shared context's contents are interchangeable.                      *)
ContextSymmetry == Permutations(MCContexts)
=============================================================================
