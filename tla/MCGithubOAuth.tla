---------------------------- MODULE MCGithubOAuth ----------------------------
(* Small instances of GithubOAuth. *)
EXTENDS GithubOAuth, TLC

CONSTANTS c1, c2, alice, mallory

MCClients == {c1, c2}
MCLogins == {alice, mallory}
MCRequests == {{"odoo"}, {"odoo", "offline_access"}}
MCAllowed == {alice}
ClientSymmetry == Permutations(MCClients)
=============================================================================
