------------------------------ MODULE MCGitRepos ------------------------------
(* Instances of GitRepos for TLC.                                          *)
EXTENDS GitRepos, TLC

CONSTANTS app, fork, lib,   \* two repositories of the same name, and another
          n1, n2, h1, h2

MCNameOf == app :> n1 @@ fork :> n1 @@ lib :> n2
MCHostOf == app :> h1 @@ fork :> h2 @@ lib :> h1
=============================================================================
