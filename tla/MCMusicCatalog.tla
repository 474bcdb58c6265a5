----------------------------- MODULE MCMusicCatalog -----------------------------
(* A root with an album folder that holds two files and a disc folder with *)
(* one, and a second root with one folder; a sure song and a nameless one, *)
(* equally long.                                                           *)
EXTENDS MusicCatalog, TLC

CONSTANTS main, extra, album, disc, loose, s1, s2, queen

TwoRoots == <<main, extra>>
Walks == main :> <<album, disc>> @@ extra :> <<loose>>
OneDisc == disc :> album
FourPaths == 1..4
HomeOf == 1 :> album @@ 2 :> album @@ 3 :> disc @@ 4 :> loose
TwoSongs == {s1, s2}
SameLength == s1 :> 1 @@ s2 :> 1
ByQueen == s1 :> queen @@ s2 :> Nobody
OnlyFirst == {s1}
===============================================================================
