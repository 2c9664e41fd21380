------------------------------ MODULE MCPlayer ------------------------------
(***************************************************************************)
(* The player with three songs: the first two of an album, and one of an   *)
(* earlier artist.  In the order of the tracks alone they stand otherwise, *)
(* so the sorts exchange them in each field.                               *)
(***************************************************************************)
EXTENDS Player, TLC

CONSTANTS s1, s2, s3

MCRank == [track |-> s1 :> 2 @@ s2 :> 1 @@ s3 :> 2,
           album |-> s1 :> 1 @@ s2 :> 1 @@ s3 :> 2,
           artist |-> s1 :> 2 @@ s2 :> 2 @@ s3 :> 1]

\* Two songs whose tracks are not in the order of their artists
MCTwoRank == [track |-> s1 :> 2 @@ s2 :> 1,
              album |-> s1 :> 1 @@ s2 :> 1,
              artist |-> s1 :> 1 @@ s2 :> 2]
=============================================================================
