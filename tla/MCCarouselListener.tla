-------------------------- MODULE MCCarouselListener --------------------------
(***************************************************************************)
(* Instances of CarouselListener for TLC: which reader feeds a carousel,   *)
(* and how many balloons pass it.                                          *)
(***************************************************************************)
EXTENDS CarouselListener, TLC

CONSTANTS c1, c2, r1, r2

OwnReaders == (c1 :> r1) @@ (c2 :> r2)
SharedReader == (c1 :> r1) @@ (c2 :> r1)
OneCarousel == (c1 :> r1)

ManyAndOne == (r1 :> MaxBalloons) @@ (r2 :> 1)
OneLine == (r1 :> MaxBalloons)
=============================================================================
