----------------------------- MODULE MCPipeline -----------------------------
(* Pipeline on one title with a few selections: the first one, whose name  *)
(* is taken; another picture with an automatic CRF on a selected host, and *)
(* other tracks of another playlist without images, under another name.    *)
EXTENDS Pipeline, TLC

First == [disc |-> 1, crop |-> "auto", picture |-> 1, tracks |-> 1, auto |-> FALSE,
          host |-> "auto", name |-> "n"]

Sharper == [First EXCEPT !.picture = 2, !.auto = TRUE, !.host = "h2", !.name = "m"]

Bare == [First EXCEPT !.disc = 2, !.crop = "manual", !.tracks = 2, !.host = "none",
                      !.name = "m"]

Recropped == [First EXCEPT !.crop = "manual"]

MCSelections == {First, Sharper, Bare}

\* Two crops of one title.
MCCrops == {First, Recropped}

MCInitial == {First}

MCHosts == <<"h1", "h2">>

ImageSymmetry == Permutations(Images)
=============================================================================
