------------------------------ MODULE Download ------------------------------
(***************************************************************************)
(* What a download promises to whoever reads the output file, without the  *)
(* queue, the peers or the objects: pieces are stored one by one, each     *)
(* once, with verified bytes, for as long as the disk takes writes; the    *)
(* download is closed only when every piece was stored.  No byte that was  *)
(* not verified ever enters the file.                                      *)
(***************************************************************************)
CONSTANT Pieces

VARIABLES
    stored,    \* the set of pieces counted as stored
    file,      \* what the file holds for each piece
    healthy,   \* no write has failed so far
    open       \* the output file is still open

vars == <<stored, file, healthy, open>>

Init ==
    /\ stored = {}
    /\ open = TRUE
    /\ \/ file = [i \in Pieces |-> "zero"] /\ healthy = TRUE
       \/ file \in [Pieces -> {"zero", "torn"}] /\ healthy = FALSE

\* Piece i, verified, is written in its place.
Write(i) ==
    /\ healthy
    /\ file' = [file EXCEPT ![i] = "good"]
    /\ UNCHANGED healthy

\* The write of piece i fails part of the way; the disk is not healthy after.
Tear(i) ==
    /\ healthy
    /\ file' = [file EXCEPT ![i] = "torn"]
    /\ healthy' = FALSE

\* On an unhealthy disk nothing is written any more.
Skip == ~healthy /\ UNCHANGED <<file, healthy>>

Store(i) ==
    /\ open
    /\ i \notin stored
    /\ stored' = stored \cup {i}
    /\ Write(i) \/ Tear(i) \/ Skip
    /\ UNCHANGED open

Close ==
    /\ open
    /\ stored = Pieces
    /\ open' = FALSE
    /\ UNCHANGED <<stored, file, healthy>>

Next == Close \/ \E i \in Pieces : Store(i)

Spec == Init /\ [][Next]_vars
=============================================================================
