------------------------------ MODULE MCSession -----------------------------
(***************************************************************************)
(* Small instances of Session for TLC.                                     *)
(***************************************************************************)
EXTENDS Session, TLC

\* Rovers are interchangeable, and so are the endpoints.
RoverSymmetry == Permutations(Rovers) \cup Permutations(Endpoints)

=============================================================================
