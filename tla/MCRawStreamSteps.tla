--------------------------- MODULE MCRawStreamSteps ---------------------------
(***************************************************************************)
(* RawStreamSteps for the model checker, with its proofs: TLC evaluates    *)
(* the assumptions that they take over from RawStreamProofs.               *)
(***************************************************************************)
EXTENDS RawStreamStepsProofs
=============================================================================
