----------------------- MODULE MCValidationConcurrent -----------------------
(***************************************************************************)
(* A small instance of ValidationConcurrent for TLC.                       *)
(***************************************************************************)
EXTENDS ValidationConcurrent

CONSTANTS driver, boss

CreatedByDriver == [m \in Mission |-> driver]
=============================================================================
