------------------------ MODULE ValidationConcurrent ------------------------
(***************************************************************************)
(* Corrections of activities that are authorised, and committed later,     *)
(* while other requests and the job of MissionValidation are served.       *)
(*                                                                         *)
(* A correction reads the validations of the mission when it is authorised *)
(* and writes rows that a validation does not touch: nothing in the        *)
(* database makes one wait for the other.                                  *)
(***************************************************************************)
EXTENDS MissionValidation

CONSTANT Worker     \* the corrections that are served at the same time

VARIABLE correction \* what each worker was authorised to correct, or Null

AuthoriseEdit(w, actor, u, m) ==
  /\ correction[w] = Null
  /\ Working(u, m)
  /\ MayWriteFor(actor, u, m)
  /\ correction' = [correction EXCEPT ![w] = <<u, m>>]
  /\ UNCHANGED vars

CommitEdit(w, r) ==
  /\ correction[w] # Null
  /\ LET u == correction[w][1]
         m == correction[w][2]
     IN Edit(u, m, r) /\ Revised(u, m)
  /\ correction' = [correction EXCEPT ![w] = Null]
  /\ UNCHANGED <<validations, queue, job>>

RollbackEdit(w) ==
  /\ correction[w] # Null
  /\ correction' = [correction EXCEPT ![w] = Null]
  /\ UNCHANGED vars

ConcurrentInit == Init /\ correction = [w \in Worker |-> Null]

ConcurrentNext ==
  \/ Next /\ UNCHANGED correction
  \/ \E w \in Worker :
       \/ \E actor \in Actor, u \in User, m \in Mission :
            AuthoriseEdit(w, actor, u, m)
       \/ \E r \in WorkState : CommitEdit(w, r)
       \/ RollbackEdit(w)

ConcurrentSpec == ConcurrentInit /\ [][ConcurrentNext]_<<vars, correction>>
=============================================================================
