---------------------------- MODULE JobDelivery ----------------------------
(***************************************************************************)
(* What the send side of the printer redirection promises about one print  *)
(* job, whatever IRPs it exchanges with the client to keep the promise:    *)
(* a job that was accepted is printed front to back, each byte once, and   *)
(* nothing of it is printed any more once the server has let go of it.     *)
(* PrintSend is shown to implement this specification.                     *)
(***************************************************************************)
EXTENDS Naturals

CONSTANTS Job,     \* the print jobs ever handed to devredir_printer_send_job
          MaxLen   \* bound: the longest job, in abstract bytes

VARIABLES phase,   \* phase[j]: not yet accepted, held by the server, let go of
          length,  \* length[j]: the number of bytes of the accepted job
          printed  \* printed[j]: how many bytes of j, from the first, are on paper

vars == <<phase, length, printed>>

Init == /\ phase = [j \in Job |-> "new"]
        /\ length = [j \in Job |-> 0]
        /\ printed = [j \in Job |-> 0]

Accept(j) == /\ phase[j] = "new"
             /\ phase' = [phase EXCEPT ![j] = "held"]
             /\ \E n \in 1..MaxLen : length' = [length EXCEPT ![j] = n]
             /\ UNCHANGED printed

\* The printer takes the next bytes of a job the server still holds.
PrintNext(j) == /\ phase[j] = "held"
            /\ \E n \in printed[j]..length[j] :
                  printed' = [printed EXCEPT ![j] = n]
            /\ UNCHANGED <<phase, length>>

\* The server lets go of jobs: one that ended, or all of them with the session.
Release(J) == /\ J # {}
              /\ \A j \in J : phase[j] = "held"
              /\ phase' = [j \in Job |-> IF j \in J THEN "over" ELSE phase[j]]
              /\ UNCHANGED <<length, printed>>

Next == \/ \E j \in Job : Accept(j) \/ PrintNext(j)
        \/ \E J \in SUBSET Job : Release(J)

Spec == Init /\ [][Next]_vars

=============================================================================
