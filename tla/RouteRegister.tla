------------------------- MODULE RouteRegister -------------------------
(***************************************************************************)
(* What an activation of a Recipe vector generation promises, without the  *)
(* files it is made of: the active route is one register, and an           *)
(* activation is a compare-and-swap on it that takes effect at one instant *)
(* between its call and its answer.  The answer TRUE is given only by a    *)
(* call that swapped and FALSE only by one that was refused.  An error     *)
(* promises nothing: the clean-up behind a swap may fail after it, so a    *)
(* caller that is rejected must read the route to know.  A process may die *)
(* at any time, before or after its swap.                                  *)
(***************************************************************************)

CONSTANTS Activations,  \* the calls of activate
          Generations,  \* identifiers of generations
          None          \* no generation is active

VARIABLES route,        \* the generation searches and writes go to
          call          \* what is known of each activation

Idle == [phase |-> "idle", next |-> None, expected |-> None, answer |-> "none"]

Init ==
    /\ route \in Generations \cup {None}
    /\ call = [a \in Activations |-> Idle]

(* activate(next, expectedPreviousGenerationId) is called.                 *)
Invoke(a) ==
    /\ call[a].phase = "idle"
    /\ \E next \in Generations, expected \in Generations \cup {None} :
          call' = [call EXCEPT ![a] = [phase |-> "pending", next |-> next,
                                       expected |-> expected, answer |-> "none"]]
    /\ UNCHANGED route

Move(a, phase, answer) ==
    call' = [call EXCEPT ![a] = [phase |-> phase, next |-> @.next,
                                 expected |-> @.expected, answer |-> answer]]

Decide(a, answer) ==
    /\ call[a].phase = "pending"
    /\ Move(a, "decided", answer)

Swap(a) ==
    /\ route = call[a].expected
    /\ Decide(a, "true")
    /\ route' = call[a].next

Refuse(a) ==
    /\ route # call[a].expected
    /\ Decide(a, "false")
    /\ UNCHANGED route

(* It fails before it has taken effect; there may be nothing to clean up.   *)
Fail(a) ==
    /\ call[a].phase = "pending"
    /\ \E phase \in {"decided", "answered"} :
          Move(a, phase, "error")
    /\ UNCHANGED route

(* The work behind the decision fails: the caller will be told an error.   *)
Spoil(a) ==
    /\ call[a].phase = "decided"
    /\ Move(a, "decided", "error")
    /\ UNCHANGED route

Answer(a) ==
    /\ call[a].phase = "decided"
    /\ \E answer \in {call[a].answer, "error"} :
          Move(a, "answered", answer)
    /\ UNCHANGED route

Die(a) ==
    /\ call[a].phase \in {"pending", "decided"}
    /\ Move(a, "dead", call[a].answer)
    /\ UNCHANGED route

Next == \E a \in Activations :
    Invoke(a) \/ Swap(a) \/ Refuse(a) \/ Fail(a) \/ Spoil(a) \/ Answer(a) \/ Die(a)

vars == <<route, call>>

Spec == Init /\ [][Next]_vars
=============================================================================
