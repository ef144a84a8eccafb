----------------------------- MODULE ApiContract -----------------------------
(***************************************************************************)
(* What an asynchronous API with callbacks promises its caller: a call is  *)
(* accepted at most once, its callback is invoked at most once, never      *)
(* before the call, possibly within it, and an accepted call stays pending *)
(* until its callback is invoked.  Only a call the implementation declares *)
(* forgettable may be dropped, and then it is never answered.              *)
(***************************************************************************)
EXTENDS Naturals

CONSTANT Operations

VARIABLES
    forgettable,    \* the calls the implementation may drop
    accepted,       \* calls the caller has made
    pending,        \* accepted calls the implementation still works on
    answers         \* how many times each call's callback has been invoked

contractVars == <<forgettable, accepted, pending, answers>>

Init ==
    /\ forgettable \subseteq Operations
    /\ accepted = {}
    /\ pending = {}
    /\ answers = [op \in Operations |-> 0]

Accept(op) ==
    /\ op \notin accepted
    /\ accepted' = accepted \cup {op}
    /\ pending' = pending \cup {op}
    /\ UNCHANGED <<forgettable, answers>>

Answer(op) ==
    /\ op \in pending
    /\ pending' = pending \ {op}
    /\ answers' = [answers EXCEPT ![op] = @ + 1]
    /\ UNCHANGED <<forgettable, accepted>>

\* A callback invoked before the call returns.
AcceptAndAnswer(op) ==
    /\ op \notin accepted
    /\ accepted' = accepted \cup {op}
    /\ answers' = [answers EXCEPT ![op] = @ + 1]
    /\ UNCHANGED <<forgettable, pending>>

Forget(op) ==
    /\ op \in pending \cap forgettable
    /\ pending' = pending \ {op}
    /\ UNCHANGED <<forgettable, accepted, answers>>

Next ==
    \E op \in Operations :
        Accept(op) \/ Answer(op) \/ AcceptAndAnswer(op) \/ Forget(op)

Spec == Init /\ [][Next]_contractVars

=============================================================================
