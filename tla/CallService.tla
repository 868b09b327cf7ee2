---------------------------- MODULE CallService -----------------------------
(***************************************************************************)
(* What the management interface of commotiond promises its clients: calls *)
(* numbered in the order they are made, each executed at most once and in  *)
(* that order, and answers that are results of executed calls, no result   *)
(* given twice, in the order of the calls.  A call need not be executed,   *)
(* nor its result delivered: connections break and answers come too late.  *)
(***************************************************************************)
EXTENDS Integers, Sequences

CONSTANT Clients

VARIABLES
    made,       \* how many calls each client has made; they are 0..made - 1
    executed,   \* the calls of each client that were executed, in order
    answers     \* the calls whose results the client got, in order

vars == <<made, executed, answers>>

Init ==
    /\ made = [c \in Clients |-> 0]
    /\ executed = [c \in Clients |-> <<>>]
    /\ answers = [c \in Clients |-> <<>>]

\* i comes after all calls in the sequence s.
After(s, i) == \A n \in 1..Len(s) : s[n] < i

Make(c) ==
    /\ made' = [made EXCEPT ![c] = @ + 1]
    /\ UNCHANGED <<executed, answers>>

Execute(c, i) ==
    /\ After(executed[c], i)
    /\ executed' = [executed EXCEPT ![c] = Append(@, i)]
    /\ UNCHANGED <<made, answers>>

Deliver(c, i) ==
    /\ \E n \in 1..Len(executed[c]) : executed[c][n] = i
    /\ After(answers[c], i)
    /\ answers' = [answers EXCEPT ![c] = Append(@, i)]
    /\ UNCHANGED <<made, executed>>

Next ==
    \E c \in Clients :
        \/ Make(c)
        \/ \E i \in 0..made[c] - 1 : Execute(c, i) \/ Deliver(c, i)

Spec == Init /\ [][Next]_vars

=============================================================================
