------------------------------ MODULE WaitSets ------------------------------
(***************************************************************************)
(* What a program relies on when it uses futex: threads sleep on           *)
(* addresses, and waking n threads of an address wakes n of those that     *)
(* sleep there, or all of them if they are fewer.  Futex implements this   *)
(* as long as no wait times out.                                           *)
(***************************************************************************)
EXTENDS Naturals, FiniteSets, FiniteSetsExt

CONSTANTS Threads, Addr

VARIABLES asleep,   \* asleep[a]: the threads that sleep on address a
          answer    \* how many threads were to be woken and how many were

vars == <<asleep, answer>>

NoAnswer == [asked |-> 0, count |-> 0]

Init == asleep = [a \in Addr |-> {}] /\ answer = NoAnswer

Sleep(t, a) ==
    /\ answer' = NoAnswer
    /\ \A b \in Addr : t \notin asleep[b]
    /\ asleep' = [asleep EXCEPT ![a] = @ \cup {t}]

\* n sleepers of a, or all of them if they are fewer
Chosen(a, n) == Min({n, Cardinality(asleep[a])})

Wake(a, n) ==
    /\ answer' = [asked |-> n, count |-> Chosen(a, n)]
    /\ \E W \in kSubset(Chosen(a, n), asleep[a]) :
          asleep' = [asleep EXCEPT ![a] = @ \ W]

\* wake n sleepers of a and let m others sleep on b
Requeue(a, n, b, m) ==
    /\ answer' = [asked |-> n, count |-> Chosen(a, n)]
    /\ \E W \in kSubset(Chosen(a, n), asleep[a]) : \E M \in kSubset(m, asleep[a] \ W) :
          asleep' = [c \in Addr |->
                        (IF c = a THEN asleep[c] \ (W \cup M) ELSE asleep[c])
                        \cup (IF c = b THEN M ELSE {})]

\* a signal or a timeout ends the sleep of t, if it sleeps
Leave(t) ==
    /\ answer' = NoAnswer
    /\ asleep' = [a \in Addr |-> asleep[a] \ {t}]

Next ==
    \/ \E t \in Threads : Leave(t) \/ \E a \in Addr : Sleep(t, a)
    \/ \E a \in Addr, n \in 0 .. Cardinality(Threads) :
         \/ Wake(a, n)
         \/ \E b \in Addr, m \in 0 .. Cardinality(Threads) : Requeue(a, n, b, m)

Spec == Init /\ [][Next]_vars
=============================================================================
