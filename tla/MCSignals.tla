----------------------------- MODULE MCSignals ------------------------------
(* Instances of Signals. *)
EXTENDS Signals

Handler(mask, restorer) == [handler |-> "user", mask |-> mask, restorer |-> restorer]

\* A real-time signal with a handler as libc installs it or one that cannot
\* return, and SIGUSR1 with handlers the kernel runs without a usable restorer.
SomeInstalls ==
    {34} \X {Handler({34}, "ok"), Handler({}, "bad")}
    \cup {10} \X {Handler({}, "none"), Handler({}, "bad")}

\* only handlers as libc installs them, for a real-time signal and the timer's
LibcInstalls == {14, 34} \X {Handler({}, "ok"), Handler({34}, "ok")}

\* nothing blocked, or the real-time signal
RealTimeMasks == {{}, {34}}

\* SigInit chooses which of the two signals may get the handler that cannot
\* return; when it is SIGUSR1, no other handler is installed.
VARIABLE faulty

Allowed(s) ==
    {Default} \cup {i[2] : i \in {j \in Installs :
        j[1] = s /\ IF j[2].restorer = "bad" THEN s = faulty ELSE faulty = 34}}
Chosen == IF sigaction' = sigaction THEN TRUE ELSE \A s \in Sig : sigaction'[s] \in Allowed(s)

MCInit == SigInit /\ faulty \in {10, 34}
MCNext == SigNext /\ Chosen /\ UNCHANGED faulty
MCSpec == MCInit /\ [][MCNext]_<<sigVars, faulty>> /\ WF_sigVars(Kernel)
=============================================================================
