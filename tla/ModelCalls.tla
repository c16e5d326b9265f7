------------------------------- MODULE ModelCalls -------------------------------
(***************************************************************************)
(* The adapter of the language model and its circuit breaker, one object   *)
(* that the threads of a process share.  Between the test of the breaker   *)
(* and the answer of the server other threads come in; the rest of a call  *)
(* is not interrupted.                                                     *)
(***************************************************************************)
EXTENDS Integers, FiniteSetsExt

CONSTANTS Callers,        \* the threads
          Threshold,      \* CIRCUIT_FAILURE_THRESHOLD
          ResetTicks      \* CIRCUIT_RESET_SECONDS, in steps of the clock

ASSUME ModelCallsAssumption == {Threshold, ResetTicks} \subseteq Nat \ {0}

VARIABLES failures,  \* _consecutive_failures; at Threshold it stands for more, too
          openFor,   \* what is left until _circuit_open_until
          waiting,   \* the threads whose request is with the server
          up         \* the server answers

callVars == << failures, openFor, waiting, up >>

CallsTypeOK ==
    /\ failures \in 0 .. Threshold
    /\ openFor \in 0 .. ResetTicks
    /\ waiting \subseteq Callers
    /\ up \in BOOLEAN

CallsInit ==
    /\ failures = 0
    /\ openFor = 0
    /\ waiting = {}
    /\ up \in BOOLEAN

RecordFailure ==
    /\ failures' = Min({failures + 1, Threshold})
    /\ openFor' = IF failures + 1 >= Threshold THEN ResetTicks ELSE openFor

\* The test at the beginning of complete.
Send(c) ==
    /\ c \notin waiting /\ openFor = 0
    /\ waiting' = waiting \cup {c}
    /\ UNCHANGED << failures, openFor, up >>

\* A mutated form of Rejected: a call that is not let through counts as a failure.
RejectedAndCounted(c) ==
    /\ c \notin waiting /\ openFor > 0
    /\ RecordFailure
    /\ UNCHANGED << waiting, up >>

\* LLMUnavailable without a request.
Rejected(c) ==
    /\ c \notin waiting /\ openFor > 0
    /\ UNCHANGED callVars

\* Timeout, no connection, or a status from 500: LLMTimeout or LLMUnavailable.
Failed(c) ==
    /\ c \in waiting /\ ~up
    /\ waiting' = waiting \ {c}
    /\ RecordFailure
    /\ UNCHANGED up

\* A status from 400: LLMInvalidOutput, and the breaker is left alone.
Refused(c) ==
    /\ c \in waiting /\ up
    /\ waiting' = waiting \ {c}
    /\ UNCHANGED << failures, openFor, up >>

\* Any other answer, whether or not something can be made of it.
Answered(c) ==
    /\ c \in waiting /\ up
    /\ waiting' = waiting \ {c}
    /\ failures' = 0
    /\ UNCHANGED << openFor, up >>

Tick ==
    /\ openFor > 0
    /\ openFor' = openFor - 1
    /\ UNCHANGED << failures, waiting, up >>

\* The server goes down or comes back.
ServerChanges ==
    /\ up' = ~up
    /\ UNCHANGED << failures, openFor, waiting >>
=============================================================================
