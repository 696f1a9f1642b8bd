----------------------------- MODULE SettledWait -----------------------------
(***************************************************************************)
(* SettledWait (SettledWait.h): a result that callbacks Finish and one     *)
(* caller Waits for, with a timeout that finishes it as well. Taking the   *)
(* flag and setting the promise are two steps.                             *)
(***************************************************************************)
EXTENDS Integers

CONSTANTS Callbacks, Waiter   \* the threads: those that call Finish, and Wait's caller

ASSUME SettledAssumption == /\ Waiter \notin Callbacks
                            /\ "nobody" \notin Callbacks \cup {Waiter}

VARIABLES settled,   \* State::settled
          promise,   \* whose value the promise holds, or Nobody
          at,        \* where each thread is
          answer     \* what Finish returned, and whose value Wait returned

waitVars == <<settled, promise, at, answer>>

Threads == Callbacks \cup {Waiter}
Nobody == "nobody"

SettledInit == /\ settled = FALSE /\ promise = Nobody
               /\ at = [t \in Threads |-> IF t = Waiter THEN "waiting" ELSE "idle"]
               /\ answer = [t \in Threads |-> "none"]

\* wait_for: the future is ready, or the time is over
Ready == /\ at[Waiter] = "waiting" /\ promise # Nobody
         /\ at' = [at EXCEPT ![Waiter] = "getting"]
         /\ UNCHANGED <<settled, promise, answer>>
TimeOut == /\ at[Waiter] = "waiting" /\ promise = Nobody
           /\ at' = [at EXCEPT ![Waiter] = "finishing"]
           /\ UNCHANGED <<settled, promise, answer>>

\* Finish is called by a callback; the waiter calls it after its timeout
FinishCall(t) == /\ at[t] = "idle"
                 /\ at' = [at EXCEPT ![t] = "finishing"]
                 /\ UNCHANGED <<settled, promise, answer>>

\* Mutant for AcceptedIsReturned: the flag is set but not tested.
ExchangeAlways(t) ==
    /\ at[t] = "finishing"
    /\ settled' = TRUE
    /\ at' = [at EXCEPT ![t] = "setting"]
    /\ UNCHANGED <<promise, answer>>

\* settled.exchange(true): the first wins
Exchange(t) ==
    /\ at[t] = "finishing"
    /\ settled' = TRUE
    /\ at' = [at EXCEPT ![t] = IF ~settled THEN "setting"
                               ELSE IF t = Waiter THEN "getting" ELSE "back"]
    /\ answer' = IF settled /\ t # Waiter THEN [answer EXCEPT ![t] = "refused"] ELSE answer
    /\ UNCHANGED promise

\* promise.set_value; a promise that has a value throws, which Finish ignores
SetValue(t) ==
    /\ at[t] = "setting"
    /\ promise' = IF promise = Nobody THEN t ELSE promise
    /\ at' = [at EXCEPT ![t] = IF t = Waiter THEN "getting" ELSE "back"]
    /\ answer' = IF t = Waiter THEN answer ELSE [answer EXCEPT ![t] = "accepted"]
    /\ UNCHANGED settled

\* future.get waits for the value
Get == /\ at[Waiter] = "getting" /\ promise # Nobody
       /\ answer' = [answer EXCEPT ![Waiter] = promise]
       /\ at' = [at EXCEPT ![Waiter] = "back"]
       /\ UNCHANGED <<settled, promise>>

SettledStep(t) == Exchange(t) \/ SetValue(t)
SettledNext == Ready \/ TimeOut \/ Get \/ (\E t \in Callbacks : FinishCall(t))
               \/ (\E t \in Threads : SettledStep(t))

SettledSpec == SettledInit /\ [][SettledNext]_waitVars

----------------------------------------------------------------------------
\* The caller that was told its result was accepted is the one whose result Wait
\* returns, and at most one is told so: a timeout that loses to a callback still
\* returns the callback's result, even if that is not set yet (SettledWait.h:29-50).
AcceptedIsReturned ==
    \A c \in Callbacks : answer[c] = "accepted" =>
        /\ promise = c
        /\ answer[Waiter] \in {"none", c}
        /\ \A d \in Callbacks \ {c} : answer[d] # "accepted"
=============================================================================
