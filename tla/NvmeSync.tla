------------------------------ MODULE NvmeSync ------------------------------
(***************************************************************************)
(* What a queue pair promises to callers that test for NULL: synchronous   *)
(* commands.  A call hands one command to the device and returns either    *)
(* the status the device gave that very command, or an error when it gave  *)
(* up.  After giving up once, every later call is refused and the device   *)
(* is handed nothing more; it may still run the command it holds.          *)
(***************************************************************************)
EXTENDS Integers

CONSTANTS Statuses, MaxCalls

VARIABLES calls,    \* calls made so far
          cur,      \* the call whose command the device was given last
          open,     \* that call has not returned
          outcome,  \* what the device made of that command
          lost,     \* some call gave up
          ret       \* result of the last call that returned

vars == <<calls, cur, open, outcome, lost, ret>>

NotRun == -1
ErrorStatus == 32767

Init == /\ calls = 0
        /\ cur = 0
        /\ open = FALSE
        /\ outcome = NotRun
        /\ lost = FALSE
        /\ ret = [ser |-> 0, status |-> 0]

Begin == /\ ~open /\ ~lost
         /\ calls < MaxCalls
         /\ calls' = calls + 1
         /\ cur' = calls + 1
         /\ open' = TRUE
         /\ outcome' = NotRun
         /\ UNCHANGED <<lost, ret>>

Run == /\ open \/ lost
       /\ outcome = NotRun
       /\ outcome' \in Statuses
       /\ UNCHANGED <<calls, cur, open, lost, ret>>

Finish == /\ open
          /\ outcome # NotRun
          /\ ret' = [ser |-> cur, status |-> outcome]
          /\ open' = FALSE
          /\ UNCHANGED <<calls, cur, outcome, lost>>

GiveUp == /\ open
          /\ ret' = [ser |-> cur, status |-> ErrorStatus]
          /\ open' = FALSE
          /\ lost' = TRUE
          /\ UNCHANGED <<calls, cur, outcome>>

Refuse == /\ ~open /\ lost
          /\ calls < MaxCalls
          /\ calls' = calls + 1
          /\ ret' = [ser |-> calls + 1, status |-> ErrorStatus]
          /\ UNCHANGED <<cur, open, outcome, lost>>

Next == Begin \/ Run \/ Finish \/ GiveUp \/ Refuse

\* Every call returns; nothing else is promised.
Spec == Init /\ [][Next]_vars /\ WF_vars(Finish \/ GiveUp)

=============================================================================
