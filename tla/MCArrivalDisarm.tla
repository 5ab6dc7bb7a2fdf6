--------------------------- MODULE MCArrivalDisarm ---------------------------
(* How much of each kind of trouble a run of ArrivalDisarm lets in.        *)
EXTENDS ArrivalDisarm, TLC

CONSTANTS r1, r2

Budget(arrivals, errors, intents, rejects, restarts, flushes, ticks) ==
    [arrival |-> arrivals, error |-> errors, intent |-> intents, reject |-> rejects,
     restart |-> restarts, flush |-> flushes, tick |-> ticks]

(* Two arrivals over some time; two and a restart; one with errors of the   *)
(* hub; one among other intentions and errors of the panel.                *)
MCBudgets == {Budget(2, 0, 0, 0, 0, 0, 3), Budget(2, 0, 0, 0, 1, 0, 0),
              Budget(1, 2, 0, 0, 0, 0, 0), Budget(1, 0, 2, 2, 1, 1, 0)}
AnswerBudgets == {Budget(1, 0, 0, 0, 0, 0, 0)}
=============================================================================
