---------------------------- MODULE MCReservoir ----------------------------
(***************************************************************************)
(* Instances of Reservoir.  transfer1 and transfer2 spend one old record,  *)
(* transfer3 spends the outcome of transfer1, transfer4 spends an issue,   *)
(* and a grant spends no record.  The free and the paid bundle share an    *)
(* issue.                                                                  *)
(***************************************************************************)
EXTENDS Reservoir

CONSTANTS old, issue1, issue2, transfer1, transfer2, transfer3, transfer4, grant,
          free, paid

MCMembers == [b \in Bundle |-> IF b = free THEN {issue1} ELSE {issue1, issue2}]

MCLink ==
    [t \in Single |-> CASE t \in {transfer1, transfer2} -> old
                        [] t = transfer3 -> transfer1
                        [] t = transfer4 -> issue1
                        [] t = grant -> None]
=============================================================================
