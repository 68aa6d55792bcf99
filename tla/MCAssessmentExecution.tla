------------------------ MODULE MCAssessmentExecution ------------------------
(* TLC instances of AssessmentExecution. *)
EXTENDS AssessmentExecution, TLC

CONSTANTS u1, u2, dues, roof

\* Recurring dues of both units, a special assessment and a late fee of u1.
MCTypeOf == [r \in Rules |-> IF r = dues THEN "recurring"
                             ELSE IF r = roof THEN "special-assessment" ELSE "late-fee"]
MCUnitsOf == [r \in Rules |-> IF r = dues THEN Units ELSE {u1}]

MCMonthsOf == [r \in Rules |-> 1]

\* u1 is owned all the time, u2 from the second month on.
MCOwnersAt == [p \in 1..MaxPeriod |-> IF p = 1 THEN {u1} ELSE Units]

\* u1 is delinquent in the first month.
MCDelinquent == [p \in 1..MaxPeriod |-> IF p = 1 THEN {u1} ELSE {}]

\* The second month's dues on demand, early or in time.
DuesDemands == [rule : {dues}, asOf : {2}, dry : {FALSE}]

\* The first installment on demand, and a dry run of it.
RoofDemands == [rule : {roof}, asOf : {1}, dry : BOOLEAN]
==============================================================================
