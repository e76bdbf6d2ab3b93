----------------------------- MODULE MCSegconf ------------------------------
(***************************************************************************)
(* Files for Segconf: a role, a model and a box apart, a section that is   *)
(* ended by a refused header, and a text that fills the table.             *)
(***************************************************************************)
EXTENDS Segconf

Slave == <<<<"segment", "e1">>, <<"role", "slave">>>>
Box   == <<<<"segment", "e1">>, <<"role", "box">>>>
Model == <<<<"refused", "line">>, <<"segment", "e1">>, <<"model", "s1608">>>>
Off   == <<<<"segment", "e1">>, <<"ignore", "yes">>, <<"refused", "header">>, <<"role", "master">>>>
Full  == <<<<"segment", "e2">>, <<"role", "tap">>, <<"segment", "e3">>, <<"ignore", "no">>,
           <<"segment", "e1">>, <<"ignore", "no">>>>

MCTexts  == {Slave, Box, Model, Off, Full}
MCStarts == {[f \in Files |-> t] : t \in {NoFile, Box}} \cup
            {[f \in Files |-> IF f = 0 THEN Off ELSE IF f = 1 THEN Full ELSE Model],
             [f \in Files |-> IF f = 0 THEN Full ELSE IF f = 1 THEN Slave ELSE NoFile],
             [f \in Files |-> IF f = 0 THEN NoFile ELSE IF f = 1 THEN Slave ELSE Box]}
=============================================================================
