------------------------------ MODULE MCPages ------------------------------
EXTENDS PageProperties
CONSTANTS k1, k2
\* The tasks of one schedule are added and asked for while another is selected;
\* of files, three requests are every order of a change and two directories.
FirstAndSecond == <<[k \in Kinds |-> IF k = "files" THEN 3 ELSE 4],
                    [k \in Kinds |-> IF k = "tab" THEN 3 ELSE 2]>>
First == <<[k \in Kinds |-> 3]>>
=============================================================================
