--------------------------- MODULE MCOrderLifecycle ---------------------------
(***************************************************************************)
(* Small instances of OrderLifecycle.  The reports have a fill reported    *)
(* again with other terms, late and with differing fees, and one that      *)
(* names another symbol.  Executions of sizes 1, 2 and 1 reach, meet and   *)
(* pass every order size from 1 to 3.                                      *)
(***************************************************************************)
EXTENDS OrderLifecycle

Fill(id, qty, match, fee) == [id |-> id, qty |-> qty, match |-> match, fee |-> fee]

FewReports == {Fill("f1", 1, TRUE, 0), Fill("f1", 2, TRUE, 0), Fill("f2", 2, TRUE, 0)}

AllReports == FewReports \cup {Fill("f1", 1, TRUE, 1), Fill("f1", 1, TRUE, 2),
                               Fill("f3", 1, FALSE, 0)}

===============================================================================
