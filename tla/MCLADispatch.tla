---------------------------- MODULE MCLADispatch ----------------------------
(***************************************************************************)
(* Instances of LADispatch for TLC.                                        *)
(***************************************************************************)
EXTENDS LADispatch, TLC

A == "a"
B == "b"
C == "c"
Start(act) == [action |-> "start", act |-> act, by |-> "id"]
Update(act) == [action |-> "update", act |-> act, by |-> "id"]
UpdateScope == [action |-> "update", act |-> A, by |-> "scope"]
End(act) == [action |-> "end", act |-> act, by |-> "id"]
EndScope == [action |-> "end", act |-> A, by |-> "scope"]

\* An activity that was started before, and two requests about it or a new one.
LiveMenu == <<{Start(A)}, {Update(A), EndScope, Start(B)},
              {Update(A), UpdateScope, End(A), Start(A), Start(C)}>>
LiveKinds == <<"fcm", "update">>

OneToken == <<"fcm">>

\* The same activity is started twice.
RetryMenu == <<{Start(A)}, {Start(A)}>>
=============================================================================
