---------------------------- MODULE MCPlaidJobs ----------------------------
(* PlaidJobs on small instances. *)
EXTENDS PlaidJobs

CONSTANTS i1, i2, i3

TwoItems == {i1, i2}
ThreeItems == {i1, i2, i3}
FirstBroken == {i1}
SecondItem == {i2}
NoItem == {}
WebhookFault == {"webhook"}
BatchFault == {"batch"}
NoFault == {}
=============================================================================
