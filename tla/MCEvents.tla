------------------------------ MODULE MCEvents ------------------------------
(* Instances of Events: what each process does. *)
EXTENDS Events, TLC

CONSTANTS p1, p2

Timeouts == {Forever, 1}
Always == {Forever}

\* An event loop, and a program that reads the same devices.
LoopAndReader == 
    p1 :> {"wait", "add", "console", "mouse"} @@ p2 :> {"del", "console", "mode", "mouse"}

\* One event loop that opens and closes files.
OpenAndClose == p1 :> {"wait", "add", "close", "open"}
=============================================================================
