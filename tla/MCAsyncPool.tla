------------------------------ MODULE MCAsyncPool ------------------------------
(* Instances of AsyncPool for TLC: fewer tasks than threads and permits     *)
(* together and no timer, and as many with one.                             *)
EXTENDS AsyncPool

MCSetups == { [threads |-> 2, connections |-> 2, timeouts |-> FALSE],
              [threads |-> 2, connections |-> 1, timeouts |-> TRUE] }
===============================================================================
