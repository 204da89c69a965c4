---------------------------- MODULE OrderStatus ----------------------------
(***************************************************************************)
(* What the order state machine promises to an ACME client, stated over   *)
(* the status the client sees and nothing else.  Each order is "none"     *)
(* until it exists, and then moves only forward:                          *)
(*                                                                         *)
(*     pending -> ready -> processing -> valid                             *)
(*                                                                         *)
(* and may fall to "invalid" from any state; "invalid" is final.  A new   *)
(* order may be born "ready" when every authorization it needs is reused. *)
(* Several orders may change in one step (a clock tick expires all of     *)
(* them together, a deactivated authorization is shared by two orders).   *)
(***************************************************************************)
CONSTANT OrderIds

VARIABLE status

Statuses == {"none", "pending", "ready", "processing", "valid", "invalid"}

\* The only moves an order's status may make.
Forward ==
  { <<"none", "pending">>, <<"none", "ready">>,
    <<"pending", "ready">>, <<"ready", "processing">>,
    <<"processing", "valid">> }
  \cup { <<s, "invalid">> : s \in Statuses \ {"none", "invalid"} }

TypeOK == status \in [OrderIds -> Statuses]

Init == status = [o \in OrderIds |-> "none"]

Next ==
  /\ status' \in [OrderIds -> Statuses]
  /\ status' # status
  /\ \A o \in OrderIds :
       status'[o] = status[o] \/ <<status[o], status'[o]>> \in Forward

Spec == Init /\ [][Next]_status
=============================================================================
