----------------------------- MODULE AFSCreate -----------------------------
(***************************************************************************)
(* rayctl afs create (cmd/afs.go, internal/platform/afs_create_client.go): *)
(* a volume is created with an order, and the order is paid.  There is no  *)
(* way back after the first request: whatever fails later is reported      *)
(* together with what has been created.                                    *)
(***************************************************************************)
EXTENDS Command

\* order: "none" when the answer has no order id.
Volume(order) == [is |-> "volume", order |-> order]

AFSInit ==
  /\ command = "afs create" /\ args = << >>
  /\ store \in [{"volume"} -> {Absent, Volume("paid")}]

Create == [op |-> "create"]
Pay == [op |-> "pay"]

\* Subscription, product and SKU are looked up; none of them changes.
PrepareAFS == At("afs create", "prepare") /\ Present({Create, Pay}, << >>)

CreateVolume ==
  /\ At("afs create", "apply")
  /\ IF store["volume"] # Absent
       THEN Rejected(Create)
       ELSE \/ Send(Create, Just("volume", Volume("open")), "error", Goto("pay") /\ UNCHANGED plan)
            \/ Send(Create, Just("volume", Volume("none")), "error",
                    Finish("created without order") /\ UNCHANGED plan)

\* The order is looked up for display first; when that fails it is paid anyway.
PayOrder ==
  /\ At("afs create", "pay")
  /\ \/ /\ store["volume"] = Volume("open")
        /\ Send(Pay, Just("volume", Volume("paid")), "payment failed",
                Finish("submitted") /\ UNCHANGED plan)
     \/ Send(Pay, store, "payment failed",
             /\ store["volume"] = Volume("open")
             /\ Finish("interactive payment required") /\ UNCHANGED plan)

AFSSteps == PrepareAFS \/ CreateVolume \/ PayOrder

\* Another client creates the volume first, deletes it, or pays.
AFSOthers ==
  /\ command = "afs create"
  /\ \E v \in {Absent, Volume("paid")} : Touch("volume", v)

\* Every result that speaks of a volume is about one that exists; only one whose
\* payment went through is reported as submitted.
AFSReport ==
  command = "afs create" =>
  LET exists == store["volume"] # Absent \/ "volume" \in touched IN
  /\ outcome = "submitted" => store["volume"] = Volume("paid")
  /\ outcome \in {"created without order", "payment failed"} => exists
  /\ outcome = "interactive payment required" => store["volume"] = Volume("open")
=============================================================================
