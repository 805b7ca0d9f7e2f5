---------------------------- MODULE MCStepRunner ----------------------------
(***************************************************************************)
(* StepRunner for TLC: steps that write and read the same two fields, one  *)
(* whose value is missing, one whose config is wrong, and definitions that *)
(* are refused.                                                            *)
(***************************************************************************)
EXTENDS StepRunner, TLC

Step(kind, config) ==
    [named |-> TRUE, kind |-> kind, object |-> TRUE, config |-> config]

MCDefinitions ==
    {Step("assign", "target" :> Text("plan") @@ "value" :> Text("basic")),
     Step("assign", "target" :> Text("plan") @@ "value" :> Text("pro")),
     Step("assign", "target" :> Text("plan")),
     Step("assign", "target" :> Text("matched") @@ "value" :> Text("pro")),
     Step("assign", "target" :> Text("")),
     Step("condition", "field" :> Text("plan") @@ "equals" :> Text("pro")),
     Step("condition", "field" :> Text("plan")),
     Step("condition", "field" :> Text("matched") @@ "equals" :> Number("1")),
     Step("emit_event", "event_name" :> Text("done")),
     Step("emit_event",
          "event_name" :> Text("done") @@ "payload" :> Text("x")),
     Step("assign", "target" :> Text("plan") @@ "token" :> Text("x")),
     Step("notify", EmptyObject),
     [named |-> FALSE, kind |-> "assign", object |-> FALSE,
      config |-> EmptyObject]}

MCInputs == {EmptyObject, "plan" :> Text("pro")}
=============================================================================
