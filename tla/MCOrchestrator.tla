---------------------------- MODULE MCOrchestrator ----------------------------
(* Small circuits for TLC.  "main" drafts and has the draft reviewed, with a  *)
(* loop back; "outer" runs "inner" as a sub-circuit, which works and may be   *)
(* gated; "shell" runs "leaf", which only works.                              *)
EXTENDS Orchestrator, TLC

MCStep == {"draft", "review", "sub", "work", "check", "call", "task"}
MCCircuit == {"main", "outer", "inner", "shell", "leaf"}
MCEntry == "main" :> "draft" @@ "outer" :> "sub" @@ "inner" :> "work"
             @@ "shell" :> "call" @@ "leaf" :> "task"
MCKind == "draft" :> "llm" @@ "review" :> "gate" @@ "sub" :> "circuit" @@ "work" :> "code"
            @@ "check" :> "gate" @@ "call" :> "circuit" @@ "task" :> "code"
MCExits == [x \in MCStep |-> CASE x = "review" -> {"approve", "changes"}
                               [] x = "work" -> {"ok", "ask"}
                               [] x = "check" -> {"approve"}
                               [] OTHER -> {"ok"}]
MCTarget == "draft" :> ("ok" :> "review")
         @@ "review" :> ("approve" :> Done @@ "changes" :> "draft")
         @@ "sub" :> ("ok" :> Done)
         @@ "work" :> ("ok" :> Done @@ "ask" :> "check")
         @@ "check" :> ("approve" :> Done)
         @@ "call" :> ("ok" :> Done)
         @@ "task" :> ("ok" :> Done)
MCChild == [x \in MCStep |-> IF x = "call" THEN "leaf" ELSE "inner"]
===============================================================================
