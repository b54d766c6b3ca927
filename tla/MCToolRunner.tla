---------------------------- MODULE MCToolRunner ----------------------------
EXTENDS ToolRunner

(* The default policy, one that blocks the connectors and one of each of   *)
(* the other modes.                                                        *)
Base == [mode |-> "ask", blocks |-> {}, network |-> TRUE, vaultAsks |-> TRUE,
         targets |-> {"a"}, valid |-> TRUE]

MCPolicies ==
  {Base,
   [Base EXCEPT !.blocks = {"browser", "mcp", "github"}, !.mode = "trusted"],
   [Base EXCEPT !.mode = "safe", !.vaultAsks = FALSE],
   [Base EXCEPT !.targets = {}, !.mode = "approval"],
   [Base EXCEPT !.valid = FALSE]}

(* One tool of each way a run goes; the others of a family share its path. *)
MCTools == {"git.diff", "filesystem.write", "report.write", "browser.snapshot",
            "mcp.tools.list", "mcp.tools.refresh", "mcp.tools.call", "shell.run", "github.issues.create",
            "vault.read"}
MCRequests == [tool : MCTools, target : {"a"}]

Symmetry == Permutations(Calls)
=============================================================================
