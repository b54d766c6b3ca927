----------------------------- MODULE ToolPolicy -----------------------------
(***************************************************************************)
(* What the policy file says of a tool request: the metadata of the        *)
(* built-in tools, the checks of each family on its input and the decision *)
(* to allow, ask or block (src/tools/policy.ts, the *-guard.ts modules and *)
(* command-safety.ts, src/config/load.ts).                                 *)
(*                                                                         *)
(* A target stands for what a request points at: a path, a command, a URL, *)
(* an MCP server or a repository.  A policy is a record:                   *)
(*   mode      safe, ask, trusted or approval                              *)
(*   blocks    the keys that say "block": shell, external_communication,   *)
(*             browser, mcp, github, vault                                 *)
(*   network   allow_network                                               *)
(*   vaultAsks vault: ask rather than allow                                *)
(*   targets   the targets the allow lists and deny patterns let through   *)
(*   valid     the file parses                                             *)
(* Tools that differ in neither metadata nor steps share one name here:    *)
(* filesystem.list and git.status run as filesystem.read, git.log as       *)
(* git.diff, click, fill and press as browser.navigate, screenshot as      *)
(* browser.snapshot, the GitHub getters and lists as github.issues.get,    *)
(* createComment as github.issues.create.  "mcp.tools.refresh" is          *)
(* mcp.tools.list asked to refresh.                                        *)
(***************************************************************************)
CONSTANTS
  Targets,        \* paths, commands, URLs, servers, repositories
  Dangerous       \* commands classifyCommandSafety refuses

Row(family, risk, side, asks) ==
  [family |-> family, risk |-> risk, side |-> side, asks |-> asks]

Tools ==
  {"filesystem.read", "filesystem.write", "report.write", "git.diff",
   "shell.run", "browser.navigate", "browser.snapshot", "mcp.servers.list",
   "mcp.tools.list", "mcp.tools.refresh", "mcp.tools.call", "github.issues.get", "github.pulls.listFiles",
   "github.issues.create", "vault.read"}

Meta == [t \in Tools |->
  CASE t = "filesystem.read" -> Row("local", "low", "local_read", FALSE)
    [] t = "filesystem.write" -> Row("local", "high", "local_write", TRUE)
    [] t = "report.write" -> Row("local", "medium", "local_write", TRUE)
    [] t = "git.diff" -> Row("local", "low", "local_read", FALSE)
    [] t = "shell.run" -> Row("shell", "high", "shell", TRUE)
    [] t = "browser.navigate" -> Row("browser", "high", "network", TRUE)
    [] t = "browser.snapshot" -> Row("browser", "high", "network", TRUE)
    [] t = "mcp.servers.list" -> Row("mcp", "low", "local_read", FALSE)
    [] t \in {"mcp.tools.list", "mcp.tools.refresh"} -> Row("mcp", "medium", "local_read", FALSE)
    [] t = "mcp.tools.call" -> Row("mcp", "high", "external_comm", TRUE)
    [] t = "github.issues.get" -> Row("github", "low", "external_comm", FALSE)
    [] t = "github.pulls.listFiles" -> Row("github", "medium", "external_comm", FALSE)
    [] t = "github.issues.create" -> Row("github", "high", "external_comm", TRUE)
    [] t = "vault.read" -> Row("vault", "high", "vault", FALSE)]

Family(t) == Meta[t].family

(* mcp.servers.list names no server: it reads mcp.yaml and the caches.      *)
AimsAtTarget(t) == t # "mcp.servers.list"

Policy ==
  [mode : {"safe", "ask", "trusted", "approval"},
   blocks : SUBSET {"shell", "external", "browser", "mcp", "github", "vault"},
   network : BOOLEAN, vaultAsks : BOOLEAN, targets : SUBSET Targets, valid : BOOLEAN]

(* classifyCommandSafety, isMcpServerPolicyAllowed with the server's own    *)
(* lists, the effective GitHub allow list, urlAllowedForBrowser.           *)
CommandSafe(target) == target \notin Dangerous
ServerAllowed(p, target) == "mcp" \notin p.blocks /\ target \in p.targets
RepoAllowed(p, target) == "github" \notin p.blocks /\ target \in p.targets
UrlAllowed(p, target) == target \in p.targets

(* classifyToolInputSafety: browser input passes when browser is blocked,  *)
(* which the decision below then reports.                                  *)
InputSafe(p, t, target) ==
  CASE Family(t) = "shell" -> CommandSafe(target)
    [] Family(t) = "browser" -> "browser" \in p.blocks \/ UrlAllowed(p, target)
    [] Family(t) = "mcp" ->
         AimsAtTarget(t) => /\ ServerAllowed(p, target)
                            /\ t = "mcp.tools.refresh" => p.mode # "safe"
    [] Family(t) = "github" -> RepoAllowed(p, target)
    [] OTHER -> TRUE

IsLowRiskRead(t) == Meta[t].risk = "low" /\ Meta[t].side \in {"none", "local_read"}

Blocked(p, t, target) ==
  \/ Family(t) \in {"browser", "github", "mcp"} /\ Family(t) \in p.blocks
  \/ Family(t) = "browser" /\ p.targets = {}
  \/ Family(t) = "mcp" /\ AimsAtTarget(t) /\ target \notin p.targets
  \/ Meta[t].side = "network" /\ ~p.network
  \/ Meta[t].side = "external_comm" /\ "external" \in p.blocks
  \/ Meta[t].side = "shell" /\ "shell" \in p.blocks
  \/ p.mode = "safe" /\ ~IsLowRiskRead(t)

Asks(p, t) ==
  \/ Meta[t].asks
  \/ p.mode = "ask" /\ Meta[t].risk # "low"
  \/ p.mode = "trusted" /\ Meta[t].risk = "high"
  \/ p.mode = "approval" /\ ~IsLowRiskRead(t)

(* classifyToolPolicy; the vault key alone decides vault.read.             *)
Decision(p, t, target) ==
  IF t = "vault.read"
  THEN IF "vault" \in p.blocks THEN "block" ELSE IF p.vaultAsks THEN "approval" ELSE "allow"
  ELSE IF Blocked(p, t, target) THEN "block"
  ELSE IF Asks(p, t) THEN "approval" ELSE "allow"

PathAllowed(p, target) == target \in p.targets

(* What the tool's own run checks once more, against the policy it reads:  *)
(* the path guard, assertBrowserRuntimePolicy, the command filter.         *)
RunAccepts(p, t, target) ==
  CASE t \in {"filesystem.read", "filesystem.write"} -> p.valid /\ PathAllowed(p, target)
    [] Family(t) = "browser" ->
         p.valid /\ p.network /\ "browser" \notin p.blocks /\ UrlAllowed(p, target)
    [] Family(t) = "shell" -> CommandSafe(target)
    [] t = "mcp.servers.list" -> p.valid
    [] OTHER -> TRUE

(* isApprovalContinuationTool.                                             *)
Continues(t) == t \notin {"github.issues.get", "github.pulls.listFiles",
                          "filesystem.read", "git.diff", "mcp.servers.list"}
=============================================================================
