------------------------------ MODULE Companion ------------------------------
(***************************************************************************)
(* The companion (src/companion) on top of the governed memory: a chat     *)
(* turn stores the user's line, finds or makes the host mission its model  *)
(* calls are booked on, asks the model, stores what the model suggests and *)
(* proposes, and stores the answer.  Accepting a suggestion makes a        *)
(* mission of it and writes the file of suggestions anew.                  *)
(*                                                                         *)
(* The model's call itself is ModelRouter's; here it answers with any      *)
(* combination of a suggestion and a memory, or fails, which the turn      *)
(* answers like a model that offers neither.                               *)
(***************************************************************************)
EXTENDS Memory

VARIABLES
  messages,       \* messages.jsonl of the session: whose turn wrote which line
  hostMeta,       \* companion_host_mission_id of meta.json: <<>> or <<mission>>
  hosts,          \* the host missions there are
  suggestions,    \* suggestions.jsonl
  missions        \* the missions made of suggestions: <<suggestion, maker>>

companion == <<messages, hostMeta, hosts, suggestions, missions>>
vars == <<memoryVars, companion>>

Suggestion == [id : Calls, status : {"proposed", "accepted"}, mission : Seq(Calls)]
Steps == {"idle", "over", "broken", "import", "read", "approved", "item", "rejected",
          "revoked", "host", "create", "meta", "recall", "suggest", "remember", "reply",
          "accept", "rewrite"}

TypeOK ==
  /\ items \in Seq(Item) /\ proposals \in Seq(Proposal)
  /\ migrated \in BOOLEAN /\ clock \in 1..(MaxTicks + 1)
  /\ messages \in Seq({"user", "assistant"} \X Calls)
  /\ hosts \subseteq Calls /\ hostMeta \in {<<>>} \union {<<h>> : h \in Calls}
  /\ suggestions \in Seq(Suggestion) /\ missions \subseteq Calls \X Calls
  /\ pc \in [Calls -> Steps] /\ deaths \in 0..MaxDeaths

Init ==
  /\ InitMemory
  /\ messages = <<>> /\ suggestions = <<>>
  /\ hostMeta = <<>> /\ hosts = {} /\ missions = {}

(* runCompanionChatTurn, once the policy allows the companion: the user's  *)
(* line is stored before anything that follows can fail.                   *)
ChatStarts(c) ==
  /\ MayStart(c)
  /\ messages' = Append(messages, <<"user", c>>)
  /\ Goto(c, "host")
  /\ at' = [at EXCEPT ![c] = [Nothing EXCEPT !.job = "chat"]]
  /\ UNCHANGED <<memory, skipped, storage, blocks, clock, serial, deaths>>
  /\ UNCHANGED <<hostMeta, hosts, suggestions, missions>>

(* ensureCompanionHostMissionId: a recorded mission that still exists is   *)
(* used, otherwise one is created and then recorded.                       *)
ReadHost(c) ==
  /\ pc[c] = "host"
  /\ Goto(c, IF \E h \in hosts : hostMeta = <<h>> THEN "recall" ELSE "create")
  /\ UNCHANGED <<memory, skipped, storage, blocks, clock, at, serial, deaths, companion>>

CreateHost(c) ==
  /\ pc[c] = "create"
  /\ hosts' = hosts \cup {c}
  /\ Goto(c, "meta")
  /\ UNCHANGED <<memory, skipped, storage, blocks, clock, at, serial, deaths>>
  /\ UNCHANGED <<messages, hostMeta, suggestions, missions>>

WriteMeta(c) ==
  /\ pc[c] = "meta"
  /\ hostMeta' = <<c>>
  /\ Goto(c, "recall")
  /\ UNCHANGED <<memory, skipped, storage, blocks, clock, at, serial, deaths>>
  /\ UNCHANGED <<messages, hosts, suggestions, missions>>

(* approvedMemorySnippetForModel: nothing is read while the policy keeps   *)
(* no memory; otherwise the read is preceded by the import.                *)
Recall(c) ==
  /\ pc[c] = "recall"
  /\ LET imports == storage # "off" /\ ~migrated
     IN /\ Goto(c, IF imports THEN "import" ELSE "read")
        /\ at' = [at EXCEPT ![c].todo = IF imports THEN StillMissing ELSE {}]
  /\ UNCHANGED <<memory, skipped, storage, blocks, clock, serial, deaths, companion>>

Offers == SUBSET {"mission", "memory", "secret"}

(* parseCompanionStructuredOutput of what the model says; a failed call    *)
(* and an answer that does not parse offer nothing.                        *)
Answers(c) ==
  /\ pc[c] = "read" /\ at[c].job = "chat"
  /\ \E offer \in Offers :
       /\ "secret" \in offer => "memory" \in offer
       /\ at' = [at EXCEPT ![c].offer = offer]
       /\ Goto(c, "suggest")
  /\ UNCHANGED <<memory, skipped, storage, blocks, clock, serial, deaths, companion>>

Suggest(c) ==
  /\ pc[c] = "suggest"
  /\ suggestions' = IF "mission" \in at[c].offer
                    THEN Append(suggestions, [id |-> c, status |-> "proposed", mission |-> <<>>])
                    ELSE suggestions
  /\ Goto(c, "remember")
  /\ UNCHANGED <<memory, skipped, storage, blocks, clock, at, serial, deaths>>
  /\ UNCHANGED <<messages, hostMeta, hosts, missions>>

Propose(c) ==
  proposals' = Append(proposals,
    [id |-> c, at |-> clock, status |-> "pending", scope |-> "relationship",
     sensitive |-> "secret" \in at[c].offer])

Refused(c) == storage = "off" \/ ("secret" \in at[c].offer /\ blocks)

Remember_throws(c) ==
  /\ pc[c] = "remember"
  /\ IF "memory" \notin at[c].offer THEN Goto(c, "reply") /\ UNCHANGED <<proposals, at>>
     ELSE IF Refused(c) THEN End(c) /\ UNCHANGED proposals
     ELSE Propose(c) /\ Goto(c, "reply") /\ UNCHANGED at
  /\ UNCHANGED <<items, migrated, skipped, storage, blocks, clock, serial, deaths, companion>>

(* appendMemoryProposal: a refusal is caught, and told in the answer.      *)
Remember(c) ==
  /\ pc[c] = "remember"
  /\ IF "memory" \in at[c].offer /\ ~Refused(c) THEN Propose(c) ELSE UNCHANGED proposals
  /\ Goto(c, "reply")
  /\ UNCHANGED <<items, migrated, skipped, storage, blocks, clock, at, serial, deaths, companion>>

Reply(c) ==
  /\ pc[c] = "reply"
  /\ messages' = Append(messages, <<"assistant", c>>)
  /\ End(c)
  /\ UNCHANGED <<memory, skipped, storage, blocks, clock, serial, deaths>>
  /\ UNCHANGED <<hostMeta, hosts, suggestions, missions>>
-----------------------------------------------------------------------------
Proposed(rows) == {i \in DOMAIN rows : rows[i].status = "proposed"}

AcceptStarts_last(c) ==
  /\ MayStart(c)
  /\ IF suggestions = <<>> THEN Goto(c, "over") /\ UNCHANGED at
     ELSE /\ Goto(c, "accept")
          /\ at' = [at EXCEPT ![c] = [Nothing EXCEPT !.job = "accept", !.prev = suggestions,
                                      !.row = Len(suggestions)]]
  /\ UNCHANGED <<memory, skipped, storage, blocks, clock, serial, deaths, companion>>

(* acceptLatestProposedMissionSuggestion: every row is read, the last      *)
(* proposed one is the candidate.                                          *)
AcceptStarts(c) ==
  /\ MayStart(c)
  /\ IF Proposed(suggestions) = {} THEN Goto(c, "over") /\ UNCHANGED at
     ELSE /\ Goto(c, "accept")
          /\ at' = [at EXCEPT ![c] = [Nothing EXCEPT !.job = "accept", !.prev = suggestions,
                                      !.row = Max(Proposed(suggestions))]]
  /\ UNCHANGED <<memory, skipped, storage, blocks, clock, serial, deaths, companion>>

Candidate(c) == at[c].prev[at[c].row].id

MakeMission(c) ==
  /\ pc[c] = "accept"
  /\ missions' = missions \cup {<<Candidate(c), c>>}
  /\ Goto(c, "rewrite")
  /\ UNCHANGED <<memory, skipped, storage, blocks, clock, at, serial, deaths>>
  /\ UNCHANGED <<messages, hostMeta, hosts, suggestions>>

AcceptedRows(c) ==
  [at[c].prev EXCEPT ![at[c].row].status = "accepted", ![at[c].row].mission = <<c>>]

(* rewriteMissionSuggestions: the rows as they were read, so a suggestion  *)
(* recorded since is gone.                                                 *)
Rewrite(c) ==
  /\ pc[c] = "rewrite"
  /\ suggestions' = AcceptedRows(c)
  /\ End(c)
  /\ UNCHANGED <<memory, skipped, storage, blocks, clock, serial, deaths>>
  /\ UNCHANGED <<messages, hostMeta, hosts, missions>>

(* The persona, the host mission, the transcript, the memories, the        *)
(* suggestion and the answer are read and written outside any try: where   *)
(* one of them throws, a malformed persona.yaml say, the turn is given up. *)
Break(c) == Goto(c, "broken") /\ at' = [at EXCEPT ![c] = Nothing]

TurnThrows(c) ==
  /\ at[c].job = "chat" /\ Cardinality({d \in Calls : pc[d] = "broken"}) < MaxThrows
  /\ pc[c] \in {"host", "create", "meta", "recall", "import", "read", "suggest", "reply"}
  /\ Break(c)
  /\ UNCHANGED <<memory, skipped, storage, blocks, clock, serial, deaths, companion>>

(* A process dies, or a write of its command throws; in the middle of the  *)
(* rewrite it leaves as many of the rows as were written.                  *)
Die(c) ==
  /\ c \in InFlight /\ deaths < MaxDeaths
  /\ deaths' = deaths + 1
  /\ Break(c)
  /\ \/ UNCHANGED suggestions
     \/ /\ pc[c] = "rewrite"
        /\ \E n \in 0..(Len(AcceptedRows(c)) - 1) : suggestions' = SubSeq(AcceptedRows(c), 1, n)
  /\ UNCHANGED <<memory, skipped, storage, blocks, clock, serial, messages, hostMeta, hosts, missions>>

(* narthynx chat and the interactive companion; /mission-from-chat accept. *)
Command(c) == ChatStarts(c) \/ AcceptStarts(c)

Next ==
  \/ NextMemory /\ UNCHANGED companion
  \/ \E c \in Calls :
       \/ Command(c) \/ ReadHost(c) \/ CreateHost(c) \/ WriteMeta(c) \/ Recall(c)
       \/ Answers(c) \/ Suggest(c) \/ Remember(c) \/ Reply(c) \/ TurnThrows(c)
       \/ MakeMission(c) \/ Rewrite(c) \/ Die(c)

Spec == Init /\ [][Next]_vars
-----------------------------------------------------------------------------
Lines(role, c) == {i \in DOMAIN messages : messages[i] = <<role, c>>}

(* Every turn that returned has its answer after its question, whatever    *)
(* became of the model's call and of the memory it proposed, and whatever  *)
(* other turns wrote in between; one that threw or died may have none.     *)
TurnsAreAnswered ==
  \A c \in Calls :
    pc[c] = "over" /\ Lines("user", c) # {} =>
      \E i \in Lines("user", c), j \in Lines("assistant", c) : i < j

(* One command at a time, a suggestion becomes one mission, and one more   *)
(* only for a death between making it and recording it; an accepted one    *)
(* always names a mission that was made of it.                             *)
OneMissionPerSuggestion ==
  /\ serial => \A s \in Calls : Cardinality({m \in missions : m[1] = s}) <= 1 + deaths
  /\ \A i \in DOMAIN suggestions : suggestions[i].status = "accepted" =>
       <<suggestions[i].id, suggestions[i].mission[1]>> \in missions
=============================================================================
