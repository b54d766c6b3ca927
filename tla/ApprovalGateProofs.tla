------------------------- MODULE ApprovalGateProofs -------------------------
(***************************************************************************)
(* Theorems about the approval gate, for every number of calls.  GateInv   *)
(* holds however the calls overlap and die; SerialInv is what is added     *)
(* when one call runs at a time.                                           *)
(***************************************************************************)
EXTENDS ApprovalGate, TLAPS

(* A list, in the file or in the hands of a call, is honest when every     *)
(* approval in it was given and every mark was earned.                     *)
Approved == {"approved", "executed"}
Honest(list) ==
  \A a \in Requests :
    /\ list[a] \in Approved => "approved" \in ruled[a]
    /\ list[a] = "executed" => ran[a] > 0

Earned(c) ==
  /\ pc[c] \in {"run", "executed", "mark"} => "approved" \in ruled[Subject(c)]
  /\ pc[c] \in {"executed", "mark"} => ran[Subject(c)] > 0

(* The tool of a call takes effect, and the call goes on to a step.        *)
Acted(c, step) ==
  Goto(c, step) /\ ran' = [ran EXCEPT ![Subject(c)] = @ + 1]

GateInv ==
  /\ TypeOK
  /\ Honest(file)
  /\ \A c \in Calls : Honest(seen[c]) /\ Earned(c)
  /\ NeverUnapproved

(* GateInv holds at the start.                                             *)
LEMMA GateInit == Init => GateInv
  BY GateAssumption DEF Init, GateInv, TypeOK, Calls, Rulings, Status, Honest, Approved,
     Earned, NeverUnapproved

(* Every step of the gate keeps GateInv.                                   *)
LEMMA GateNext == GateInv /\ [Next]_vars => GateInv'
<1> SUFFICES ASSUME GateInv, [Next]_vars
             PROVE  GateInv'
  OBVIOUS
<1> USE GateAssumption DEF GateInv, TypeOK, Honest, Earned, NeverUnapproved,
     Approved, Subject, Goto, ReadFile, Calls, Rulings, Status
<1>1. ASSUME NEW r \in Requests, Request(r)
      PROVE  GateInv'
  <2>1. CASE Goto(r, "over") /\ UNCHANGED seen
    BY <1>1, <2>1 DEF Request, stored, history, world
  <2>2. CASE Goto(r, "create") /\ ReadFile(r)
    BY <1>1, <2>2 DEF Request, stored, history, world
  <2>3. QED
    BY <1>1, <2>1, <2>2 DEF Request
<1>2. ASSUME NEW r \in Requests, CreateApproval(r)
      PROVE  GateInv'
  BY <1>2 DEF CreateApproval, WriteEntry, history, world
<1>3. ASSUME NEW d \in Deciders, Decide(d)
      PROVE  GateInv'
  BY <1>3 DEF Decide, MayStart, stored, history, world
<1>4. ASSUME NEW d \in Deciders, WriteDecision(d)
      PROVE  GateInv'
  BY <1>4 DEF WriteDecision, WriteEntry, world
<1>5. ASSUME NEW d \in Deciders, RecordDecision(d)
      PROVE  GateInv'
  BY <1>5 DEF RecordDecision, history, world
<1>6. ASSUME NEW e \in Resumes, Resume(e)
      PROVE  GateInv'
  BY <1>6 DEF Resume, MayStart, stored, history, world
<1>7. ASSUME NEW c \in Deciders \union Resumes, Fetch(c)
      PROVE  GateInv'
  <2>1. CASE Goto(c, "over")
    BY <1>7, <2>1 DEF Fetch, stored, history, world
  <2>2. CASE file[Subject(c)] = "approved" /\ Goto(c, "run")
    BY <1>7, <2>2 DEF Fetch, stored, history, world
  <2>3. QED
    BY <1>7, <2>1, <2>2 DEF Fetch
<1>8. ASSUME NEW c \in Deciders \union Resumes, RunTool(c)
      PROVE  GateInv'
  <2>1. CASE Acted(c, "executed") /\ UNCHANGED late
    BY <1>8, <2>1 DEF RunTool, Acted, stored, world
  <2>2. CASE Goto(c, "over") /\ UNCHANGED <<ran, late>>
    BY <1>8, <2>2 DEF RunTool, stored, world
  <2>3. CASE Acted(c, "over") /\ late' = [late EXCEPT ![Subject(c)] = @ + 1]
    BY <1>8, <2>3 DEF RunTool, Acted, stored, world
  <2>4. QED
    BY <1>8, <2>1, <2>2, <2>3 DEF RunTool, Acted
<1>9. ASSUME NEW c \in Deciders \union Resumes, Executed(c)
      PROVE  GateInv'
  BY <1>9 DEF Executed, stored, history, world
<1>10. ASSUME NEW c \in Deciders \union Resumes, MarkExecuted(c)
       PROVE  GateInv'
  BY <1>10 DEF MarkExecuted, WriteEntry, history, world
<1>11. ASSUME NEW c \in Calls, Mirror(c)
       PROVE  GateInv'
  BY <1>11 DEF Mirror, history, world
<1>12. ASSUME NEW c \in Calls, Die(c)
       PROVE  GateInv'
  BY <1>12 DEF Die, InFlight, stored, history
<1>13. CASE UNCHANGED vars
  BY <1>13 DEF vars, stored, local, history, world
<1>14. QED
  BY <1>1, <1>2, <1>3, <1>4, <1>5, <1>6, <1>7, <1>8, <1>9, <1>10, <1>11,
     <1>12, <1>13 DEF Next

(* GateInv holds however the calls overlap and die.                        *)
THEOREM GateInvariant == Spec => []GateInv
  BY GateInit, GateNext, PTL DEF Spec

(* However the calls overlap, the approval store keeps its types.          *)
THEOREM GateTypeCorrect == Spec => []TypeOK
  BY GateInvariant, PTL DEF GateInv

(* However the calls overlap and die, no gated action takes effect that    *)
(* nobody approved.                                                        *)
THEOREM UnapprovedNeverRuns == Spec => []NeverUnapproved
  BY GateInvariant, PTL DEF GateInv

(* However stale the lists that are written back, none carries a mark that *)
(* was not earned.                                                         *)
THEOREM MarksAreEarned == Spec => []MarkedMeansRan
<1>1. GateInv => MarkedMeansRan
  BY DEF GateInv, Honest, MarkedMeansRan
<1>2. QED
  BY GateInvariant, <1>1, PTL
-----------------------------------------------------------------------------
(* One call at a time: what a call has read is still what the file holds.  *)
Current(c) ==
  /\ pc[c] \in {"create", "decide", "mark", "mirror"} => seen[c] = file
  /\ pc[c] = "decide" => file[Subject(c)] = "pending"
  /\ pc[c] \in {"run", "executed", "mark"} => file[Subject(c)] = "approved"

Unasked(r) == pc[r] \in {"idle", "create"} => file[r] = "absent"

(* The run that an unmarked action has had beyond those paid for by deaths *)
(* and late failures is the one of the call that is about to mark it.      *)
Performing(a) ==
  \E c \in Calls : pc[c] \in {"executed", "mark"} /\ Subject(c) = a

Paid(a) ==
  /\ late[a] <= ran[a]
  /\ ran[a] <= 1 + deaths + late[a]
  /\ file[a] # "executed" /\ ~Performing(a) => ran[a] <= deaths + late[a]

(* Only a call that is about to copy the list leaves mission.yaml behind.  *)
Copied ==
  deaths = 0 /\ (\A c \in Calls : pc[c] # "mirror") => mirror = file

SerialInv ==
  /\ GateInv
  /\ \A c \in Calls : Current(c)
  /\ \A c, d \in InFlight : c = d
  /\ \A a \in Requests : Unasked(a) /\ Paid(a)
  /\ Copied

(* SerialInv holds at the start.                                           *)
LEMMA SerialInit == Init => SerialInv
<1> SUFFICES ASSUME Init PROVE SerialInv
  OBVIOUS
<1>1. GateInv
  BY GateInit
<1>2. QED
  BY <1>1, GateAssumption DEF Init, SerialInv, Calls, Current, InFlight, Unasked,
     Paid, Performing, Copied

(* A call that starts is alone, and so is a call in flight that moves on.  *)
LEMMA Alone ==
  ASSUME SerialInv, serial, NEW c \in Calls,
         pc[c] \notin {"idle", "over"} \/ MayStart(c)
  PROVE  \A d \in Calls \ {c} : pc[d] \in {"idle", "over"}
  BY DEF SerialInv, InFlight, MayStart

(* A step neither from nor to the end of a run leaves paid what was paid.  *)
LEMMA PaidKept ==
  ASSUME TypeOK, NEW c \in Calls, NEW next,
         pc' = [pc EXCEPT ![c] = next],
         pc[c] \notin {"executed", "mark"}, next \notin {"executed", "mark"},
         UNCHANGED <<of, ran, late, deaths>>,
         NEW a \in Requests, Paid(a), file'[a] # "executed" => file[a] # "executed"
  PROVE  Paid(a)'
<1>1. \A d \in Calls : pc'[d] \in {"executed", "mark"} <=> pc[d] \in {"executed", "mark"}
  BY DEF TypeOK
<1>2. Performing(a)' <=> Performing(a)
  BY <1>1 DEF Performing, Subject
<1> QED
  BY <1>2 DEF Paid

(* Serial calls keep SerialInv, action by action.                          *)
LEMMA SerialNext ==
  ASSUME SerialInv, serial, [Next]_vars
  PROVE  SerialInv'
<1> USE GateAssumption DEF SerialInv, TypeOK, Current, Unasked, Paid,
     Performing, Copied, Subject, Goto, ReadFile, Calls, Rulings, Status, InFlight
<1>0. GateInv'
  BY GateNext DEF SerialInv
<1>t. TypeOK /\ TypeOK'
  BY <1>0 DEF GateInv
<1>1. ASSUME NEW r \in Requests, Request(r)
      PROVE  SerialInv'
  <2>1. \A d \in Calls \ {r} : pc[d] \in {"idle", "over"}
    BY <1>1, Alone DEF Request
  <2>2. CASE Goto(r, "over") /\ UNCHANGED seen
    BY <1>0, <1>t, <1>1, <2>1, <2>2 DEF Request, MayStart, stored, history, world
  <2>3. CASE Goto(r, "create") /\ ReadFile(r)
    BY <1>0, <1>t, <1>1, <2>1, <2>3 DEF Request, MayStart, stored, history, world
  <2>4. QED
    BY <1>1, <2>2, <2>3 DEF Request
<1>2. ASSUME NEW r \in Requests, CreateApproval(r)
      PROVE  SerialInv'
  <2>1. \A d \in Calls \ {r} : pc[d] \in {"idle", "over"}
    BY <1>2, Alone DEF CreateApproval
  <2>2. \A x, y \in InFlight' : x = y
    BY <1>0, <1>t, <1>2, <2>1 DEF CreateApproval, WriteEntry, history, world
  <2>3. \A x \in Calls : Current(x)'
    BY <1>0, <1>t, <1>2, <2>1 DEF CreateApproval, WriteEntry, history, world
  <2>4. \A a \in Requests : Unasked(a)'
    BY <1>0, <1>t, <1>2, <2>1 DEF CreateApproval, WriteEntry, history, world
  <2>5. \A a \in Requests : Paid(a)'
    <3>1. /\ pc' = [pc EXCEPT ![r] = "mirror"]
          /\ pc[r] \notin {"executed", "mark"}
          /\ UNCHANGED <<of, ran, late, deaths>>
      BY <1>2 DEF CreateApproval, WriteEntry, history, world
    <3>2. \A a \in Requests : file'[a] # "executed" => file[a] # "executed"
      BY <1>t, <1>2 DEF CreateApproval, WriteEntry, history, world
    <3> QED
      BY <1>t, <3>1, <3>2, PaidKept
  <2>6. Copied'
    BY <1>0, <1>t, <1>2, <2>1 DEF CreateApproval, WriteEntry, history, world
  <2>7. QED
    BY <1>0, <2>2, <2>3, <2>4, <2>5, <2>6
<1>3. ASSUME NEW d \in Deciders, Decide(d)
      PROVE  SerialInv'
  <2>1. \A c \in Calls \ {d} : pc[c] \in {"idle", "over"}
    BY <1>3, Alone DEF Decide
  <2>2. UNCHANGED <<stored, of, ruling, history, world>> /\ pc[d] = "idle"
    BY <1>3 DEF Decide, MayStart
  <2>3. PICK next \in {"decide", "fetch", "over"} : pc' = [pc EXCEPT ![d] = next]
    BY <1>3 DEF Decide
  <2>4. seen' = [seen EXCEPT ![d] = file] /\ (next = "decide" => file[Subject(d)] = "pending")
    BY <1>3, <1>t, <2>3 DEF Decide
  <2>5. \A x, y \in InFlight' : x = y
    BY <1>t, <2>1, <2>2, <2>3
  <2>6. \A x \in Calls : Current(x)'
    BY <1>t, <2>1, <2>2, <2>3, <2>4 DEF stored
  <2>7. \A a \in Requests : Unasked(a)' /\ Paid(a)'
    BY <1>t, <2>1, <2>2, <2>3 DEF stored, history, world
  <2>8. Copied'
    BY <1>t, <2>1, <2>2, <2>3 DEF stored, world
  <2>9. QED
    BY <1>0, <2>5, <2>6, <2>7, <2>8
<1>4. ASSUME NEW d \in Deciders, WriteDecision(d)
      PROVE  SerialInv'
  <2>1. \A c \in Calls \ {d} : pc[c] \in {"idle", "over"}
    BY <1>4, Alone DEF WriteDecision
  <2>2. \A x, y \in InFlight' : x = y
    BY <1>0, <1>t, <1>4, <2>1 DEF WriteDecision, WriteEntry, world
  <2>3. \A x \in Calls : Current(x)'
    BY <1>0, <1>t, <1>4, <2>1 DEF WriteDecision, WriteEntry, world
  <2>4. \A a \in Requests : Unasked(a)'
    BY <1>0, <1>t, <1>4, <2>1 DEF WriteDecision, WriteEntry, world
  <2>5. \A a \in Requests : Paid(a)'
    <3>1. /\ pc' = [pc EXCEPT ![d] = "mirror"]
          /\ pc[d] \notin {"executed", "mark"}
          /\ UNCHANGED <<of, ran, late, deaths>>
      BY <1>4 DEF WriteDecision, WriteEntry, world
    <3>2. \A a \in Requests : file'[a] # "executed" => file[a] # "executed"
      BY <1>t, <1>4 DEF WriteDecision, WriteEntry, world
    <3> QED
      BY <1>t, <3>1, <3>2, PaidKept
  <2>6. Copied'
    BY <1>0, <1>t, <1>4, <2>1 DEF WriteDecision, WriteEntry, world
  <2>7. QED
    BY <1>0, <2>2, <2>3, <2>4, <2>5, <2>6
<1>5. ASSUME NEW d \in Deciders, RecordDecision(d)
      PROVE  SerialInv'
  <2>1. \A c \in Calls \ {d} : pc[c] \in {"idle", "over"}
    BY <1>5, Alone DEF RecordDecision
  <2>2. QED
    BY <1>0, <1>t, <1>5, <2>1 DEF RecordDecision, history, world
<1>6. ASSUME NEW e \in Resumes, Resume(e)
      PROVE  SerialInv'
  <2>1. \A c \in Calls \ {e} : pc[c] \in {"idle", "over"}
    BY <1>6, Alone DEF Resume
  <2>2. \A x, y \in InFlight' : x = y
    BY <1>0, <1>t, <1>6, <2>1 DEF Resume, MayStart, stored, history, world
  <2>3. \A x \in Calls : Current(x)'
    BY <1>0, <1>t, <1>6, <2>1 DEF Resume, MayStart, stored, history, world
  <2>4. \A a \in Requests : Unasked(a)'
    BY <1>0, <1>t, <1>6, <2>1 DEF Resume, MayStart, stored, history, world
  <2>5. \A a \in Requests : Paid(a)'
    <3>1. /\ pc' = [pc EXCEPT ![e] = "fetch"]
          /\ pc[e] \notin {"executed", "mark"}
          /\ UNCHANGED <<of, ran, late, deaths>>
      BY <1>6 DEF Resume, MayStart, stored, history, world
    <3>2. \A a \in Requests : file'[a] # "executed" => file[a] # "executed"
      BY <1>t, <1>6 DEF Resume, MayStart, stored, history, world
    <3> QED
      BY <1>t, <3>1, <3>2, PaidKept
  <2>6. Copied'
    BY <1>0, <1>t, <1>6, <2>1 DEF Resume, MayStart, stored, history, world
  <2>7. QED
    BY <1>0, <2>2, <2>3, <2>4, <2>5, <2>6
<1>7. ASSUME NEW c \in Deciders \union Resumes, Fetch(c)
      PROVE  SerialInv'
  <2>1. \A d \in Calls \ {c} : pc[d] \in {"idle", "over"}
    BY <1>7, Alone DEF Fetch
  <2>2. CASE Goto(c, "over")
    BY <1>0, <1>t, <1>7, <2>1, <2>2 DEF Fetch, stored, history, world
  <2>3. CASE file[Subject(c)] = "approved" /\ Goto(c, "run")
    BY <1>0, <1>t, <1>7, <2>1, <2>3 DEF Fetch, stored, history, world
  <2>4. QED
    BY <1>7, <2>2, <2>3 DEF Fetch
<1>8. ASSUME NEW c \in Deciders \union Resumes, RunTool(c)
      PROVE  SerialInv'
  <2>1. \A d \in Calls \ {c} : pc[d] \in {"idle", "over"}
    BY <1>8, Alone DEF RunTool
  <2> DEFINE s == Subject(c)
  <2>2. s \in Requests /\ pc[c] = "run" /\ file[s] = "approved" /\ ~Performing(s)
    BY <1>t, <1>8, <2>1 DEF RunTool
  <2>3. ran[s] <= deaths + late[s] /\ late[s] <= ran[s]
    BY <2>2
  <2>4. UNCHANGED <<file, mirror, ledger, seen, of, ruling, ruled, deaths, serial>>
    BY <1>8 DEF RunTool, stored, world
  <2>5. ASSUME Acted(c, "executed"), UNCHANGED late
        PROVE  SerialInv'
    <3>1. (\A x, y \in InFlight' : x = y) /\ (\A x \in Calls : Current(x)')
      BY <1>t, <2>1, <2>2, <2>4, <2>5 DEF Acted
    <3>2. (\A a \in Requests : Unasked(a)') /\ Copied'
      BY <1>t, <2>1, <2>2, <2>4, <2>5 DEF Acted
    <3>3. ASSUME NEW a \in Requests
          PROVE  Paid(a)'
      <4>1. CASE a = s
        <5>1. ran'[a] = ran[s] + 1 /\ late'[a] = late[s] /\ deaths' = deaths
          BY <1>t, <2>2, <2>4, <2>5, <4>1 DEF Acted
        <5>2. Performing(a)'
          BY <1>t, <2>4, <2>5, <4>1 DEF Acted
        <5> QED
          BY <1>t, <2>2, <2>3, <5>1, <5>2 DEF Paid
      <4>2. CASE a # s
        <5>1. ran'[a] = ran[a] /\ late'[a] = late[a] /\ deaths' = deaths /\ file' = file
          BY <1>t, <2>2, <2>4, <2>5, <4>2 DEF Acted
        <5>2. Performing(a) => Performing(a)'
          BY <1>t, <2>1, <2>2, <2>4, <2>5, <4>2 DEF Acted
        <5> QED
          BY <5>1, <5>2
      <4> QED
        BY <4>1, <4>2
    <3> QED
      BY <1>0, <3>1, <3>2, <3>3
  <2>6. CASE Goto(c, "over") /\ UNCHANGED <<ran, late>>
    BY <1>0, <1>t, <1>8, <2>1, <2>6 DEF RunTool, stored, world
  <2>7. ASSUME Acted(c, "over"), late' = [late EXCEPT ![s] = @ + 1]
        PROVE  SerialInv'
    <3>1. (\A x, y \in InFlight' : x = y) /\ (\A x \in Calls : Current(x)')
      BY <1>t, <2>1, <2>2, <2>4, <2>7 DEF Acted
    <3>2. (\A a \in Requests : Unasked(a)') /\ Copied'
      BY <1>t, <2>1, <2>2, <2>4, <2>7 DEF Acted
    <3>3. ASSUME NEW a \in Requests
          PROVE  Paid(a)'
      <4>1. CASE a = s
        <5>1. ran'[a] = ran[s] + 1 /\ late'[a] = late[s] + 1 /\ deaths' = deaths
          BY <1>t, <2>2, <2>4, <2>7, <4>1 DEF Acted
        <5> QED
          BY <1>t, <2>2, <2>3, <5>1 DEF Paid
      <4>2. CASE a # s
        <5>1. ran'[a] = ran[a] /\ late'[a] = late[a] /\ deaths' = deaths /\ file' = file
          BY <1>t, <2>2, <2>4, <2>7, <4>2 DEF Acted
        <5>2. Performing(a) => Performing(a)'
          BY <1>t, <2>1, <2>2, <2>4, <2>7, <4>2 DEF Acted
        <5> QED
          BY <5>1, <5>2
      <4> QED
        BY <4>1, <4>2
    <3> QED
      BY <1>0, <3>1, <3>2, <3>3
  <2>8. QED
    BY <1>8, <2>5, <2>6, <2>7 DEF RunTool, Acted
<1>9. ASSUME NEW c \in Deciders \union Resumes, Executed(c)
      PROVE  SerialInv'
  <2>1. \A d \in Calls \ {c} : pc[d] \in {"idle", "over"}
    BY <1>9, Alone DEF Executed
  <2>2. QED
    BY <1>0, <1>t, <1>9, <2>1 DEF Executed, stored, history, world
<1>10. ASSUME NEW c \in Deciders \union Resumes, MarkExecuted(c)
       PROVE  SerialInv'
  <2>1. \A d \in Calls \ {c} : pc[d] \in {"idle", "over"}
    BY <1>10, Alone DEF MarkExecuted
  <2>2. \A x, y \in InFlight' : x = y
    BY <1>0, <1>t, <1>10, <2>1 DEF MarkExecuted, WriteEntry, history, world
  <2>3. \A x \in Calls : Current(x)'
    BY <1>0, <1>t, <1>10, <2>1 DEF MarkExecuted, WriteEntry, history, world
  <2>4. \A a \in Requests : Unasked(a)'
    BY <1>0, <1>t, <1>10, <2>1 DEF MarkExecuted, WriteEntry, history, world
  <2>5. \A a \in Requests : Paid(a)'
    BY <1>0, <1>t, <1>10, <2>1 DEF MarkExecuted, WriteEntry, history, world
  <2>6. Copied'
    BY <1>0, <1>t, <1>10, <2>1 DEF MarkExecuted, WriteEntry, history, world
  <2>7. QED
    BY <1>0, <2>2, <2>3, <2>4, <2>5, <2>6
<1>11. ASSUME NEW c \in Calls, Mirror(c)
       PROVE  SerialInv'
  <2>1. \A d \in Calls \ {c} : pc[d] \in {"idle", "over"}
    BY <1>11, Alone DEF Mirror
  <2>2. \A x, y \in InFlight' : x = y
    BY <1>0, <1>t, <1>11, <2>1 DEF Mirror, history, world
  <2>3. \A x \in Calls : Current(x)'
    BY <1>0, <1>t, <1>11, <2>1 DEF Mirror, history, world
  <2>4. \A a \in Requests : Unasked(a)'
    BY <1>0, <1>t, <1>11, <2>1 DEF Mirror, history, world
  <2>5. \A a \in Requests : Paid(a)'
    BY <1>0, <1>t, <1>11, <2>1 DEF Mirror, history, world
  <2>6. Copied'
    BY <1>0, <1>t, <1>11, <2>1 DEF Mirror, history, world
  <2>7. QED
    BY <1>0, <2>2, <2>3, <2>4, <2>5, <2>6
<1>12. ASSUME NEW c \in Calls, Die(c)
       PROVE  SerialInv'
  <2>1. \A d \in Calls \ {c} : pc[d] \in {"idle", "over"}
    BY <1>12, Alone DEF Die
  <2>2. QED
    BY <1>0, <1>t, <1>12, <2>1 DEF Die, stored, history
<1>13. CASE UNCHANGED vars
  BY <1>0, <1>t, <1>13 DEF vars, stored, local, history, world
<1>14. QED
  BY <1>1, <1>2, <1>3, <1>4, <1>5, <1>6, <1>7, <1>8, <1>9, <1>10, <1>11,
     <1>12, <1>13 DEF Next

(* Only the call that has just written a ruling still owes the ledger its  *)
(* event; nobody else is in flight to change the ruling meanwhile.         *)
Writing(c) ==
  /\ pc[c] \in {"mirror", "ledger"}
  /\ file[Subject(c)] \in Rulings

Owed(a) == \E c \in Calls : Writing(c) /\ Subject(c) = a

Owes(c) ==
  /\ pc[c] = "ledger" => file[Subject(c)] \in Rulings
  /\ Writing(c) => c \in Deciders /\ file[Subject(c)] = ruling[c]

Books ==
  /\ \A c \in Calls : Owes(c)
  /\ deaths = 0 =>
       \A a \in Requests : ledger[a] = IF Owed(a) THEN {} ELSE Ruled(file[a])

Quiet(c) == pc[c] \notin {"mirror", "ledger"}

(* As long as nobody owes an event, a step that writes no ruling keeps the *)
(* books.                                                                  *)
LEMMA BooksClosed ==
  ASSUME Books, UNCHANGED <<ledger, deaths>>,
         \A c \in Calls : ~Writing(c) /\ ~Writing(c)' /\ pc'[c] # "ledger",
         \A a \in Requests : Ruled(file'[a]) = Ruled(file[a])
  PROVE  Books'
<1>1. \A c \in Calls : Owes(c)'
  BY DEF Owes
<1>2. \A a \in Requests : ~Owed(a) /\ ~Owed(a)'
  BY DEF Owed
<1>3. QED
  BY <1>1, <1>2 DEF Books

(* A step between quiet steps of a call that is alone keeps the books.     *)
LEMMA BooksQuiet ==
  ASSUME TypeOK, Books, UNCHANGED <<file, ledger, deaths>>,
         NEW c \in Calls, Quiet(c), NEW next, next \notin {"mirror", "ledger"},
         pc' = [pc EXCEPT ![c] = next],
         \A d \in Calls \ {c} : pc[d] \in {"idle", "over"}
  PROVE  Books'
<1>1. \A d \in Calls : Quiet(d) /\ Quiet(d)'
  BY DEF TypeOK, Quiet
<1>2. \A d \in Calls : ~Writing(d) /\ ~Writing(d)' /\ pc'[d] # "ledger"
  BY <1>1 DEF Writing, Quiet
<1>3. QED
  BY <1>2, BooksClosed

(* Serial calls keep the ledger in step with the file.                     *)
LEMMA BooksNext ==
  ASSUME SerialInv, Books, serial, [Next]_vars
  PROVE  Books'
<1> USE GateAssumption DEF Calls
<1>t. /\ TypeOK
      /\ \A c \in Calls : Current(c) /\ Subject(c) \in Requests
      /\ \A r \in Requests : Unasked(r)
  BY DEF SerialInv, GateInv, TypeOK, Subject
<1>1. ASSUME NEW r \in Requests, Request(r)
      PROVE  Books'
  <2>1. \A d \in Calls \ {r} : pc[d] \in {"idle", "over"}
    BY <1>1, Alone DEF Request
  <2>2. UNCHANGED <<file, ledger, deaths>> /\ Quiet(r)
    BY <1>1 DEF Request, MayStart, Quiet, stored, world
  <2>3. PICK next \in {"over", "create"} : pc' = [pc EXCEPT ![r] = next]
    BY <1>1 DEF Request, Goto
  <2>4. QED
    BY <1>t, <2>1, <2>2, <2>3, BooksQuiet
<1>2. ASSUME NEW r \in Requests, CreateApproval(r)
      PROVE  Books'
  <2>1. \A d \in Calls \ {r} : pc[d] \in {"idle", "over"}
    BY <1>2, Alone DEF CreateApproval
  <2>2. file[r] = "absent" /\ seen[r] = file /\ pc[r] = "create"
    BY <1>2, <1>t DEF CreateApproval, Current, Unasked
  <2>3. /\ file' = [file EXCEPT ![r] = "pending"]
        /\ pc' = [pc EXCEPT ![r] = "mirror"]
    BY <1>2, <2>2 DEF CreateApproval, WriteEntry, Subject, Goto
  <2>4. file'[r] = "pending" /\ Subject(r)' = r
    BY <1>t, <2>3 DEF TypeOK, Subject
  <2>5. \A c \in Calls : ~Writing(c) /\ ~Writing(c)' /\ pc'[c] # "ledger"
    BY <1>t, <2>1, <2>2, <2>3, <2>4 DEF Writing, Rulings, TypeOK
  <2>6. \A a \in Requests : Ruled(file'[a]) = Ruled(file[a])
    BY <1>t, <2>2, <2>3 DEF TypeOK, Ruled, Rulings
  <2>7. UNCHANGED <<ledger, deaths>>
    BY <1>2 DEF CreateApproval, world
  <2>8. QED
    BY <2>5, <2>6, <2>7, BooksClosed
<1>3. ASSUME NEW d \in Deciders, Decide(d)
      PROVE  Books'
  <2>1. \A c \in Calls \ {d} : pc[c] \in {"idle", "over"}
    BY <1>3, Alone DEF Decide
  <2>2. UNCHANGED <<file, ledger, deaths>> /\ Quiet(d)
    BY <1>3 DEF Decide, MayStart, Quiet, stored, world
  <2>3. PICK next \in {"decide", "fetch", "over"} : pc' = [pc EXCEPT ![d] = next]
    BY <1>3 DEF Decide, Goto
  <2>4. QED
    BY <1>t, <2>1, <2>2, <2>3, BooksQuiet
<1>4. ASSUME NEW d \in Deciders, WriteDecision(d)
      PROVE  Books'
  <2>1. \A c \in Calls \ {d} : pc[c] \in {"idle", "over"}
    BY <1>4, Alone DEF WriteDecision
  <2>2. PICK s \in Requests : s = Subject(d) /\ s = Subject(d)'
    BY <1>4, <1>t DEF WriteDecision, Subject
  <2>3. file[s] = "pending" /\ seen[d] = file /\ pc[d] = "decide"
    BY <1>4, <1>t, <2>2 DEF WriteDecision, Current
  <2>4. /\ file' = [file EXCEPT ![s] = ruling[d]]
        /\ pc' = [pc EXCEPT ![d] = "mirror"]
        /\ ruling[d] \in Rulings
        /\ UNCHANGED <<ledger, ruling, deaths>>
    BY <1>4, <1>t, <2>2, <2>3 DEF WriteDecision, WriteEntry, Goto, world, TypeOK
  <2>5. file'[s] = ruling[d] /\ pc'[d] = "mirror"
    BY <1>t, <2>4 DEF TypeOK
  <2>6. \A c \in Calls \ {d} : pc'[c] \in {"idle", "over"}
    BY <1>t, <2>1, <2>4 DEF TypeOK
  <2>7. \A c \in Calls : Owes(c)'
    BY <2>2, <2>4, <2>5, <2>6 DEF Owes, Writing
  <2>8. Owed(s)' /\ \A a \in Requests \ {s} : ~Owed(a)'
    BY <2>2, <2>4, <2>5, <2>6 DEF Owed, Writing
  <2>9. \A a \in Requests : ~Owed(a)
    BY <2>1, <2>3 DEF Owed, Writing
  <2>10. deaths = 0 => ledger[s] = {}
    BY <2>3, <2>9 DEF Books, Ruled, Rulings
  <2>11. \A a \in Requests \ {s} : file'[a] = file[a]
    BY <1>t, <2>4 DEF TypeOK
  <2>12. QED
    BY <2>4, <2>7, <2>8, <2>9, <2>10, <2>11 DEF Books
<1>5. ASSUME NEW d \in Deciders, RecordDecision(d)
      PROVE  Books'
  <2>1. \A c \in Calls \ {d} : pc[c] \in {"idle", "over"}
    BY <1>5, Alone DEF RecordDecision
  <2>2. PICK s \in Requests : s = Subject(d)
    BY <1>t
  <2>3. pc[d] = "ledger" /\ file[s] \in Rulings /\ file[s] = ruling[d]
    BY <1>5, <2>2 DEF RecordDecision, Books, Owes, Writing
  <2>4. /\ ledger' = [ledger EXCEPT ![s] = @ \union {ruling[d]}]
        /\ UNCHANGED <<file, deaths>>
    BY <1>5, <2>2 DEF RecordDecision, world
  <2>5. PICK next \in {"fetch", "over"} : pc' = [pc EXCEPT ![d] = next]
    BY <1>5 DEF RecordDecision, Goto
  <2>6. \A c \in Calls : Quiet(c)'
    BY <1>t, <2>1, <2>5 DEF TypeOK, Quiet
  <2>7. \A c \in Calls : Owes(c)'
    BY <2>6 DEF Quiet, Owes, Writing
  <2>8. \A a \in Requests : ~Owed(a)'
    BY <2>6 DEF Quiet, Owed, Writing
  <2>9. Owed(s) /\ \A a \in Requests \ {s} : ~Owed(a)
    BY <2>1, <2>2, <2>3 DEF Owed, Writing
  <2>10. deaths = 0 => ledger'[s] = Ruled(file[s])
    <3>1. deaths = 0 => ledger[s] = {}
      BY <2>9 DEF Books
    <3>2. ledger'[s] = ledger[s] \union {file[s]}
      BY <1>t, <2>3, <2>4 DEF TypeOK
    <3>3. Ruled(file[s]) = {file[s]}
      BY <2>3 DEF Ruled, Rulings
    <3>4. QED
      BY <3>1, <3>2, <3>3
  <2>11. \A a \in Requests \ {s} : ledger'[a] = ledger[a]
    BY <1>t, <2>4 DEF TypeOK
  <2>12. QED
    BY <2>4, <2>7, <2>8, <2>9, <2>10, <2>11 DEF Books
<1>6. ASSUME NEW e \in Resumes, Resume(e)
      PROVE  Books'
  <2>1. \A c \in Calls \ {e} : pc[c] \in {"idle", "over"}
    BY <1>6, Alone DEF Resume
  <2>2. UNCHANGED <<file, ledger, deaths>> /\ Quiet(e)
    BY <1>6 DEF Resume, MayStart, Quiet, stored, world
  <2>3. QED
    BY <1>6, <1>t, <2>1, <2>2, BooksQuiet DEF Resume, Goto
<1>7. ASSUME NEW c \in Deciders \union Resumes,
             Fetch(c) \/ RunTool(c) \/ Executed(c)
      PROVE  Books'
  <2>1. pc[c] \in {"fetch", "run", "executed"}
    BY <1>7 DEF Fetch, RunTool, Executed
  <2>2. \A d \in Calls \ {c} : pc[d] \in {"idle", "over"}
    BY <2>1, Alone
  <2>3. UNCHANGED <<file, ledger, deaths>> /\ Quiet(c)
    BY <1>7, <2>1 DEF Fetch, RunTool, Executed, Quiet, stored, world
  <2>4. PICK next \in {"run", "executed", "mark", "over"} :
          pc' = [pc EXCEPT ![c] = next]
    BY <1>7 DEF Fetch, RunTool, Executed, Goto
  <2>5. QED
    BY <1>t, <2>2, <2>3, <2>4, BooksQuiet
<1>8. ASSUME NEW c \in Deciders \union Resumes, MarkExecuted(c)
      PROVE  Books'
  <2>1. \A d \in Calls \ {c} : pc[d] \in {"idle", "over"}
    BY <1>8, Alone DEF MarkExecuted
  <2>2. PICK s \in Requests : s = Subject(c) /\ s = Subject(c)'
    BY <1>8, <1>t DEF MarkExecuted, Subject
  <2>3. pc[c] = "mark" /\ file[s] = "approved" /\ seen[c] = file
    BY <1>8, <1>t, <2>2 DEF MarkExecuted, Current
  <2>4. /\ file' = [file EXCEPT ![s] = "executed"]
        /\ pc' = [pc EXCEPT ![c] = "mirror"]
        /\ UNCHANGED <<ledger, deaths>>
    BY <1>8, <2>2, <2>3 DEF MarkExecuted, WriteEntry, Goto, world
  <2>5. file'[s] = "executed"
    BY <1>t, <2>4 DEF TypeOK
  <2>6. \A d \in Calls : ~Writing(d) /\ ~Writing(d)' /\ pc'[d] # "ledger"
    BY <1>t, <2>1, <2>2, <2>3, <2>4, <2>5 DEF Writing, Rulings, TypeOK
  <2>7. \A a \in Requests : Ruled(file'[a]) = Ruled(file[a])
    <3>1. Ruled("executed") = Ruled("approved")
      BY DEF Ruled, Rulings
    <3>2. \A a \in Requests \ {s} : file'[a] = file[a]
      BY <1>t, <2>4 DEF TypeOK
    <3> QED BY <2>3, <2>5, <3>1, <3>2
  <2>8. QED
    BY <2>4, <2>6, <2>7, BooksClosed
<1>9. ASSUME NEW c \in Calls, Mirror(c)
      PROVE  Books'
  <2>1. \A d \in Calls \ {c} : pc[d] \in {"idle", "over"}
    BY <1>9, Alone DEF Mirror
  <2>2. seen[c] = file /\ pc[c] = "mirror"
    BY <1>9, <1>t DEF Mirror, Current
  <2>3. /\ pc' = [pc EXCEPT ![c] = IF file[Subject(c)] \in Rulings
                                  THEN "ledger" ELSE "over"]
        /\ UNCHANGED <<file, ledger, of, ruling, deaths>>
    BY <1>9, <2>2 DEF Mirror, Goto, world
  <2>4. \A d \in Calls : Subject(d)' = Subject(d)
    BY <2>3 DEF Subject
  <2>5. /\ \A d \in Calls : d # c => pc'[d] = pc[d]
        /\ pc'[c] = IF file[Subject(c)] \in Rulings THEN "ledger" ELSE "over"
    BY <1>t, <2>3 DEF TypeOK
  <2>6. \A d \in Calls : Writing(d)' <=> Writing(d)
    BY <2>1, <2>2, <2>3, <2>4, <2>5 DEF Writing
  <2>7. \A d \in Calls : Owes(d)'
    BY <2>1, <2>2, <2>3, <2>4, <2>5, <2>6 DEF Books, Owes
  <2>8. \A a \in Requests : Owed(a)' <=> Owed(a)
    BY <2>4, <2>6 DEF Owed
  <2>9. QED
    BY <2>3, <2>7, <2>8 DEF Books
<1>10. ASSUME NEW c \in Calls, Die(c)
       PROVE  Books'
  <2>1. deaths' # 0
    BY <1>10, <1>t DEF Die, TypeOK
  <2>2. UNCHANGED <<file, of, ruling>> /\ pc' = [pc EXCEPT ![c] = "over"]
    BY <1>10 DEF Die, stored, Goto
  <2>3. \A d \in Calls : Subject(d)' = Subject(d)
    BY <2>2 DEF Subject
  <2>4. \A d \in Calls : pc'[d] = "over" \/ pc'[d] = pc[d]
    BY <1>t, <2>2 DEF TypeOK
  <2>5. \A d \in Calls : Owes(d)'
    BY <2>2, <2>3, <2>4 DEF Books, Owes, Writing
  <2>6. QED
    BY <2>1, <2>5 DEF Books
<1>11. CASE UNCHANGED vars
  BY <1>11 DEF vars, stored, local, history, world, Books, Owes, Owed, Writing, Subject
<1>12. QED
  BY <1>1, <1>2, <1>3, <1>4, <1>5, <1>6, <1>7, <1>8, <1>9, <1>10, <1>11 DEF Next

(* Whether calls run one at a time is settled at the start.                *)
LEMMA SerialFixed == [Next]_vars => serial' = serial
  BY DEF Next, Request, CreateApproval, Decide, WriteDecision, RecordDecision,
     Resume, Fetch, RunTool, Executed, MarkExecuted, Mirror, Die, world, vars

(* SerialInv holds of serial calls.                                        *)
THEOREM SerialInvariant == Spec => [](serial => SerialInv)
<1>1. (serial => SerialInv) /\ [Next]_vars => (serial => SerialInv)'
  BY SerialNext, SerialFixed
<1>2. QED
  BY SerialInit, <1>1, PTL DEF Spec

(* One call at a time: an action that took effect more often than once was *)
(* paid for, each time, by a death or by a failure reported too late.      *)
THEOREM SerialRerunHasReason == Spec => []RerunHasReason
<1>1. (serial => SerialInv) => RerunHasReason
  BY DEF SerialInv, Paid, RerunHasReason
<1>2. QED
  BY SerialInvariant, <1>1, PTL

(* One call at a time and none dies: once they are over, mission.yaml and  *)
(* the ledger agree with approvals.json.                                   *)
THEOREM SerialCopiesAgree == Spec => []CopiesAgree
<1> DEFINE Inv == serial => SerialInv /\ Books
<1>1. Init => Inv
  BY SerialInit, GateAssumption
  DEF Init, Books, Owes, Owed, Writing, Ruled, Rulings, Calls
<1>2. Inv /\ [Next]_vars => Inv'
  BY SerialNext, BooksNext, SerialFixed
<1>3. Inv => CopiesAgree
  <2>1. SUFFICES ASSUME Inv, serial, deaths = 0, InFlight = {}
                 PROVE  mirror = file /\ \A a \in Requests : ledger[a] = Ruled(file[a])
    BY DEF CopiesAgree
  <2>2. \A c \in Calls : pc[c] \in {"idle", "over"}
    BY <2>1 DEF InFlight
  <2>3. mirror = file
    BY <2>1, <2>2 DEF SerialInv, Copied
  <2>4. \A a \in Requests : ~Owed(a)
    BY <2>2 DEF Owed, Writing
  <2>5. QED
    BY <2>1, <2>3, <2>4 DEF Books
<1>4. QED
  BY <1>1, <1>2, <1>3, PTL DEF Spec

(* Serial calls only move an entry forward.                                *)
LEMMA SerialProgress ==
  ASSUME SerialInv, serial, [Next]_vars, NEW a \in Requests
  PROVE  Progress(file[a], file'[a])
<1> USE DEF SerialInv, GateInv, TypeOK, Current, Unasked, Subject, Calls,
     Progress, Rulings
<1>1. ASSUME NEW r \in Requests, CreateApproval(r)
      PROVE  Progress(file[a], file'[a])
  BY <1>1 DEF CreateApproval, WriteEntry, world
<1>2. ASSUME NEW d \in Deciders, WriteDecision(d)
      PROVE  Progress(file[a], file'[a])
  BY <1>2 DEF WriteDecision, WriteEntry, world
<1>3. ASSUME NEW c \in Deciders \union Resumes, MarkExecuted(c)
      PROVE  Progress(file[a], file'[a])
  BY <1>3 DEF MarkExecuted, WriteEntry, world
<1>4. CASE UNCHANGED file
  BY <1>4
<1>5. QED
  BY <1>1, <1>2, <1>3, <1>4 DEF Next, Request, Decide, RecordDecision, Resume,
     Fetch, RunTool, Executed, Mirror, Die, stored, vars

(* One call at a time: approvals do not vanish, rulings do not change and  *)
(* marks are not taken back, even when calls die halfway.                  *)
THEOREM SerialRulingsStand == Spec => RulingsStand
<1>1. (serial => SerialInv) /\ [Next]_vars
      => [serial => \A a \in Requests : Progress(file[a], file'[a])]_vars
  BY SerialProgress
<1>2. QED
  BY SerialInvariant, <1>1, PTL DEF Spec, RulingsStand
-----------------------------------------------------------------------------
(* An approval that is about to run was disowned whenever it ran before,   *)
(* if no call died.                                                        *)
LEMMA FirstRun ==
  ASSUME SerialInv, serial, deaths = 0,
         NEW c \in Deciders \union Resumes, RunTool(c)
  PROVE  file[Subject(c)] = "approved" /\ ran[Subject(c)] = late[Subject(c)]
<1> USE DEF SerialInv, GateInv, TypeOK, Calls, Subject
<1>1. /\ pc[c] = "run"
      /\ Subject(c) \in Requests
      /\ file[Subject(c)] = "approved"
  BY DEF RunTool, Current
<1>2. ~Performing(Subject(c))
  <2>1. \A d \in Calls \ {c} : pc[d] \in {"idle", "over"}
    BY <1>1, Alone
  <2> QED
    BY <1>1, <2>1 DEF Performing
<1>3. PICK a \in Requests : a = Subject(c)
  BY <1>1
<1>4. ran[a] <= deaths + late[a] /\ late[a] <= ran[a]
  BY <1>1, <1>2, <1>3 DEF Paid
<1>5. ran[a] \in Nat /\ late[a] \in Nat /\ deaths = 0
  BY <1>1
<1>6. ran[a] = late[a]
  <2> HIDE DEF SerialInv, GateInv, TypeOK, Calls, Subject
  <2> QED
    BY <1>4, <1>5, SMT
<1>7. QED
  BY <1>1, <1>3, <1>6

(* A serial step is a step of Consent, or stutters.                        *)
LEMMA StepsAreConsented ==
  ASSUME SerialInv, serial, deaths' = 0, [Next]_vars
  PROVE  [Gate!Next]_(Gate!vars)
<1> USE DEF SerialInv, GateInv, TypeOK, Current, Unasked, Subject, Calls,
     Rulings, Decision, Gate!vars
<1>1. ASSUME NEW r \in Requests, CreateApproval(r)
      PROVE  Gate!Next
  <2>1. file[r] = "absent" /\ seen[r] = file
    BY <1>1 DEF CreateApproval
  <2>2. file' = [file EXCEPT ![r] = "pending"] /\ UNCHANGED <<ran, late>>
    BY <1>1, <2>1 DEF CreateApproval, WriteEntry, history, world
  <2>3. Decision' = [Decision EXCEPT ![r] = "pending"]
    BY <2>1, <2>2
  <2>4. Gate!Ask(r)
    BY <2>1, <2>2, <2>3 DEF Gate!Ask
  <2>5. QED
    BY <2>4 DEF Gate!Next
<1>2. ASSUME NEW d \in Deciders, WriteDecision(d)
      PROVE  Gate!Next
  <2>1. PICK a \in Requests : a = Subject(d)
    OBVIOUS
  <2>2. file[a] = "pending" /\ seen[d] = file
    BY <1>2, <2>1 DEF WriteDecision
  <2>3. /\ file' = [file EXCEPT ![a] = ruling[d]]
        /\ ruling[d] \in Rulings
        /\ UNCHANGED <<ran, late>>
    BY <1>2, <2>1, <2>2 DEF WriteDecision, WriteEntry, world
  <2>4. Decision' = [Decision EXCEPT ![a] = ruling[d]]
    BY <2>2, <2>3
  <2>5. Gate!Rule(a)
    BY <2>2, <2>3, <2>4 DEF Gate!Rule
  <2>6. QED
    BY <2>5 DEF Gate!Next
<1>3. ASSUME NEW c \in Deciders \union Resumes, MarkExecuted(c)
      PROVE  UNCHANGED Gate!vars
  <2>1. file[Subject(c)] = "approved" /\ seen[c] = file /\ Subject(c) \in Requests
    BY <1>3 DEF MarkExecuted
  <2>2. file' = [file EXCEPT ![Subject(c)] = "executed"] /\ UNCHANGED <<ran, late>>
    BY <1>3, <2>1 DEF MarkExecuted, WriteEntry, history, world
  <2>3. Decision' = Decision
    BY <2>1, <2>2
  <2>4. Gate!vars = <<Decision, ran, late>> /\ Gate!vars' = <<Decision', ran', late'>>
    OBVIOUS
  <2>5. QED
    BY <2>2, <2>3, <2>4
<1>4. ASSUME NEW c \in Deciders \union Resumes, RunTool(c)
      PROVE  [Gate!Next]_(Gate!vars)
  <2>0. deaths = 0
    BY <1>4 DEF RunTool, world
  <2>1. file[Subject(c)] = "approved" /\ ran[Subject(c)] = late[Subject(c)] /\ Subject(c) \in Requests
    BY <1>4, <2>0, FirstRun
  <2>2. UNCHANGED file /\ Decision' = Decision
    BY <1>4 DEF RunTool, stored, world
  <2>3. CASE /\ ran' = [ran EXCEPT ![Subject(c)] = @ + 1]
             /\ \/ UNCHANGED late
                \/ late' = [late EXCEPT ![Subject(c)] = @ + 1]
    <3>1. Gate!Perform(Subject(c))
      BY <2>1, <2>2, <2>3 DEF Gate!Perform
    <3>2. QED
      BY <2>1, <3>1 DEF Gate!Next
  <2>4. CASE UNCHANGED <<ran, late>>
    BY <2>2, <2>4
  <2>5. QED
    BY <1>4, <2>3, <2>4 DEF RunTool
<1>5. CASE UNCHANGED <<file, ran, late>>
  BY <1>5
<1>6. QED
  BY <1>1, <1>2, <1>3, <1>4, <1>5 DEF Next, Request, Decide, RecordDecision,
     Resume, Fetch, Executed, Mirror, Die, stored, history, vars

(* One call at a time and none dies: the approval store, the tool runner   *)
(* and their callers keep the promise of Consent.                          *)
THEOREM SerialImplementsConsent ==
  Spec => ImplementsConsent
<1>1. Init => Gate!Init
  BY DEF Init, Gate!Init, Decision
<1>2. (serial => SerialInv) /\ [Next]_vars
      => [serial /\ deaths' = 0 => Gate!Next]_(Gate!vars)
  BY StepsAreConsented
<1>3. QED
  BY SerialInvariant, <1>1, <1>2, PTL DEF Spec, ImplementsConsent
=============================================================================
