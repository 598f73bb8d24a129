-------------------------- MODULE MembershipProofs --------------------------
(***************************************************************************)
(* Proofs about Membership: for any finite number of users and any number  *)
(* of workspaces, overlapping requests and break-offs. What may not        *)
(* overlap is a hypothesis of each theorem.                                *)
(***************************************************************************)
EXTENDS Membership, FiniteSetTheorems, TLAPS

\* Which steps belong to which operation, and what a request has checked.
Shape ==
  \A q \in Request :
    /\ req[q].at \in {"member", "strip", "name"} => req[q].op \in {"create", "add"}
    /\ req[q].at = "row" => req[q].op = "remove"
    /\ req[q].at \in {"anonymize", "account"} => req[q].op = "leave"
    /\ req[q].op = "leave" => req[q].at \in {"anonymize", "account"}
    /\ req[q] # Idle /\ req[q].op # "leave" => req[q].ws \in used

TypeInv == TypeOK /\ Shape

LEMMA IdleFacts ==
  /\ Idle.op = "idle" /\ Idle.at = "idle" /\ Idle.by = None /\ Idle.ws = None
  /\ Idle.who = None /\ Idle.as = "editor"
  BY DEF Idle

LEMMA InitTypeInv == Init => TypeInv
  BY MembershipAssumption DEF Init, TypeInv, TypeOK, Shape, RequestState, Idle, Fact, Role

\* A request that starts.
LEMMA BeginTypes ==
  ASSUME TypeInv, NEW q \in Request, NEW op \in Op, NEW at \in Step, NEW u \in User,
         NEW w \in Workspace \cup {None}, NEW t \in User, NEW r \in Role,
         Begin(q, op, at, u, w, t, r)
  PROVE  /\ req' \in [Request -> RequestState]
         /\ faults' \in 0..MaxFaults
  BY DEF Begin, TypeInv, TypeOK, RequestState

\* A request that goes on or ends.
LEMMA StepTypes ==
  ASSUME TypeInv, NEW q \in Request, req[q] # Idle, NEW at \in Step,
         Proceed(q, at) \/ Finish(q)
  PROVE  /\ req' \in [Request -> RequestState]
         /\ faults' \in 0..MaxFaults
<1>1. CASE Proceed(q, at)
  <2>1. req[q] \in [op: Op, at: Step, by: User, ws: Workspace \cup {None}, who: User, as: Role]
    BY DEF TypeInv, TypeOK, RequestState
  <2>2. [req[q] EXCEPT !.at = at] \in RequestState
    BY <2>1 DEF RequestState
  <2>3. QED
    BY <1>1, <2>2 DEF Proceed, TypeInv, TypeOK
<1>2. CASE Finish(q)
  BY <1>2 DEF Finish, TypeInv, TypeOK, RequestState
<1>3. QED
  BY <1>1, <1>2

\* Only requests in progress take a step, and these belong to known users.
LEMMA AtBusy ==
  ASSUME TypeInv, NEW q \in Request, NEW at \in Step, At(q, at)
  PROVE  /\ req[q] # Idle
         /\ req[q] \in [op: Op, at: Step, by: User, ws: Workspace \cup {None}, who: User, as: Role]
  BY IdleFacts DEF At, Step, TypeInv, TypeOK, RequestState

\* A step of a request on a workspace: the workspace was given out.
LEMMA AtWorkspace ==
  ASSUME TypeInv, NEW q \in Request, NEW at \in Step \ {"anonymize", "account"}, At(q, at)
  PROVE  req[q].ws \in used /\ req[q].ws \in Workspace
<1>1. req[q] # Idle /\ req[q].at = at
  BY AtBusy DEF At
<1>2. req[q].op # "leave"
  BY <1>1 DEF TypeInv, Shape
<1>3. QED
  BY <1>1, <1>2 DEF TypeInv, TypeOK, Shape

LEMMA FinishShape ==
  ASSUME TypeInv, NEW q \in Request, req' = [req EXCEPT ![q] = Idle], used' = used
  PROVE  Shape'
  BY IdleFacts DEF TypeInv, TypeOK, Shape

LEMMA ProceedShape ==
  ASSUME TypeInv, NEW q \in Request, req[q] # Idle, NEW at \in Step, Proceed(q, at), used' = used,
         \/ at \in {"strip", "name"} /\ req[q].op \in {"create", "add"}
         \/ at \in {"tables", "workspace"} /\ req[q].op # "leave"
         \/ at = "account" /\ req[q].op = "leave"
  PROVE  Shape'
<1>1. req[q] \in [op: Op, at: Step, by: User, ws: Workspace \cup {None}, who: User, as: Role]
  BY DEF TypeInv, TypeOK, RequestState
<1>2. /\ req'[q].at = at /\ req'[q].op = req[q].op /\ req'[q].ws = req[q].ws
      /\ \A p \in Request \ {q} : req'[p] = req[p]
  BY <1>1 DEF Proceed, TypeInv, TypeOK
<1>3. SUFFICES ASSUME NEW p \in Request
               PROVE  /\ req'[p].at \in {"member", "strip", "name"} => req'[p].op \in {"create", "add"}
                      /\ req'[p].at = "row" => req'[p].op = "remove"
                      /\ req'[p].at \in {"anonymize", "account"} => req'[p].op = "leave"
                      /\ req'[p].op = "leave" => req'[p].at \in {"anonymize", "account"}
                      /\ req'[p] # Idle /\ req'[p].op # "leave" => req'[p].ws \in used
  BY DEF Shape
<1>4. CASE p = q
  <2>1. req[q].op # "leave" => req[q].ws \in used
    BY DEF TypeInv, Shape
  <2>2. used' = used /\ at \in Step
    OBVIOUS
  <2>3. req'[p] # Idle => req'[p].ws = req[q].ws
    BY <1>2, <1>4
  <2>4. QED
    BY <1>2, <1>4, <2>1, <2>2, <2>3
<1>5. CASE p # q
  BY <1>2, <1>5 DEF TypeInv, Shape
<1>6. QED
  BY <1>4, <1>5

LEMMA RoleUpdate ==
  ASSUME TypeOK, NEW w \in Workspace, NEW u \in User, NEW r \in Role \cup {"none"}
  PROVE  [role EXCEPT ![w][u] = r] \in [Workspace -> [User -> Role \cup {"none"}]]
  BY DEF TypeOK

LEMMA NodeUpdate ==
  ASSUME TypeOK, NEW w \in Workspace, NEW u \in User, NEW s \in SUBSET Fact
  PROVE  /\ [node EXCEPT ![w][u] = node[w][u] \ s] \in [Workspace -> [User -> SUBSET Fact]]
         /\ [node EXCEPT ![w][u] = node[w][u] \cup s] \in [Workspace -> [User -> SUBSET Fact]]
<1>1. node[w][u] \in SUBSET Fact
  BY DEF TypeOK
<1>2. node[w][u] \ s \in SUBSET Fact /\ node[w][u] \cup s \in SUBSET Fact
  BY <1>1
<1>3. QED
  BY <1>2 DEF TypeOK

-----------------------------------------------------------------------------
(* Type correctness.                                                       *)

LEMMA StartTypeInv ==
  ASSUME TypeInv, NEW q \in Request, Start(q)
  PROVE  TypeInv'
<1>1. ASSUME NEW u \in User, NEW w \in Workspace, StartCreate(q, u, w)
      PROVE  TypeInv'
  <2>1. req' \in [Request -> RequestState] /\ faults' \in 0..MaxFaults
    BY <1>1, BeginTypes DEF StartCreate, Op, Step, Role
  <2>2. QED
    BY <1>1, <2>1 DEF StartCreate, Begin, TypeInv, TypeOK, Shape, Idle
<1>2. ASSUME NEW u \in User, NEW w \in Workspace,
             StartDelete(q, u, w) \/ StartUpload(q, u, w) \/ StartCurate(q, u, w)
      PROVE  TypeInv'
  <2>1. req' \in [Request -> RequestState] /\ faults' \in 0..MaxFaults
    BY <1>2, BeginTypes DEF StartDelete, StartUpload, StartCurate, Op, Step, Role
  <2>2. PICK op \in {"delete", "upload", "curate"}, at \in {"graphs", "document", "statement"} :
             Begin(q, op, at, u, w, u, "editor")
    BY <1>2 DEF StartDelete, StartUpload, StartCurate
  <2>3. w \in used /\ UNCHANGED <<account, workspace, used, role, content, node>>
    BY <1>2 DEF StartDelete, StartUpload, StartCurate, Allowed, TypeInv, TypeOK
  <2>4. Shape'
    BY <2>2, <2>3 DEF Begin, TypeInv, TypeOK, Shape
  <2>5. QED
    BY <2>1, <2>3, <2>4 DEF TypeInv, TypeOK
<1>3. ASSUME NEW u \in User, NEW w \in Workspace, NEW t \in User, StartRemove(q, u, w, t)
      PROVE  TypeInv'
  <2>1. req' \in [Request -> RequestState] /\ faults' \in 0..MaxFaults
    BY <1>3, BeginTypes DEF StartRemove, Op, Step, Role
  <2>2. QED
    BY <1>3, <2>1 DEF StartRemove, Begin, Allowed, TypeInv, TypeOK, Shape, Idle
<1>4. ASSUME NEW u \in User, NEW w \in Workspace, NEW t \in User, NEW r \in Role,
             StartAdd(q, u, w, t, r)
      PROVE  TypeInv'
  <2>1. req' \in [Request -> RequestState] /\ faults' \in 0..MaxFaults
    BY <1>4, BeginTypes DEF StartAdd, Op, Step
  <2>2. QED
    BY <1>4, <2>1 DEF StartAdd, Begin, Allowed, TypeInv, TypeOK, Shape, Idle
<1>5. ASSUME NEW u \in User, StartLeave(q, u)
      PROVE  TypeInv'
  <2>1. req' \in [Request -> RequestState] /\ faults' \in 0..MaxFaults
    BY <1>5, BeginTypes DEF StartLeave, Op, Step, Role
  <2>2. QED
    BY <1>5, <2>1 DEF StartLeave, Begin, TypeInv, TypeOK, Shape, Idle
<1>6. QED
  BY <1>1, <1>2, <1>3, <1>4, <1>5 DEF Start

LEMMA ContinueTypeInv ==
  ASSUME TypeInv, NEW q \in Request, Continue(q) \/ BreakOff(q)
  PROVE  TypeInv'
<1>1. ASSUME NEW at \in Step, At(q, at)
      PROVE  req[q] # Idle /\ req[q].at = at /\ req[q].by \in User /\ req[q].who \in User /\ req[q].as \in Role
  BY <1>1, AtBusy DEF At
<1>2. CASE InsertMember(q)
  <2>1. At(q, "member") /\ req[q].op \in {"create", "add"}
    BY <1>2 DEF InsertMember, At, TypeInv, Shape
  <2>2. req' \in [Request -> RequestState] /\ faults' \in 0..MaxFaults
    BY <1>1, <1>2, <2>1, StepTypes DEF InsertMember, Step
  <2>3. role' \in [Workspace -> [User -> Role \cup {"none"}]]
    <3>1. /\ req[q].ws \in Workspace /\ req[q].who \in User
          /\ req[q].as \in Role \cup {"none"} /\ TypeOK
      BY <1>1, <2>1, AtWorkspace DEF Step, TypeInv
    <3>2. CASE role' = [role EXCEPT ![req[q].ws][req[q].who] = req[q].as]
      BY <3>1, <3>2, RoleUpdate
    <3>3. CASE UNCHANGED role
      BY <3>1, <3>3 DEF TypeOK
    <3>4. QED
      BY <1>2, <3>2, <3>3 DEF InsertMember
  <2>4. Shape'
    BY <1>1, <1>2, <2>1, FinishShape, ProceedShape DEF InsertMember, Finish, Step
  <2>5. QED
    BY <1>2, <2>2, <2>3, <2>4 DEF InsertMember, TypeInv, TypeOK
<1>3. CASE Strip(q)
  <2>1. At(q, "strip") /\ req[q].op \in {"create", "add"}
    BY <1>3 DEF Strip, At, TypeInv, Shape
  <2>2. req' \in [Request -> RequestState] /\ faults' \in 0..MaxFaults
    BY <1>1, <1>3, <2>1, StepTypes DEF Strip, Step
  <2>3. node' \in [Workspace -> [User -> SUBSET Fact]]
    <3>1. req[q].ws \in Workspace /\ req[q].who \in User
      BY <1>1, <2>1, AtWorkspace DEF Step
    <3>2. QED
      BY <1>3, <3>1, NodeUpdate DEF Strip, TypeInv, Fact
  <2>4. Shape'
    BY <1>1, <1>3, <2>1, ProceedShape DEF Strip, Step
  <2>5. QED
    BY <1>3, <2>2, <2>3, <2>4 DEF Strip, TypeInv, TypeOK
<1>4. CASE Name(q)
  <2>1. At(q, "name")
    BY <1>4 DEF Name
  <2>2. req' \in [Request -> RequestState] /\ faults' \in 0..MaxFaults
    BY <1>1, <1>4, <2>1, StepTypes DEF Name, Step
  <2>3. node' \in [Workspace -> [User -> SUBSET Fact]]
    <3>1. req[q].ws \in Workspace /\ req[q].who \in User
      BY <1>1, <2>1, AtWorkspace DEF Step
    <3>2. QED
      BY <1>4, <3>1, NodeUpdate DEF Name, TypeInv, Fact
  <2>4. Shape'
    BY <1>4, FinishShape DEF Name, Finish
  <2>5. QED
    BY <1>4, <2>2, <2>3, <2>4 DEF Name, TypeInv, TypeOK
<1>5. CASE WriteStatement(q)
  <2>1. At(q, "statement")
    BY <1>5 DEF WriteStatement
  <2>2. req' \in [Request -> RequestState] /\ faults' \in 0..MaxFaults
    BY <1>1, <1>5, <2>1, StepTypes DEF WriteStatement, Step
  <2>3. node' \in [Workspace -> [User -> SUBSET Fact]]
    <3>1. req[q].ws \in Workspace /\ req[q].by \in User
      BY <1>1, <2>1, AtWorkspace DEF Step
    <3>2. QED
      BY <1>5, <3>1, NodeUpdate DEF WriteStatement, TypeInv, Fact
  <2>4. Shape'
    BY <1>5, FinishShape DEF WriteStatement, Finish
  <2>5. QED
    BY <1>5, <2>2, <2>3, <2>4 DEF WriteStatement, TypeInv, TypeOK
<1>6. CASE DropGraphs(q)
  <2>1. At(q, "graphs") /\ req[q].op # "leave"
    BY <1>6 DEF DropGraphs, At, TypeInv, Shape
  <2>2. req' \in [Request -> RequestState] /\ faults' \in 0..MaxFaults
    BY <1>1, <1>6, <2>1, StepTypes DEF DropGraphs, Step
  <2>3. node' \in [Workspace -> [User -> SUBSET Fact]]
    BY <1>6 DEF DropGraphs, TypeInv, TypeOK
  <2>4. Shape'
    BY <1>1, <1>6, <2>1, ProceedShape DEF DropGraphs, Step
  <2>5. QED
    BY <1>6, <2>2, <2>3, <2>4 DEF DropGraphs, TypeInv, TypeOK
<1>7. CASE Anonymize(q)
  <2>1. At(q, "anonymize") /\ req[q].op = "leave"
    BY <1>7 DEF Anonymize, At, TypeInv, Shape
  <2>2. req' \in [Request -> RequestState] /\ faults' \in 0..MaxFaults
    BY <1>1, <1>7, <2>1, StepTypes DEF Anonymize, Step
  <2>3. \A w \in Workspace : Anonymous(node[w][req[q].by]) \in SUBSET Fact
    BY <1>1, <2>1 DEF Anonymous, TypeInv, TypeOK, Fact, Step
  <2>4. node' \in [Workspace -> [User -> SUBSET Fact]]
    BY <1>7, <2>3 DEF Anonymize, TypeInv, TypeOK
  <2>5. Shape'
    BY <1>1, <1>7, <2>1, ProceedShape DEF Anonymize, Step
  <2>6. QED
    BY <1>7, <2>2, <2>4, <2>5 DEF Anonymize, TypeInv, TypeOK
<1>8. CASE RemoveRow(q)
  <2>1. At(q, "row")
    BY <1>8 DEF RemoveRow
  <2>2. req' \in [Request -> RequestState] /\ faults' \in 0..MaxFaults
    BY <1>1, <1>8, <2>1, StepTypes DEF RemoveRow, Step
  <2>3. role' \in [Workspace -> [User -> Role \cup {"none"}]]
    BY <1>8 DEF RemoveRow, TypeInv, TypeOK
  <2>4. Shape'
    BY <1>8, FinishShape DEF RemoveRow, Finish
  <2>5. QED
    BY <1>8, <2>2, <2>3, <2>4 DEF RemoveRow, TypeInv, TypeOK
<1>9. CASE DeleteWorkspace(q)
  <2>1. At(q, "workspace")
    BY <1>9 DEF DeleteWorkspace
  <2>2. req' \in [Request -> RequestState] /\ faults' \in 0..MaxFaults
    BY <1>1, <1>9, <2>1, StepTypes DEF DeleteWorkspace, Step
  <2>3. role' \in [Workspace -> [User -> Role \cup {"none"}]]
    BY <1>9 DEF DeleteWorkspace, TypeInv, TypeOK
  <2>4. Shape'
    BY <1>9, FinishShape DEF DeleteWorkspace, Finish
  <2>5. QED
    BY <1>9, <2>2, <2>3, <2>4 DEF DeleteWorkspace, TypeInv, TypeOK
<1>10. CASE DeleteAccount(q)
  <2>1. At(q, "account")
    BY <1>10 DEF DeleteAccount
  <2>2. req' \in [Request -> RequestState] /\ faults' \in 0..MaxFaults
    BY <1>1, <1>10, <2>1, StepTypes DEF DeleteAccount, Step
  <2>3. role' \in [Workspace -> [User -> Role \cup {"none"}]]
    BY <1>10 DEF DeleteAccount, TypeInv, TypeOK
  <2>4. Shape'
    BY <1>10, FinishShape DEF DeleteAccount, Finish
  <2>5. QED
    BY <1>10, <2>2, <2>3, <2>4 DEF DeleteAccount, TypeInv, TypeOK
<1>11. CASE InsertDocument(q)
  <2>1. req' \in [Request -> RequestState] /\ faults' \in 0..MaxFaults
    BY <1>1, <1>11, StepTypes DEF InsertDocument, Step
  <2>2. Shape'
    BY <1>11, FinishShape DEF InsertDocument, Finish
  <2>3. QED
    BY <1>11, <2>1, <2>2 DEF InsertDocument, TypeInv, TypeOK
<1>12. CASE DeleteTables(q)
  <2>1. At(q, "tables") /\ req[q].op # "leave"
    BY <1>12 DEF DeleteTables, At, TypeInv, Shape
  <2>2. req' \in [Request -> RequestState] /\ faults' \in 0..MaxFaults
    BY <1>1, <1>12, <2>1, StepTypes DEF DeleteTables, Step
  <2>3. Shape'
    BY <1>1, <1>12, <2>1, ProceedShape DEF DeleteTables, Step
  <2>4. QED
    BY <1>12, <2>2, <2>3 DEF DeleteTables, TypeInv, TypeOK
<1>13. CASE BreakOff(q)
  <2>1. Shape'
    BY <1>13, FinishShape DEF BreakOff
  <2>2. QED
    BY <1>13, <2>1, MembershipAssumption DEF BreakOff, TypeInv, TypeOK, RequestState
<1>14. QED
  BY <1>2, <1>3, <1>4, <1>5, <1>6, <1>7, <1>8, <1>9, <1>10, <1>11, <1>12, <1>13 DEF Continue

LEMMA NextTypeInv == TypeInv /\ [Next]_vars => TypeInv'
<1>1. SUFFICES ASSUME TypeInv, [Next]_vars PROVE TypeInv'
  OBVIOUS
<1>2. CASE UNCHANGED vars
  BY <1>1, <1>2 DEF vars, TypeInv, TypeOK, Shape
<1>3. CASE Next
  <2>1. PICK q \in Request : Start(q) \/ Continue(q) \/ BreakOff(q)
    BY <1>3 DEF Next
  <2>2. QED
    BY <1>1, <2>1, StartTypeInv, ContinueTypeInv
<1>4. QED
  BY <1>1, <1>2, <1>3

\* Every variable keeps its type, whatever overlaps.
THEOREM TypeCorrect == Spec => []TypeOK
<1>1. TypeInv => TypeOK
  BY DEF TypeInv
<1>2. QED
  BY InitTypeInv, NextTypeInv, <1>1, PTL DEF Spec

-----------------------------------------------------------------------------
(* Requests that overlap.                                                  *)

\* What Begin checks stays true: operations kept apart never overlap.
Separate ==
  \A p, q \in Request :
    p # q /\ req[p] # Idle /\ req[q] # Idle => {req[p].op, req[q].op} \notin Apart

LEMMA StartReq ==
  ASSUME TypeInv, NEW q \in Request, Start(q)
  PROVE  \E op \in Op, at \in {"member", "row", "document", "statement", "graphs", "anonymize"},
            u \in User, w \in Workspace \cup {None}, t \in User, r \in Role :
              Begin(q, op, at, u, w, t, r)
  BY DEF Start, StartCreate, StartAdd, StartRemove, StartUpload, StartCurate, StartDelete, StartLeave,
         Op, Role

\* A step that goes on leaves the operation and the person as they are.
LEMMA ContinueReq ==
  ASSUME TypeInv, NEW q \in Request, Continue(q) \/ BreakOff(q)
  PROVE  /\ req[q] # Idle
         /\ \A p \in Request \ {q} : req'[p] = req[p]
         /\ req'[q] # Idle => /\ req'[q].op = req[q].op /\ req'[q].by = req[q].by
                              /\ req'[q].who = req[q].who /\ req'[q].ws = req[q].ws
<1>1. \/ \E at \in Step : At(q, at)
      \/ BreakOff(q)
  BY DEF Continue, InsertMember, Strip, Name, RemoveRow, InsertDocument, WriteStatement, DropGraphs,
         DeleteTables, DeleteWorkspace, Anonymize, DeleteAccount, Step
<1>2. req[q] # Idle
  BY <1>1, AtBusy DEF BreakOff
<1>3. \/ \E at \in Step : Proceed(q, at)
      \/ req' = [req EXCEPT ![q] = Idle]
  BY DEF Continue, BreakOff, InsertMember, Strip, Name, RemoveRow, InsertDocument, WriteStatement,
         DropGraphs, DeleteTables, DeleteWorkspace, Anonymize, DeleteAccount, Step, Finish
<1>4. req[q] \in [op: Op, at: Step, by: User, ws: Workspace \cup {None}, who: User, as: Role]
  BY <1>2 DEF TypeInv, TypeOK, RequestState
<1>5. CASE \E at \in Step : Proceed(q, at)
  <2>1. PICK at \in Step : req' = [req EXCEPT ![q].at = at]
    BY <1>5 DEF Proceed
  <2>2. QED
    BY <1>2, <1>4, <2>1 DEF TypeInv, TypeOK
<1>6. CASE req' = [req EXCEPT ![q] = Idle]
  BY <1>2, <1>6 DEF TypeInv, TypeOK
<1>7. QED
  BY <1>3, <1>5, <1>6

LEMMA SeparateStep ==
  ASSUME TypeInv, Separate, NEW q \in Request, Start(q) \/ Continue(q) \/ BreakOff(q)
  PROVE  Separate'
<1>1. CASE Start(q)
  <2>1. PICK op \in Op, at \in {"member", "row", "document", "statement", "graphs", "anonymize"},
             u \in User, w \in Workspace \cup {None}, t \in User, r \in Role :
               Begin(q, op, at, u, w, t, r)
    BY <1>1, StartReq
  <2>2. /\ \A p \in Busy : {op, req[p].op} \notin Apart
        /\ req'[q].op = op
        /\ \A p \in Request \ {q} : req'[p] = req[p]
    BY <2>1 DEF Begin, TypeInv, TypeOK
  <2>3. QED
    BY <2>2 DEF Separate, Busy, TypeInv, TypeOK
<1>2. CASE Continue(q) \/ BreakOff(q)
  BY <1>2, ContinueReq DEF Separate, TypeInv, TypeOK
<1>3. QED
  BY <1>1, <1>2

\* A request that starts is in its first step, and has written nothing to the
\* graphs, the accounts or the members.
LEMMA StartFrame ==
  ASSUME TypeInv, NEW q \in Request, Start(q)
  PROVE  /\ UNCHANGED <<account, role, node>>
         /\ \A p \in Request \ {q} : req'[p] = req[p]
         /\ req'[q].at \in {"member", "row", "document", "statement", "graphs", "anonymize"}
<1>1. UNCHANGED <<account, role, node>>
  BY DEF Start, StartCreate, StartAdd, StartRemove, StartUpload, StartCurate, StartDelete, StartLeave
<1>2. PICK op \in Op, at \in {"member", "row", "document", "statement", "graphs", "anonymize"},
           u \in User, w \in Workspace \cup {None}, t \in User, r \in Role :
             Begin(q, op, at, u, w, t, r)
  BY StartReq
<1>3. QED
  BY <1>1, <1>2 DEF Begin, TypeInv, TypeOK

-----------------------------------------------------------------------------
(* A deleted account leaves no personal data, provided that deleting an    *)
(* account does not overlap with adding a member or creating a workspace.  *)

TraceInv ==
  /\ NoTraceOfDeletedAccount
  /\ \A w \in Workspace, u \in User : "identity" \in node[w][u] => "type" \in node[w][u]
  /\ \A q \in Request : req[q].at \in {"strip", "name"} => req[q].who \in account
  /\ \A q \in Request : req[q].at = "account" =>
       \A w \in Workspace : "identity" \notin node[w][req[q].by]

LeavingIsApart == {"leave", "add"} \in Apart /\ {"leave", "create"} \in Apart

\* Nobody leaves while another request adds a member.
LEMMA NobodyLeaves ==
  ASSUME LeavingIsApart, TypeInv, Separate, NEW p \in Request, NEW q \in Request,
         req[p].op \in {"create", "add"}, req[q].op = "leave"
  PROVE  FALSE
<1>1. p # q /\ req[p] # Idle /\ req[q] # Idle
  BY IdleFacts
<1>2. {req[p].op, req[q].op} \notin Apart
  BY <1>1 DEF Separate
<1>3. {req[p].op, req[q].op} = {"leave", "add"} \/ {req[p].op, req[q].op} = {"leave", "create"}
  OBVIOUS
<1>4. QED
  BY <1>2, <1>3 DEF LeavingIsApart

\* A step that takes facts away from nodes, or adds types, and finishes or
\* goes on to a step that needs nothing.
LEMMA TraceKept ==
  ASSUME TypeInv, TraceInv, NEW q \in Request, account' = account,
         \A p \in Request \ {q} : req'[p] = req[p],
         \/ req'[q].at \notin {"strip", "name", "account"}
         \/ req'[q].at \in {"strip", "name"} /\ req'[q].who \in account,
         \A w \in Workspace, u \in User :
           "identity" \in node'[w][u] => "identity" \in node[w][u] /\ "type" \in node'[w][u]
  PROVE  TraceInv'
<1>1. NoTraceOfDeletedAccount'
  BY DEF TraceInv, NoTraceOfDeletedAccount
<1>2. \A p \in Request : req'[p].at \in {"strip", "name"} => req'[p].who \in account
  BY DEF TraceInv
<1>3. \A p \in Request : req'[p].at = "account" =>
        \A w \in Workspace : "identity" \notin node'[w][req'[p].by]
  <2>1. SUFFICES ASSUME NEW p \in Request, req'[p].at = "account", NEW w \in Workspace
                 PROVE  "identity" \notin node'[w][req'[p].by]
    OBVIOUS
  <2>2. p # q /\ req'[p] = req[p]
    BY <2>1
  <2>3. At(p, "account")
    BY <2>1, <2>2 DEF At
  <2>4. req[p].by \in User
    BY <2>3, AtBusy DEF Step
  <2>5. QED
    BY <2>1, <2>2, <2>4 DEF TraceInv
<1>4. QED
  BY <1>1, <1>2, <1>3 DEF TraceInv

LEMMA AnonymousFacts ==
  ASSUME NEW s, "identity" \in s => "type" \in s
  PROVE  "identity" \notin Anonymous(s)
<1>1. CASE "type" \in s
  BY <1>1 DEF Anonymous
<1>2. CASE "type" \notin s
  BY <1>2 DEF Anonymous
<1>3. QED
  BY <1>1, <1>2

LEMMA TraceStep ==
  ASSUME LeavingIsApart, TypeInv, Separate, TraceInv, NEW q \in Request,
         Start(q) \/ Continue(q) \/ BreakOff(q)
  PROVE  TraceInv'
<1>1. CASE Start(q)
  BY <1>1, StartFrame, TraceKept DEF TraceInv
<1>2. CASE InsertMember(q)
  <2>1. \A p \in Request \ {q} : req'[p] = req[p]
    BY <1>2, ContinueReq DEF Continue
  <2>2. \/ req'[q].at \notin {"strip", "name", "account"}
        \/ req'[q].at \in {"strip", "name"} /\ req'[q].who \in account
    <3>1. req[q] \in [op: Op, at: Step, by: User, ws: Workspace \cup {None}, who: User, as: Role]
      BY <1>2, AtBusy DEF InsertMember, Step
    <3>2. CASE Finish(q)
      BY <3>2, IdleFacts DEF Finish, TypeInv, TypeOK
    <3>3. CASE Proceed(q, "strip") /\ req[q].who \in account
      BY <3>1, <3>3 DEF Proceed, TypeInv, TypeOK
    <3>4. QED
      BY <1>2, <3>2, <3>3 DEF InsertMember
  <2>3. UNCHANGED <<account, node>>
    BY <1>2 DEF InsertMember
  <2>4. QED
    BY <2>1, <2>2, <2>3, TraceKept DEF TraceInv
<1>3. CASE Strip(q)
  <2>1. \A p \in Request \ {q} : req'[p] = req[p]
    BY <1>3, ContinueReq DEF Continue
  <2>2. req'[q].at = "name" /\ req'[q].who \in account
    <3>1. req[q] \in [op: Op, at: Step, by: User, ws: Workspace \cup {None}, who: User, as: Role]
      BY <1>3, AtBusy DEF Strip, Step
    <3>2. req[q].who \in account
      BY <1>3 DEF Strip, At, TraceInv
    <3>3. QED
      BY <1>3, <3>1, <3>2 DEF Strip, Proceed, TypeInv, TypeOK
  <2>3. \A w \in Workspace, u \in User : "identity" \in node'[w][u] =>
          "identity" \in node[w][u] /\ "type" \in node'[w][u]
    <3>1. req[q].ws \in Workspace /\ req[q].who \in User
      BY <1>3, AtWorkspace, AtBusy DEF Strip, Step
    <3>2. \A w \in Workspace, u \in User :
            node'[w][u] = node[w][u] \/ node'[w][u] = node[w][u] \ {"identity"}
      BY <1>3, <3>1 DEF Strip, TypeInv, TypeOK
    <3>3. QED
      BY <3>2 DEF TraceInv
  <2>4. account' = account
    BY <1>3 DEF Strip
  <2>5. QED
    BY <2>1, <2>2, <2>3, <2>4, TraceKept
<1>4. CASE Name(q)
  <2>1. \A p \in Request \ {q} : req'[p] = req[p]
    BY <1>4, ContinueReq DEF Continue
  <2>2. req'[q] = Idle /\ account' = account
    BY <1>4 DEF Name, Finish, TypeInv, TypeOK
  <2>3. req[q].op \in {"create", "add"} /\ req[q].who \in account
    BY <1>4 DEF Name, At, TypeInv, Shape, TraceInv
  <2>4. \A p \in Request : req[p].at # "account"
    BY <2>3, NobodyLeaves DEF TypeInv, Shape
  <2>5. req[q].ws \in Workspace /\ req[q].who \in User
    BY <1>4, AtWorkspace, AtBusy DEF Name, Step
  <2>6. \A w \in Workspace, u \in User :
          \/ node'[w][u] = node[w][u]
          \/ u = req[q].who /\ node'[w][u] = node[w][u] \cup {"type", "identity"}
    BY <1>4, <2>5 DEF Name, TypeInv, TypeOK
  <2>7. NoTraceOfDeletedAccount'
    BY <2>2, <2>3, <2>6 DEF NoTraceOfDeletedAccount, TraceInv
  <2>8. \A w \in Workspace, u \in User : "identity" \in node'[w][u] => "type" \in node'[w][u]
    BY <2>6 DEF TraceInv
  <2>9. \A p \in Request : req'[p].at # "account"
    BY <2>1, <2>2, <2>4, IdleFacts
  <2>10. \A p \in Request : req'[p].at \in {"strip", "name"} => req'[p].who \in account
    BY <2>1, <2>2, IdleFacts DEF TraceInv
  <2>11. QED
    BY <2>2, <2>7, <2>8, <2>9, <2>10 DEF TraceInv
<1>5. CASE WriteStatement(q)
  <2>1. \A p \in Request \ {q} : req'[p] = req[p]
    BY <1>5, ContinueReq DEF Continue
  <2>2. req'[q] = Idle /\ account' = account
    BY <1>5 DEF WriteStatement, Finish, TypeInv, TypeOK
  <2>3. req[q].ws \in Workspace /\ req[q].by \in User
    BY <1>5, AtWorkspace, AtBusy DEF WriteStatement, Step
  <2>4. \A w \in Workspace, u \in User :
          node'[w][u] = node[w][u] \/ node'[w][u] = node[w][u] \cup {"type"}
    BY <1>5, <2>3 DEF WriteStatement, TypeInv, TypeOK
  <2>5. \A w \in Workspace, u \in User : "identity" \in node'[w][u] =>
          "identity" \in node[w][u] /\ "type" \in node'[w][u]
    BY <2>4 DEF TraceInv
  <2>6. QED
    BY <2>1, <2>2, <2>5, IdleFacts, TraceKept
<1>6. CASE DropGraphs(q)
  <2>1. \A p \in Request \ {q} : req'[p] = req[p]
    BY <1>6, ContinueReq DEF Continue
  <2>2. req'[q].at = "tables" /\ account' = account
    <3>1. req[q] \in [op: Op, at: Step, by: User, ws: Workspace \cup {None}, who: User, as: Role]
      BY <1>6, AtBusy DEF DropGraphs, Step
    <3>2. QED
      BY <1>6, <3>1 DEF DropGraphs, Proceed, TypeInv, TypeOK
  <2>3. \A w \in Workspace, u \in User : node'[w][u] = node[w][u] \/ node'[w][u] = {}
    BY <1>6 DEF DropGraphs, TypeInv, TypeOK
  <2>4. \A w \in Workspace, u \in User : "identity" \in node'[w][u] =>
          "identity" \in node[w][u] /\ "type" \in node'[w][u]
    BY <2>3 DEF TraceInv
  <2>5. QED
    BY <2>1, <2>2, <2>4, TraceKept
<1>7. CASE Anonymize(q)
  <2>1. \A p \in Request \ {q} : req'[p] = req[p]
    BY <1>7, ContinueReq DEF Continue
  <2>2. req[q] \in [op: Op, at: Step, by: User, ws: Workspace \cup {None}, who: User, as: Role]
    BY <1>7, AtBusy DEF Anonymize, Step
  <2>3. req'[q].at = "account" /\ req'[q].by = req[q].by /\ account' = account
    BY <1>7, <2>2 DEF Anonymize, Proceed, TypeInv, TypeOK
  <2>4. \A w \in Workspace, u \in User :
          \/ u # req[q].by /\ node'[w][u] = node[w][u]
          \/ u = req[q].by /\ node'[w][u] = Anonymous(node[w][u])
    BY <1>7, <2>2 DEF Anonymize, TypeInv, TypeOK
  <2>5. \A w \in Workspace : "identity" \notin node'[w][req[q].by]
    <3>1. SUFFICES ASSUME NEW w \in Workspace PROVE "identity" \notin node'[w][req[q].by]
      OBVIOUS
    <3>2. "identity" \in node[w][req[q].by] => "type" \in node[w][req[q].by]
      BY <2>2 DEF TraceInv
    <3>3. "identity" \notin Anonymous(node[w][req[q].by])
      BY <3>2, AnonymousFacts
    <3>4. QED
      BY <2>2, <2>4, <3>3
  <2>6. \A w \in Workspace, u \in User : "identity" \in node'[w][u] =>
          "identity" \in node[w][u] /\ "type" \in node'[w][u]
    BY <2>2, <2>4, <2>5 DEF TraceInv
  <2>7. \A p \in Request : req'[p].at = "account" => req'[p].by \in User
    <3>1. SUFFICES ASSUME NEW p \in Request, req'[p].at = "account" PROVE req'[p].by \in User
      OBVIOUS
    <3>2. CASE p = q
      BY <2>2, <2>3, <3>2
    <3>3. CASE p # q
      BY <2>1, <3>1, <3>3, AtBusy DEF At, Step
    <3>4. QED
      BY <3>2, <3>3
  <2>8. \A p \in Request : req'[p].at = "account" =>
          \A w \in Workspace : "identity" \notin node'[w][req'[p].by]
    BY <2>1, <2>3, <2>5, <2>6, <2>7 DEF TraceInv
  <2>9. \A p \in Request : req'[p].at \in {"strip", "name"} => req'[p].who \in account
    BY <2>1, <2>3 DEF TraceInv
  <2>10. NoTraceOfDeletedAccount'
    BY <2>3, <2>6 DEF TraceInv, NoTraceOfDeletedAccount
  <2>11. QED
    BY <2>3, <2>6, <2>8, <2>9, <2>10 DEF TraceInv
<1>8. CASE DeleteAccount(q)
  <2>1. \A p \in Request \ {q} : req'[p] = req[p]
    BY <1>8, ContinueReq DEF Continue
  <2>2. req'[q] = Idle /\ account' = account \ {req[q].by} /\ node' = node
    BY <1>8 DEF DeleteAccount, Finish, TypeInv, TypeOK
  <2>3. req[q].op = "leave"
    BY <1>8 DEF DeleteAccount, At, TypeInv, Shape
  <2>4. \A p \in Request : req[p].at \notin {"strip", "name"}
    BY <2>3, NobodyLeaves DEF TypeInv, Shape
  <2>5. \A w \in Workspace : "identity" \notin node[w][req[q].by]
    BY <1>8 DEF DeleteAccount, At, TraceInv
  <2>6. NoTraceOfDeletedAccount'
    BY <2>2, <2>5 DEF TraceInv, NoTraceOfDeletedAccount
  <2>7. \A p \in Request : req'[p].at \notin {"strip", "name"}
    BY <2>1, <2>2, <2>4, IdleFacts
  <2>8. \A p \in Request : req'[p].at = "account" =>
          \A w \in Workspace : "identity" \notin node'[w][req'[p].by]
    BY <2>1, <2>2, IdleFacts DEF TraceInv
  <2>9. QED
    BY <2>2, <2>6, <2>7, <2>8 DEF TraceInv
<1>9. CASE RemoveRow(q) \/ InsertDocument(q) \/ DeleteWorkspace(q) \/ BreakOff(q)
  <2>1. \A p \in Request \ {q} : req'[p] = req[p]
    BY <1>9, ContinueReq DEF Continue
  <2>2. req' = [req EXCEPT ![q] = Idle]
    BY <1>9 DEF RemoveRow, InsertDocument, DeleteWorkspace, BreakOff, Finish
  <2>3. req'[q].at = "idle" /\ UNCHANGED <<account, node>>
    BY <1>9, <2>2, IdleFacts
       DEF RemoveRow, InsertDocument, DeleteWorkspace, BreakOff, TypeInv, TypeOK
  <2>4. \A w \in Workspace, u \in User : "identity" \in node'[w][u] =>
          "identity" \in node[w][u] /\ "type" \in node'[w][u]
    BY <2>3 DEF TraceInv
  <2>5. QED
    BY <2>1, <2>3, <2>4, TraceKept
<1>10. CASE DeleteTables(q)
  <2>1. \A p \in Request \ {q} : req'[p] = req[p]
    BY <1>10, ContinueReq DEF Continue
  <2>2. req[q] \in [op: Op, at: Step, by: User, ws: Workspace \cup {None}, who: User, as: Role]
    BY <1>10, AtBusy DEF DeleteTables, Step
  <2>3. req'[q].at = "workspace" /\ UNCHANGED <<account, node>>
    BY <1>10, <2>2 DEF DeleteTables, Proceed, TypeInv, TypeOK
  <2>4. QED
    BY <2>1, <2>3, TraceKept DEF TraceInv
<1>11. QED
  BY <1>1, <1>2, <1>3, <1>4, <1>5, <1>6, <1>7, <1>8, <1>9, <1>10 DEF Continue

SepInv == TypeInv /\ Separate

LEMMA InitSepInv == Init => SepInv
  BY InitTypeInv DEF Init, SepInv, Separate

LEMMA NextSepInv == SepInv /\ [Next]_vars => SepInv'
<1>1. SUFFICES ASSUME SepInv, [Next]_vars PROVE SepInv'
  OBVIOUS
<1>2. TypeInv /\ TypeInv' /\ Separate
  BY <1>1, NextTypeInv DEF SepInv
<1>3. CASE UNCHANGED vars
  BY <1>2, <1>3 DEF SepInv, Separate, vars
<1>4. CASE Next
  <2>1. PICK q \in Request : Start(q) \/ Continue(q) \/ BreakOff(q)
    BY <1>4 DEF Next
  <2>2. Separate'
    BY <1>2, <2>1, SeparateStep
  <2>3. QED
    BY <1>2, <2>2 DEF SepInv
<1>5. QED
  BY <1>1, <1>3, <1>4

\* No graph keeps the name or e-mail of a deleted account (delete_me), if no
\* member is added and no workspace created while an account is deleted.
THEOREM DeletedAccountsAreAnonymous ==
  ASSUME LeavingIsApart
  PROVE  Spec => []NoTraceOfDeletedAccount
<1>1. Init => TraceInv
  BY IdleFacts DEF Init, TraceInv, NoTraceOfDeletedAccount
<1>2. SepInv /\ TraceInv /\ [Next]_vars => TraceInv'
  <2>1. SUFFICES ASSUME SepInv, TraceInv, [Next]_vars PROVE TraceInv'
    OBVIOUS
  <2>2. CASE UNCHANGED vars
    BY <2>1, <2>2 DEF TraceInv, NoTraceOfDeletedAccount, vars
  <2>3. CASE Next
    <3>1. PICK q \in Request : Start(q) \/ Continue(q) \/ BreakOff(q)
      BY <2>3 DEF Next
    <3>2. QED
      BY <2>1, <3>1, TraceStep DEF SepInv
  <2>4. QED
    BY <2>1, <2>2, <2>3
<1>3. TraceInv => NoTraceOfDeletedAccount
  BY DEF TraceInv
<1>4. QED
  BY InitSepInv, NextSepInv, <1>1, <1>2, <1>3, PTL DEF Spec

-----------------------------------------------------------------------------
(* A workspace keeps an owner, provided that removing a member overlaps    *)
(* neither with another removal nor with the deletion of an account.       *)

RemovingIsApart == {"remove"} \in Apart /\ {"remove", "leave"} \in Apart

\* Roles belong to accounts and workspaces that exist, and what a removal has
\* counted stays true until it writes.
OwnerInv ==
  /\ \A w \in Workspace, u \in User : role[w][u] # "none" => u \in account /\ w \in workspace
  /\ \A q \in Request : req[q].at = "row" =>
       /\ req[q].ws \in workspace => role[req[q].ws][req[q].who] # "none"
       /\ role[req[q].ws][req[q].who] = "owner" =>
            \E v \in User \ {req[q].who} : role[req[q].ws][v] = "owner"

LEMMA AnotherOwner ==
  ASSUME TypeInv, NEW w \in Workspace, NEW t \in User, role[w][t] = "owner",
         Cardinality(Owners(w)) > 1
  PROVE  \E v \in User \ {t} : role[w][v] = "owner"
<1>1. Owners(w) \subseteq User /\ t \in Owners(w)
  BY DEF Owners
<1>2. IsFiniteSet(Owners(w))
  BY <1>1, FS_Subset, MembershipAssumption
<1>3. IsFiniteSet(Owners(w) \ {t}) /\ Cardinality(Owners(w) \ {t}) = Cardinality(Owners(w)) - 1
  BY <1>1, <1>2, FS_RemoveElement
<1>4. Cardinality(Owners(w)) \in Nat
  BY <1>2, FS_CardinalityType
<1>5. Owners(w) \ {t} # {}
  BY <1>3, <1>4, FS_EmptySet
<1>6. QED
  BY <1>5 DEF Owners

\* While a removal is about to write, no other removal and no leaver acts.
LEMMA NobodyElseRemoves ==
  ASSUME RemovingIsApart, TypeInv, Separate, NEW p \in Request, NEW q \in Request, p # q,
         req[p].at = "row", req[q].op \in {"remove", "leave"}
  PROVE  FALSE
<1>1. req[p].op = "remove" /\ req[p] # Idle /\ req[q] # Idle
  BY IdleFacts DEF TypeInv, Shape
<1>2. {req[p].op, req[q].op} \notin Apart
  BY <1>1 DEF Separate
<1>3. {req[p].op, req[q].op} = {"remove"} \/ {req[p].op, req[q].op} = {"remove", "leave"}
  BY <1>1
<1>4. QED
  BY <1>2, <1>3 DEF RemovingIsApart

LEMMA RowTypes ==
  ASSUME TypeInv, NEW p \in Request, req[p].at = "row"
  PROVE  req[p].ws \in Workspace /\ req[p].ws \in used /\ req[p].who \in User
  BY AtWorkspace, AtBusy DEF At, Step

\* Steps that leave the roles alone.
LEMMA OwnerKept ==
  ASSUME TypeInv, OwnerInv, NEW q \in Request, role' = role, account' = account,
         workspace \subseteq workspace', workspace' \cap used = workspace,
         \A p \in Request \ {q} : req'[p] = req[p], req'[q].at # "row"
  PROVE  OwnerInv'
<1>1. \A w \in Workspace, u \in User : role'[w][u] # "none" => u \in account' /\ w \in workspace'
  BY DEF OwnerInv
<1>2. SUFFICES ASSUME NEW p \in Request, req'[p].at = "row"
               PROVE  /\ req'[p].ws \in workspace' => role'[req'[p].ws][req'[p].who] # "none"
                      /\ role'[req'[p].ws][req'[p].who] = "owner" =>
                           \E v \in User \ {req'[p].who} : role'[req'[p].ws][v] = "owner"
  BY <1>1 DEF OwnerInv
<1>3. p # q /\ req'[p] = req[p]
  BY <1>2
<1>4. req[p].ws \in used
  BY <1>2, <1>3, RowTypes
<1>5. QED
  BY <1>2, <1>3, <1>4 DEF OwnerInv

LEMMA OwnerStep ==
  ASSUME RemovingIsApart, TypeInv, Separate, OwnerInv, NEW q \in Request,
         Start(q) \/ Continue(q) \/ BreakOff(q)
  PROVE  OwnerInv'
<1>1. ASSUME NEW u \in User, NEW w \in Workspace, NEW t \in User, StartRemove(q, u, w, t)
      PROVE  OwnerInv'
  <2>1. /\ UNCHANGED <<account, workspace, used, role>>
        /\ req'[q].at = "row" /\ req'[q].ws = w /\ req'[q].who = t
        /\ \A p \in Request \ {q} : req'[p] = req[p]
    BY <1>1 DEF StartRemove, Begin, TypeInv, TypeOK
  <2>2. role[w][t] # "none"
    BY <1>1 DEF StartRemove, MayRemove
  <2>3. role[w][t] = "owner" => \E v \in User \ {t} : role[w][v] = "owner"
    BY <1>1, AnotherOwner DEF StartRemove, MayRemove
  <2>4. QED
    BY <2>1, <2>2, <2>3 DEF OwnerInv
<1>2. CASE /\ Start(q)
           /\ ~ \E u \in User, w \in Workspace, t \in User : StartRemove(q, u, w, t)
  <2>1. UNCHANGED <<account, role>> /\ \A p \in Request \ {q} : req'[p] = req[p]
    BY <1>2, StartFrame
  <2>2. workspace \subseteq workspace' /\ workspace' \cap used = workspace
    BY <1>2 DEF Start, StartCreate, StartAdd, StartUpload, StartCurate, StartDelete, StartLeave,
       TypeInv, TypeOK
  <2>3. req'[q].at # "row"
    BY <1>2 DEF Start, StartCreate, StartAdd, StartUpload, StartCurate, StartDelete, StartLeave,
       Begin, TypeInv, TypeOK
  <2>4. QED
    BY <2>1, <2>2, <2>3, OwnerKept
<1>3. CASE \/ Strip(q) \/ Name(q) \/ InsertDocument(q) \/ WriteStatement(q) \/ DropGraphs(q)
           \/ DeleteTables(q) \/ Anonymize(q) \/ BreakOff(q)
  <2>1. \A p \in Request \ {q} : req'[p] = req[p]
    BY <1>3, ContinueReq DEF Continue
  <2>2. UNCHANGED <<account, role, workspace>>
    BY <1>3 DEF Strip, Name, InsertDocument, WriteStatement, DropGraphs, DeleteTables, Anonymize, BreakOff
  <2>3. req'[q].at # "row"
    <3>1. req[q] # Idle
      BY <1>3, ContinueReq DEF Continue
    <3>2. req[q] \in [op: Op, at: Step, by: User, ws: Workspace \cup {None}, who: User, as: Role]
      BY <3>1 DEF TypeInv, TypeOK, RequestState
    <3>3. \/ req' = [req EXCEPT ![q] = Idle]
          \/ \E at \in {"name", "tables", "workspace", "account"} : req' = [req EXCEPT ![q].at = at]
      BY <1>3 DEF Strip, Name, InsertDocument, WriteStatement, DropGraphs, DeleteTables, Anonymize,
         BreakOff, Finish, Proceed
    <3>4. QED
      BY <3>2, <3>3, IdleFacts DEF TypeInv, TypeOK
  <2>4. QED
    BY <2>1, <2>2, <2>3, OwnerKept DEF TypeInv, TypeOK
<1>4. CASE InsertMember(q)
  <2>1. \A p \in Request \ {q} : req'[p] = req[p]
    BY <1>4, ContinueReq DEF Continue
  <2>2. req[q] \in [op: Op, at: Step, by: User, ws: Workspace \cup {None}, who: User, as: Role]
    BY <1>4, AtBusy DEF InsertMember, Step
  <2>3. req'[q].at # "row"
    BY <1>4, <2>2, IdleFacts DEF InsertMember, Finish, Proceed, TypeInv, TypeOK
  <2>4. UNCHANGED <<account, workspace, used>>
    BY <1>4 DEF InsertMember
  <2>5. CASE UNCHANGED role
    BY <2>1, <2>3, <2>4, <2>5, OwnerKept DEF TypeInv, TypeOK
  <2>6. CASE /\ req[q].ws \in workspace /\ req[q].who \in account
             /\ role[req[q].ws][req[q].who] = "none"
             /\ role' = [role EXCEPT ![req[q].ws][req[q].who] = req[q].as]
    <3>1. req[q].ws \in Workspace /\ req[q].who \in User
      BY <2>2, <2>6 DEF TypeInv, TypeOK
    <3>2. /\ role'[req[q].ws][req[q].who] = req[q].as
          /\ \A w \in Workspace, u \in User :
               w # req[q].ws \/ u # req[q].who => role'[w][u] = role[w][u]
      BY <2>6, <3>1 DEF TypeInv, TypeOK
    <3>3. \A w \in Workspace, u \in User : role'[w][u] # "none" => u \in account' /\ w \in workspace'
      BY <2>4, <2>6, <3>2 DEF OwnerInv
    <3>4. ASSUME NEW p \in Request, req'[p].at = "row"
          PROVE  /\ req'[p].ws \in workspace' => role'[req'[p].ws][req'[p].who] # "none"
                 /\ role'[req'[p].ws][req'[p].who] = "owner" =>
                      \E v \in User \ {req'[p].who} : role'[req'[p].ws][v] = "owner"
      <4>1. p # q /\ req'[p] = req[p] /\ req[p].at = "row"
        BY <2>1, <2>3, <3>4
      <4>2. req[p].ws \in Workspace /\ req[p].who \in User
        BY <4>1, RowTypes
      <4>3. req[p].ws # req[q].ws \/ req[p].who # req[q].who
        BY <2>6, <4>1 DEF OwnerInv
      <4>4. role'[req[p].ws][req[p].who] = role[req[p].ws][req[p].who]
        BY <3>2, <4>2, <4>3
      <4>5. \A v \in User : role[req[p].ws][v] = "owner" => role'[req[p].ws][v] = "owner"
        BY <2>6, <3>2, <4>2
      <4>6. QED
        BY <2>4, <4>1, <4>4, <4>5 DEF OwnerInv
    <3>5. QED
      BY <3>3, <3>4 DEF OwnerInv
  <2>7. QED
    BY <1>4, <2>5, <2>6 DEF InsertMember
<1>5. CASE RemoveRow(q) \/ DeleteAccount(q)
  <2>1. \A p \in Request \ {q} : req'[p] = req[p]
    BY <1>5, ContinueReq DEF Continue
  <2>2. req[q].op \in {"remove", "leave"}
    BY <1>5 DEF RemoveRow, DeleteAccount, At, TypeInv, Shape
  <2>3. \A p \in Request \ {q} : req[p].at # "row"
    BY <2>2, NobodyElseRemoves
  <2>4. req'[q] = Idle
    BY <1>5 DEF RemoveRow, DeleteAccount, Finish, TypeInv, TypeOK
  <2>5. \A p \in Request : req'[p].at # "row"
    BY <2>1, <2>3, <2>4, IdleFacts
  <2>6. \A w \in Workspace, u \in User : role'[w][u] # "none" => u \in account' /\ w \in workspace'
    <3>1. CASE RemoveRow(q)
      <4>1. req[q].ws \in Workspace /\ req[q].who \in User
        BY <3>1, RowTypes DEF RemoveRow, At
      <4>2. QED
        BY <3>1, <4>1 DEF RemoveRow, OwnerInv, TypeInv, TypeOK
    <3>2. CASE DeleteAccount(q)
      <4>1. req[q].by \in User
        BY <3>2, AtBusy DEF DeleteAccount, Step
      <4>2. \A w \in Workspace, u \in User :
              role'[w][u] = IF u = req[q].by THEN "none" ELSE role[w][u]
        BY <3>2, <4>1 DEF DeleteAccount, TypeInv, TypeOK
      <4>3. QED
        BY <3>2, <4>2 DEF DeleteAccount, OwnerInv
    <3>3. QED
      BY <1>5, <3>1, <3>2
  <2>7. QED
    BY <2>5, <2>6 DEF OwnerInv
<1>6. CASE DeleteWorkspace(q)
  <2>1. \A p \in Request \ {q} : req'[p] = req[p]
    BY <1>6, ContinueReq DEF Continue
  <2>2. req'[q].at # "row" /\ UNCHANGED <<account, used>>
    BY <1>6, IdleFacts DEF DeleteWorkspace, Finish, TypeInv, TypeOK
  <2>3. CASE UNCHANGED <<workspace, role>>
    BY <2>1, <2>2, <2>3, OwnerKept DEF TypeInv, TypeOK
  <2>4. CASE /\ workspace' = workspace \ {req[q].ws}
             /\ role' = [role EXCEPT ![req[q].ws] = [u \in User |-> "none"]]
    <3>1. \A w \in Workspace, u \in User :
            role'[w][u] = IF w = req[q].ws THEN "none" ELSE role[w][u]
      BY <2>4 DEF TypeInv, TypeOK
    <3>2. \A w \in Workspace, u \in User : role'[w][u] # "none" => u \in account' /\ w \in workspace'
      BY <2>2, <2>4, <3>1 DEF OwnerInv
    <3>3. ASSUME NEW p \in Request, req'[p].at = "row"
          PROVE  /\ req'[p].ws \in workspace' => role'[req'[p].ws][req'[p].who] # "none"
                 /\ role'[req'[p].ws][req'[p].who] = "owner" =>
                      \E v \in User \ {req'[p].who} : role'[req'[p].ws][v] = "owner"
      <4>1. req'[p] = req[p] /\ req[p].at = "row"
        BY <2>1, <2>2, <3>3
      <4>2. req[p].ws \in Workspace /\ req[p].who \in User
        BY <4>1, RowTypes
      <4>3. QED
        BY <2>4, <3>1, <4>1, <4>2 DEF OwnerInv
    <3>4. QED
      BY <3>2, <3>3 DEF OwnerInv
  <2>5. QED
    BY <1>6, <2>3, <2>4 DEF DeleteWorkspace
<1>7. QED
  BY <1>1, <1>2, <1>3, <1>4, <1>5, <1>6 DEF Continue

\* What a step does to the owners.
OwnersStay ==
  \A w \in workspace \cap workspace' :
    Owners(w) # {} /\ account' = account => Owners(w)' # {}

LEMMA OwnersStayStep ==
  ASSUME TypeInv, OwnerInv, NEW q \in Request, Start(q) \/ Continue(q) \/ BreakOff(q)
  PROVE  OwnersStay
<1>1. SUFFICES ASSUME NEW w \in workspace \cap workspace', account' = account,
                      NEW u \in User, role[w][u] = "owner"
               PROVE  \E v \in User : role'[w][v] = "owner"
  BY DEF OwnersStay, Owners
<1>2. w \in Workspace
  BY <1>1 DEF TypeInv, TypeOK
<1>3. CASE \/ Start(q) \/ Strip(q) \/ Name(q) \/ InsertDocument(q) \/ WriteStatement(q) \/ DropGraphs(q)
           \/ DeleteTables(q) \/ Anonymize(q) \/ BreakOff(q)
  <2>1. role' = role
    BY <1>3, StartFrame DEF Strip, Name, InsertDocument, WriteStatement, DropGraphs, DeleteTables,
       Anonymize, BreakOff
  <2>2. QED
    BY <1>1, <2>1
<1>4. CASE InsertMember(q)
  <2>1. \A v \in User : role[w][v] = "owner" => role'[w][v] = "owner"
    BY <1>2, <1>4 DEF InsertMember, TypeInv, TypeOK
  <2>2. QED
    BY <1>1, <2>1
<1>5. CASE RemoveRow(q)
  <2>1. req[q].at = "row" /\ req[q].ws \in Workspace /\ req[q].who \in User
    BY <1>5, RowTypes DEF RemoveRow, At
  <2>2. /\ role'[req[q].ws][req[q].who] = "none"
        /\ \A x \in Workspace, v \in User :
             x # req[q].ws \/ v # req[q].who => role'[x][v] = role[x][v]
    BY <1>5, <2>1 DEF RemoveRow, TypeInv, TypeOK
  <2>3. CASE w = req[q].ws /\ u = req[q].who
    <3>1. PICK v \in User \ {req[q].who} : role[req[q].ws][v] = "owner"
      BY <1>1, <2>1, <2>3 DEF OwnerInv
    <3>2. QED
      BY <1>2, <2>2, <2>3, <3>1
  <2>4. CASE ~ (w = req[q].ws /\ u = req[q].who)
    BY <1>1, <1>2, <2>2, <2>4
  <2>5. QED
    BY <2>3, <2>4
<1>6. CASE DeleteWorkspace(q)
  <2>1. role'[w] = role[w]
    BY <1>1, <1>2, <1>6 DEF DeleteWorkspace, TypeInv, TypeOK
  <2>2. QED
    BY <1>1, <2>1
<1>7. CASE DeleteAccount(q)
  <2>1. req[q].by \in User /\ req[q].by \notin account
    BY <1>1, <1>7, AtBusy DEF DeleteAccount, Step
  <2>2. u # req[q].by
    BY <1>1, <1>2, <2>1 DEF OwnerInv
  <2>3. role'[w][u] = role[w][u]
    BY <1>2, <1>7, <2>1, <2>2 DEF DeleteAccount, TypeInv, TypeOK
  <2>4. QED
    BY <1>1, <2>3
<1>8. QED
  BY <1>3, <1>4, <1>5, <1>6, <1>7 DEF Continue

\* While nobody deletes an account, a workspace that has an owner keeps one
\* (remove_workspace_member), if removals do not overlap with each other nor
\* with the deletion of an account.
THEOREM OwnersRemain ==
  ASSUME RemovingIsApart
  PROVE  Spec => WorkspaceKeepsOwner
<1>1. Init => OwnerInv
  BY IdleFacts DEF Init, OwnerInv
<1>2. SepInv /\ OwnerInv /\ [Next]_vars => OwnerInv'
  <2>1. SUFFICES ASSUME SepInv, OwnerInv, [Next]_vars PROVE OwnerInv'
    OBVIOUS
  <2>2. CASE UNCHANGED vars
    BY <2>1, <2>2 DEF OwnerInv, vars
  <2>3. CASE Next
    <3>1. PICK q \in Request : Start(q) \/ Continue(q) \/ BreakOff(q)
      BY <2>3 DEF Next
    <3>2. QED
      BY <2>1, <3>1, OwnerStep DEF SepInv
  <2>4. QED
    BY <2>1, <2>2, <2>3
<1>3. SepInv /\ OwnerInv /\ [Next]_vars => [OwnersStay]_vars
  <2>1. SUFFICES ASSUME SepInv, OwnerInv, Next PROVE OwnersStay
    BY DEF vars
  <2>2. PICK q \in Request : Start(q) \/ Continue(q) \/ BreakOff(q)
    BY <2>1 DEF Next
  <2>3. QED
    BY <2>1, <2>2, OwnersStayStep DEF SepInv
<1>4. Spec => [][OwnersStay]_vars
  BY InitSepInv, NextSepInv, <1>1, <1>2, <1>3, PTL DEF Spec
<1>5. [OwnersStay]_vars <=>
        [\A w \in workspace \cap workspace' :
          Owners(w) # {} /\ account' = account => Owners(w)' # {}]_vars
  BY DEF OwnersStay
<1>6. QED
  BY <1>4, <1>5, PTL DEF WorkspaceKeepsOwner


-----------------------------------------------------------------------------
(* The steps of the requests.                                              *)

FirstStep ==
  {<<"create", "member">>, <<"add", "member">>, <<"remove", "row">>, <<"upload", "document">>,
   <<"curate", "statement">>, <<"delete", "graphs">>, <<"leave", "anonymize">>}

FollowingStep ==
  {<<"member", "strip">>, <<"strip", "name">>, <<"graphs", "tables">>, <<"tables", "workspace">>,
   <<"anonymize", "account">>}

\* Which operation the steps belong to that Shape does not mention.
StepsInv ==
  \A q \in Request :
    /\ req[q].at = "document" => req[q].op = "upload"
    /\ req[q].at = "statement" => req[q].op = "curate"
    /\ req[q].at \in {"graphs", "tables", "workspace"} => req[q].op = "delete"

\* How a request starts: with the first step of its operation, on a workspace
\* that exists, and without a write to the graphs or the members.
LEMMA StartsWith ==
  ASSUME TypeInv, NEW q \in Request, Start(q)
  PROVE  /\ <<req'[q].op, req'[q].at>> \in FirstStep
         /\ req'[q].op # "leave" => req'[q].ws \in workspace'
         /\ UNCHANGED <<account, role, content, node, faults>>
         /\ \A p \in Request \ {q} : req'[p] = req[p]
         /\ workspace \subseteq workspace' /\ used' \ workspace' \subseteq used \ workspace
         /\ workspace' \cap used = workspace
  BY DEF Start, StartCreate, StartAdd, StartRemove, StartUpload, StartCurate, StartDelete, StartLeave,
         Begin, Allowed, FirstStep, TypeInv, TypeOK

\* How it goes on.
LEMMA GoesOnWith ==
  ASSUME TypeInv, NEW q \in Request, Continue(q) \/ BreakOff(q)
  PROVE  \/ req'[q] = Idle
         \/ <<req[q].at, req'[q].at>> \in FollowingStep
<1>1. \/ req' = [req EXCEPT ![q] = Idle]
      \/ \E at \in Step : <<req[q].at, at>> \in FollowingStep /\ req' = [req EXCEPT ![q].at = at]
  BY DEF Continue, BreakOff, InsertMember, Strip, Name, RemoveRow, InsertDocument, WriteStatement,
         DropGraphs, DeleteTables, DeleteWorkspace, Anonymize, DeleteAccount, Step, Finish, Proceed,
         At, FollowingStep
<1>2. req[q] # Idle
  BY ContinueReq
<1>3. req[q] \in [op: Op, at: Step, by: User, ws: Workspace \cup {None}, who: User, as: Role]
  BY <1>2 DEF TypeInv, TypeOK, RequestState
<1>4. QED
  BY <1>1, <1>3 DEF TypeInv, TypeOK

LEMMA StepsStep ==
  ASSUME TypeInv, StepsInv, NEW q \in Request, Start(q) \/ Continue(q) \/ BreakOff(q)
  PROVE  StepsInv'
<1>1. CASE Start(q)
  BY <1>1, StartsWith DEF FirstStep, StepsInv
<1>2. CASE Continue(q) \/ BreakOff(q)
  <2>1. /\ \A p \in Request \ {q} : req'[p] = req[p]
        /\ req'[q] # Idle => req'[q].op = req[q].op
    BY <1>2, ContinueReq
  <2>2. req'[q] = Idle \/ <<req[q].at, req'[q].at>> \in FollowingStep
    BY <1>2, GoesOnWith
  <2>3. QED
    BY <2>1, <2>2, IdleFacts DEF StepsInv, FollowingStep
<1>3. QED
  BY <1>1, <1>2

ReqInv == SepInv /\ StepsInv

LEMMA InitReqInv == Init => ReqInv
  BY InitSepInv, IdleFacts DEF Init, ReqInv, StepsInv

LEMMA NextReqInv == ReqInv /\ [Next]_vars => ReqInv'
<1>1. SUFFICES ASSUME ReqInv, [Next]_vars PROVE ReqInv'
  OBVIOUS
<1>2. CASE UNCHANGED vars
  BY <1>1, <1>2, NextSepInv DEF ReqInv, StepsInv, vars
<1>3. CASE Next
  <2>1. PICK q \in Request : Start(q) \/ Continue(q) \/ BreakOff(q)
    BY <1>3 DEF Next
  <2>2. QED
    BY <1>1, <2>1, NextSepInv, StepsStep DEF ReqInv, SepInv
<1>4. QED
  BY <1>1, <1>2, <1>3

-----------------------------------------------------------------------------
(* A workspace that was deleted leaves nothing behind, provided that its   *)
(* deletion overlaps with no request that writes curator nodes. Uploads    *)
(* may overlap: they make the deletion fail, then the workspace stays.     *)

DeletingIsApart ==
  {"delete", "add"} \in Apart /\ {"delete", "create"} \in Apart /\ {"delete", "curate"} \in Apart

Writers == {"create", "add", "curate"}

GoneInv ==
  /\ GoneLeavesNothing
  /\ \A q \in Request : req[q].op \in Writers => req[q].ws \in workspace
  /\ \A q \in Request : req[q].at \in {"tables", "workspace"} =>
       \A u \in User : node[req[q].ws][u] = {}

\* Nobody deletes a workspace while another request writes curator nodes.
LEMMA NobodyDeletes ==
  ASSUME DeletingIsApart, TypeInv, Separate, NEW p \in Request, NEW q \in Request,
         req[p].op \in Writers, req[q].op = "delete"
  PROVE  FALSE
<1>1. p # q /\ req[p] # Idle /\ req[q] # Idle
  BY IdleFacts DEF Writers
<1>2. {req[p].op, req[q].op} \notin Apart
  BY <1>1 DEF Separate
<1>3. \/ {req[p].op, req[q].op} = {"delete", "add"}
      \/ {req[p].op, req[q].op} = {"delete", "create"}
      \/ {req[p].op, req[q].op} = {"delete", "curate"}
  BY DEF Writers
<1>4. QED
  BY <1>2, <1>3 DEF DeletingIsApart

LEMMA DeletingTypes ==
  ASSUME TypeInv, NEW p \in Request, req[p].at \in {"tables", "workspace"}
  PROVE  req[p].ws \in Workspace
  BY AtWorkspace DEF At, Step

\* Steps that delete no workspace and put nothing where nothing is.
LEMMA GoneKept ==
  ASSUME TypeInv, GoneInv, NEW q \in Request,
         \A p \in Request \ {q} : req'[p] = req[p],
         workspace \subseteq workspace', used' \ workspace' \subseteq used \ workspace,
         \A w \in used' \ workspace' : w \notin content => w \notin content',
         \A w \in used' \ workspace', u \in User : role[w][u] = "none" => role'[w][u] = "none",
         \A w \in Workspace, u \in User : node[w][u] = {} => node'[w][u] = {},
         req'[q].op \in Writers => req'[q].ws \in workspace',
         req'[q].at \in {"tables", "workspace"} =>
           /\ req'[q].ws \in Workspace
           /\ \A u \in User : node'[req'[q].ws][u] = {}
  PROVE  GoneInv'
<1>1. GoneLeavesNothing'
  BY DEF GoneInv, GoneLeavesNothing, TypeInv, TypeOK
<1>2. \A p \in Request : req'[p].op \in Writers => req'[p].ws \in workspace'
  BY DEF GoneInv
<1>3. \A p \in Request : req'[p].at \in {"tables", "workspace"} =>
        \A u \in User : node'[req'[p].ws][u] = {}
  BY DeletingTypes DEF GoneInv
<1>4. QED
  BY <1>1, <1>2, <1>3 DEF GoneInv

LEMMA GoneStep ==
  ASSUME DeletingIsApart, ReqInv, GoneInv, NEW q \in Request,
         Start(q) \/ Continue(q) \/ BreakOff(q)
  PROVE  GoneInv'
<1>0. TypeInv /\ Separate /\ StepsInv
  BY DEF ReqInv, SepInv
<1>1. CASE Start(q)
  BY <1>0, <1>1, StartsWith, GoneKept DEF FirstStep, Writers
<1>2. ASSUME Continue(q) \/ BreakOff(q)
      PROVE  /\ \A p \in Request \ {q} : req'[p] = req[p]
             /\ req'[q].op \in Writers => req'[q].ws \in workspace
             /\ req'[q] # Idle => req'[q].ws = req[q].ws
             /\ req'[q] = Idle \/ <<req[q].at, req'[q].at>> \in FollowingStep
  BY <1>0, <1>2, ContinueReq, GoesOnWith, IdleFacts DEF GoneInv, Writers
<1>3. CASE InsertMember(q)
  <2>1. req[q].ws \in Workspace /\ req[q].who \in User
    BY <1>0, <1>3, AtWorkspace, AtBusy DEF InsertMember, Step
  <2>2. req[q].at = "member" /\ UNCHANGED <<workspace, used, content, node>>
    BY <1>3 DEF InsertMember, At
  <2>3. \A w \in used' \ workspace', u \in User : role[w][u] = "none" => role'[w][u] = "none"
    BY <1>0, <1>3, <2>1 DEF InsertMember, TypeInv, TypeOK
  <2>4. req'[q].at \notin {"tables", "workspace"}
    BY <1>2, <1>3, <2>2, IdleFacts DEF Continue, FollowingStep
  <2>5. QED
    BY <1>0, <1>2, <1>3, <2>2, <2>3, <2>4, GoneKept DEF Continue
<1>4. CASE Strip(q)
  <2>1. req[q].ws \in Workspace /\ req[q].who \in User
    BY <1>0, <1>4, AtWorkspace, AtBusy DEF Strip, Step
  <2>2. req[q].at = "strip" /\ UNCHANGED <<workspace, used, content, role>>
    BY <1>4 DEF Strip, At
  <2>3. \A w \in Workspace, u \in User : node[w][u] = {} => node'[w][u] = {}
    BY <1>0, <1>4, <2>1 DEF Strip, TypeInv, TypeOK
  <2>4. req'[q].at \notin {"tables", "workspace"}
    BY <1>2, <1>4, <2>2, IdleFacts DEF Continue, FollowingStep
  <2>5. QED
    BY <1>0, <1>2, <1>4, <2>2, <2>3, <2>4, GoneKept DEF Continue
<1>5. CASE Name(q) \/ WriteStatement(q)
  <2>1. req[q].at \in {"name", "statement"} /\ req[q].op \in Writers
    BY <1>0, <1>5 DEF Name, WriteStatement, At, TypeInv, Shape, StepsInv, Writers
  <2>2. req[q].ws \in workspace /\ req[q].ws \in Workspace
    BY <1>0, <2>1 DEF GoneInv, TypeInv, TypeOK
  <2>3. \A w \in Workspace \ {req[q].ws} : node'[w] = node[w]
    BY <1>0, <1>5, <2>2 DEF Name, WriteStatement, TypeInv, TypeOK
  <2>4. UNCHANGED <<workspace, used, content, role>> /\ req'[q] = Idle
    BY <1>0, <1>5 DEF Name, WriteStatement, Finish, TypeInv, TypeOK
  <2>5. \A p \in Request : req[p].at \notin {"tables", "workspace"}
    BY <1>0, <2>1, NobodyDeletes DEF StepsInv
  <2>6. GoneLeavesNothing'
    BY <1>0, <2>2, <2>3, <2>4 DEF GoneInv, GoneLeavesNothing, TypeInv, TypeOK
  <2>7. \A p \in Request : req'[p].op \in Writers => req'[p].ws \in workspace'
    BY <1>2, <1>5, <2>4 DEF Continue, GoneInv
  <2>8. \A p \in Request : req'[p].at \notin {"tables", "workspace"}
    BY <1>2, <1>5, <2>4, <2>5, IdleFacts DEF Continue
  <2>9. QED
    BY <2>6, <2>7, <2>8 DEF GoneInv
<1>6. CASE RemoveRow(q) \/ DeleteAccount(q)
  <2>1. UNCHANGED <<workspace, used, content, node>> /\ req'[q] = Idle
    BY <1>0, <1>6 DEF RemoveRow, DeleteAccount, Finish, TypeInv, TypeOK
  <2>2. \A w \in Workspace, u \in User : role[w][u] = "none" => role'[w][u] = "none"
    <3>1. CASE RemoveRow(q)
      <4>1. req[q].ws \in Workspace /\ req[q].who \in User
        BY <1>0, <3>1, RowTypes DEF RemoveRow, At
      <4>2. QED
        BY <1>0, <3>1, <4>1 DEF RemoveRow, TypeInv, TypeOK
    <3>2. CASE DeleteAccount(q)
      <4>1. req[q].by \in User
        BY <1>0, <3>2, AtBusy DEF DeleteAccount, Step
      <4>2. QED
        BY <1>0, <3>2, <4>1 DEF DeleteAccount, TypeInv, TypeOK
    <3>3. QED
      BY <1>6, <3>1, <3>2
  <2>3. QED
    BY <1>0, <1>2, <1>6, <2>1, <2>2, IdleFacts, GoneKept DEF Continue, Writers, TypeInv, TypeOK
<1>7. CASE InsertDocument(q) \/ BreakOff(q)
  <2>1. UNCHANGED <<workspace, used, role, node>> /\ req'[q] = Idle
    BY <1>0, <1>7 DEF InsertDocument, BreakOff, Finish, TypeInv, TypeOK
  <2>2. \A w \in used' \ workspace' : w \notin content => w \notin content'
    BY <1>7 DEF InsertDocument, BreakOff
  <2>3. QED
    BY <1>0, <1>2, <1>7, <2>1, <2>2, IdleFacts, GoneKept DEF Continue
<1>8. CASE DropGraphs(q)
  <2>1. req[q].at = "graphs" /\ UNCHANGED <<workspace, used, role, content>>
    BY <1>8 DEF DropGraphs, At
  <2>2. req[q].ws \in Workspace
    BY <1>0, <1>8, AtWorkspace DEF DropGraphs, Step
  <2>3. /\ \A u \in User : node'[req[q].ws][u] = {}
        /\ \A w \in Workspace, u \in User : node[w][u] = {} => node'[w][u] = {}
    BY <1>0, <1>8, <2>2 DEF DropGraphs, TypeInv, TypeOK
  <2>4. req'[q].at \in {"tables", "workspace"} => req'[q].ws = req[q].ws
    BY <1>2, <1>8, IdleFacts DEF Continue
  <2>5. QED
    BY <1>0, <1>2, <1>8, <2>1, <2>2, <2>3, <2>4, GoneKept DEF Continue
<1>9. CASE DeleteTables(q)
  <2>1. /\ req[q].at = "tables" /\ UNCHANGED <<workspace, used, role, node>>
        /\ content' \subseteq content
    BY <1>9 DEF DeleteTables, At
  <2>2. req[q].ws \in Workspace /\ \A u \in User : node[req[q].ws][u] = {}
    BY <1>0, <2>1, DeletingTypes DEF GoneInv
  <2>3. req'[q].at \in {"tables", "workspace"} => req'[q].ws = req[q].ws
    BY <1>2, <1>9, IdleFacts DEF Continue
  <2>4. QED
    BY <1>0, <1>2, <1>9, <2>1, <2>2, <2>3, GoneKept DEF Continue
<1>10. CASE DeleteWorkspace(q)
  <2>1. req[q].at = "workspace" /\ UNCHANGED <<used, content, node>> /\ req'[q] = Idle
    BY <1>0, <1>10 DEF DeleteWorkspace, At, Finish, TypeInv, TypeOK
  <2>2. req[q].ws \in Workspace /\ \A u \in User : node[req[q].ws][u] = {}
    BY <1>0, <2>1, DeletingTypes DEF GoneInv
  <2>3. CASE UNCHANGED <<workspace, role>>
    BY <1>0, <1>2, <1>10, <2>1, <2>3, IdleFacts, GoneKept DEF Continue
  <2>4. CASE /\ req[q].ws \notin content /\ workspace' = workspace \ {req[q].ws}
             /\ role' = [role EXCEPT ![req[q].ws] = [u \in User |-> "none"]]
    <3>1. \A w \in Workspace, u \in User :
            role'[w][u] = IF w = req[q].ws THEN "none" ELSE role[w][u]
      BY <1>0, <2>2, <2>4 DEF TypeInv, TypeOK
    <3>2. GoneLeavesNothing'
      BY <1>0, <2>1, <2>2, <2>4, <3>1 DEF GoneInv, GoneLeavesNothing, TypeInv, TypeOK
    <3>3. \A p \in Request : req[p].op \notin Writers
      BY <1>0, <2>1, NobodyDeletes DEF StepsInv
    <3>4. \A p \in Request : req'[p].op \notin Writers
      BY <1>2, <1>10, <2>1, <3>3, IdleFacts DEF Continue, Writers
    <3>5. \A p \in Request : req'[p].at \in {"tables", "workspace"} =>
            \A u \in User : node'[req'[p].ws][u] = {}
      BY <1>2, <1>10, <2>1, IdleFacts DEF Continue, GoneInv
    <3>6. QED
      BY <3>2, <3>4, <3>5 DEF GoneInv
  <2>5. QED
    BY <1>10, <2>3, <2>4 DEF DeleteWorkspace
<1>11. CASE Anonymize(q)
  <2>1. req[q].at = "anonymize" /\ UNCHANGED <<workspace, used, role, content>>
    BY <1>11 DEF Anonymize, At
  <2>2. \A w \in Workspace, u \in User : node'[w][u] = node[w][u] \/ node'[w][u] = Anonymous(node[w][u])
    BY <1>0, <1>11 DEF Anonymize, TypeInv, TypeOK
  <2>3. Anonymous({}) = {}
    BY DEF Anonymous
  <2>4. \A w \in Workspace, u \in User : node[w][u] = {} => node'[w][u] = {}
    BY <2>2, <2>3
  <2>5. req'[q].at \notin {"tables", "workspace"}
    BY <1>2, <1>11, <2>1, IdleFacts DEF Continue, FollowingStep
  <2>6. QED
    BY <1>0, <1>2, <1>11, <2>1, <2>4, <2>5, GoneKept DEF Continue
<1>12. QED
  BY <1>1, <1>3, <1>4, <1>5, <1>6, <1>7, <1>8, <1>9, <1>10, <1>11 DEF Continue

\* A workspace that was deleted leaves no rows and nothing in its graph
\* (delete_workspace), if no member is added, no workspace created and nothing
\* curated meanwhile: also when requests break off and documents are uploaded.
THEOREM DeletionIsComplete ==
  ASSUME DeletingIsApart
  PROVE  Spec => []GoneLeavesNothing
<1>1. Init => GoneInv
  BY IdleFacts DEF Init, GoneInv, GoneLeavesNothing, Writers
<1>2. ReqInv /\ GoneInv /\ [Next]_vars => GoneInv'
  <2>1. SUFFICES ASSUME ReqInv, GoneInv, [Next]_vars PROVE GoneInv'
    OBVIOUS
  <2>2. CASE UNCHANGED vars
    BY <2>1, <2>2 DEF GoneInv, GoneLeavesNothing, vars
  <2>3. CASE Next
    <3>1. PICK q \in Request : Start(q) \/ Continue(q) \/ BreakOff(q)
      BY <2>3 DEF Next
    <3>2. QED
      BY <2>1, <3>1, GoneStep
  <2>4. QED
    BY <2>1, <2>2, <2>3
<1>3. GoneInv => GoneLeavesNothing
  BY DEF GoneInv
<1>4. QED
  BY InitReqInv, NextReqInv, <1>1, <1>2, <1>3, PTL DEF Spec

-----------------------------------------------------------------------------
(* Members are named in the graph, provided that nothing is uploaded while *)
(* a workspace is deleted: a deletion that fails has emptied the graph and *)
(* leaves the members.                                                     *)

UploadsAreApart == {"delete", "upload"} \in Apart

\* A request that is about to name the member, or to remove the row.
Pending(q, w, u) ==
  \/ req[q].at \in {"strip", "name"} /\ req[q].ws = w /\ req[q].who = u
  \/ req[q].at = "account" /\ req[q].by = u
  \/ req[q].at \in {"tables", "workspace"} /\ req[q].ws = w

NamedSoon(w, u) == "identity" \in node[w][u] \/ \E q \in Request : Pending(q, w, u)

NamedInv ==
  /\ \A w \in Workspace, u \in User : role[w][u] # "none" => w \in workspace
  /\ \A q \in Request : req[q].at = "workspace" => req[q].ws \notin content
  /\ faults = 0 =>
       \A w \in Workspace, u \in User : role[w][u] # "none" => NamedSoon(w, u)

\* Nobody uploads while another request deletes a workspace.
LEMMA NobodyUploads ==
  ASSUME UploadsAreApart, TypeInv, Separate, NEW p \in Request, NEW q \in Request,
         req[p].op = "upload", req[q].op = "delete"
  PROVE  FALSE
<1>1. p # q /\ req[p] # Idle /\ req[q] # Idle
  BY IdleFacts
<1>2. {req[p].op, req[q].op} \notin Apart
  BY <1>1 DEF Separate
<1>3. {req[p].op, req[q].op} = {"delete", "upload"}
  OBVIOUS
<1>4. QED
  BY <1>2, <1>3 DEF UploadsAreApart

\* Where the roles come from and what they are lost with.
LEMMA RolesStep ==
  ASSUME TypeInv, NamedInv, NEW q \in Request, Start(q) \/ Continue(q) \/ BreakOff(q)
  PROVE  \A w \in Workspace, u \in User : role'[w][u] # "none" => w \in workspace'
<1>1. CASE Start(q)
  BY <1>1, StartsWith DEF NamedInv
<1>2. CASE InsertMember(q)
  <2>1. req[q].ws \in Workspace /\ req[q].who \in User
    BY <1>2, AtWorkspace, AtBusy DEF InsertMember, Step
  <2>2. QED
    BY <1>2, <2>1 DEF InsertMember, NamedInv, TypeInv, TypeOK
<1>3. CASE RemoveRow(q)
  <2>1. req[q].ws \in Workspace /\ req[q].who \in User
    BY <1>3, RowTypes DEF RemoveRow, At
  <2>2. QED
    BY <1>3, <2>1 DEF RemoveRow, NamedInv, TypeInv, TypeOK
<1>4. CASE DeleteAccount(q)
  <2>1. req[q].by \in User
    BY <1>4, AtBusy DEF DeleteAccount, Step
  <2>2. QED
    BY <1>4, <2>1 DEF DeleteAccount, NamedInv, TypeInv, TypeOK
<1>5. CASE DeleteWorkspace(q)
  BY <1>5 DEF DeleteWorkspace, NamedInv, TypeInv, TypeOK
<1>6. CASE \/ Strip(q) \/ Name(q) \/ InsertDocument(q) \/ WriteStatement(q) \/ DropGraphs(q)
           \/ DeleteTables(q) \/ Anonymize(q) \/ BreakOff(q)
  <2>1. UNCHANGED <<role, workspace>>
    BY <1>6 DEF Strip, Name, InsertDocument, WriteStatement, DropGraphs, DeleteTables, Anonymize,
       BreakOff
  <2>2. QED
    BY <2>1 DEF NamedInv
<1>7. QED
  BY <1>1, <1>2, <1>3, <1>4, <1>5, <1>6 DEF Continue

LEMMA ContentStep ==
  ASSUME UploadsAreApart, ReqInv, NamedInv, NEW q \in Request, Start(q) \/ Continue(q) \/ BreakOff(q)
  PROVE  \A p \in Request : req'[p].at = "workspace" => req'[p].ws \notin content'
<1>0. TypeInv /\ Separate /\ StepsInv
  BY DEF ReqInv, SepInv
<1>1. CASE Start(q)
  BY <1>0, <1>1, StartsWith DEF FirstStep, NamedInv
<1>2. ASSUME Continue(q) \/ BreakOff(q)
      PROVE  /\ \A p \in Request \ {q} : req'[p] = req[p]
             /\ req'[q].at = "workspace" => req[q].at = "tables" /\ req'[q].ws = req[q].ws
  BY <1>0, <1>2, ContinueReq, GoesOnWith, IdleFacts DEF FollowingStep
<1>3. CASE InsertDocument(q)
  <2>1. req[q].op = "upload" /\ req'[q] = Idle
    BY <1>0, <1>3 DEF InsertDocument, At, Finish, StepsInv, TypeInv, TypeOK
  <2>2. \A p \in Request : req[p].at # "workspace"
    BY <1>0, <2>1, NobodyUploads DEF StepsInv
  <2>3. QED
    BY <1>2, <1>3, <2>1, <2>2, IdleFacts DEF Continue
<1>4. CASE DeleteTables(q)
  BY <1>2, <1>4 DEF Continue, DeleteTables, NamedInv
<1>5. CASE \/ InsertMember(q) \/ Strip(q) \/ Name(q) \/ RemoveRow(q) \/ WriteStatement(q)
           \/ DropGraphs(q) \/ DeleteWorkspace(q) \/ Anonymize(q) \/ DeleteAccount(q) \/ BreakOff(q)
  <2>1. \/ content' = content /\ req[q].at # "tables"
        \/ BreakOff(q)
    BY <1>5 DEF InsertMember, Strip, Name, RemoveRow, WriteStatement, DropGraphs, DeleteWorkspace,
       Anonymize, DeleteAccount, At
  <2>2. BreakOff(q) => req'[q] = Idle /\ content' = content
    BY <1>0 DEF BreakOff, TypeInv, TypeOK
  <2>3. QED
    BY <1>2, <1>5, <2>1, <2>2, IdleFacts DEF Continue, NamedInv
<1>6. QED
  BY <1>1, <1>3, <1>4, <1>5 DEF Continue

\* A step that goes on keeps every member named or about to be.
LEMMA NamedContinue ==
  ASSUME TypeInv, NamedInv, faults = 0, NEW q \in Request, Continue(q),
         NEW w \in Workspace, NEW u \in User, role'[w][u] # "none"
  PROVE  NamedSoon(w, u)'
<1>1. \A p \in Request \ {q} : req'[p] = req[p]
  BY ContinueReq
<1>2. req[q] \in [op: Op, at: Step, by: User, ws: Workspace \cup {None}, who: User, as: Role]
  BY ContinueReq DEF TypeInv, TypeOK, RequestState
<1>3. \A p \in Request \ {q} : Pending(p, w, u) => NamedSoon(w, u)'
  BY <1>1 DEF Pending, NamedSoon
<1>4. ASSUME role[w][u] # "none", Pending(q, w, u) => NamedSoon(w, u)',
             "identity" \in node[w][u] => NamedSoon(w, u)'
      PROVE  NamedSoon(w, u)'
  <2>1. NamedSoon(w, u)
    BY <1>4 DEF NamedInv
  <2>2. QED
    BY <1>3, <1>4, <2>1 DEF NamedSoon
<1>5. CASE InsertMember(q)
  <2>1. ~ Pending(q, w, u) /\ node' = node
    BY <1>5 DEF InsertMember, At, Pending
  <2>2. CASE role[w][u] # "none"
    BY <1>4, <2>1, <2>2 DEF NamedSoon
  <2>3. CASE role[w][u] = "none"
    <3>1. req[q].ws \in Workspace /\ req[q].who \in User
      BY <1>5, AtWorkspace, AtBusy DEF InsertMember, Step
    <3>2. w = req[q].ws /\ u = req[q].who /\ req' = [req EXCEPT ![q].at = "strip"]
      BY <1>5, <2>3, <3>1 DEF InsertMember, Proceed, TypeInv, TypeOK
    <3>3. req'[q].at = "strip" /\ req'[q].ws = w /\ req'[q].who = u
      BY <1>2, <3>2 DEF TypeInv, TypeOK
    <3>4. QED
      BY <3>3 DEF NamedSoon, Pending
  <2>4. QED
    BY <2>2, <2>3
<1>6. CASE Strip(q)
  <2>1. req[q].ws \in Workspace /\ req[q].who \in User /\ req[q].at = "strip"
    BY <1>6, AtWorkspace, AtBusy DEF Strip, Step, At
  <2>2. role' = role /\ req'[q].at = "name" /\ req'[q].ws = req[q].ws /\ req'[q].who = req[q].who
    BY <1>2, <1>6 DEF Strip, Proceed, TypeInv, TypeOK
  <2>3. CASE w = req[q].ws /\ u = req[q].who
    BY <2>2, <2>3 DEF NamedSoon, Pending
  <2>4. CASE ~ (w = req[q].ws /\ u = req[q].who)
    <3>1. node'[w][u] = node[w][u]
      BY <1>6, <2>1, <2>4 DEF Strip, TypeInv, TypeOK
    <3>2. ~ Pending(q, w, u)
      BY <2>1, <2>4 DEF Pending
    <3>3. QED
      BY <1>4, <2>2, <3>1, <3>2 DEF NamedSoon
  <2>5. QED
    BY <2>3, <2>4
<1>7. CASE Name(q)
  <2>1. req[q].ws \in Workspace /\ req[q].who \in User /\ req[q].at = "name" /\ role' = role
    BY <1>7, AtWorkspace, AtBusy DEF Name, Step, At
  <2>2. "identity" \in node[w][u] \/ Pending(q, w, u) => "identity" \in node'[w][u]
    BY <1>7, <2>1 DEF Name, Pending, TypeInv, TypeOK
  <2>3. QED
    BY <1>4, <2>1, <2>2 DEF NamedSoon
<1>8. CASE WriteStatement(q)
  <2>1. req[q].ws \in Workspace /\ req[q].by \in User /\ ~ Pending(q, w, u) /\ role' = role
    BY <1>8, AtWorkspace, AtBusy DEF WriteStatement, Step, At, Pending
  <2>2. "identity" \in node[w][u] => "identity" \in node'[w][u]
    BY <1>8, <2>1 DEF WriteStatement, TypeInv, TypeOK
  <2>3. QED
    BY <1>4, <2>1, <2>2 DEF NamedSoon
<1>9. CASE RemoveRow(q)
  <2>1. req[q].ws \in Workspace /\ req[q].who \in User
    BY <1>9, RowTypes DEF RemoveRow, At
  <2>2. role[w][u] # "none" /\ node' = node /\ ~ Pending(q, w, u)
    BY <1>9, <2>1 DEF RemoveRow, At, Pending, TypeInv, TypeOK
  <2>3. QED
    BY <1>4, <2>2 DEF NamedSoon
<1>10. CASE InsertDocument(q)
  <2>1. role' = role /\ node' = node /\ ~ Pending(q, w, u)
    BY <1>10 DEF InsertDocument, At, Pending
  <2>2. QED
    BY <1>4, <2>1 DEF NamedSoon
<1>11. CASE DropGraphs(q) \/ DeleteTables(q)
  <2>1. /\ role' = role /\ req'[q].at \in {"tables", "workspace"} /\ req'[q].ws = req[q].ws
        /\ req[q].at \in {"graphs", "tables"}
    BY <1>2, <1>11 DEF DropGraphs, DeleteTables, Proceed, At, TypeInv, TypeOK
  <2>2. CASE w = req[q].ws
    BY <2>1, <2>2 DEF NamedSoon, Pending
  <2>3. CASE w # req[q].ws
    <3>1. node'[w] = node[w] /\ ~ Pending(q, w, u)
      BY <1>11, <2>1, <2>3 DEF DropGraphs, DeleteTables, Pending, TypeInv, TypeOK
    <3>2. QED
      BY <1>4, <2>1, <3>1 DEF NamedSoon
  <2>4. QED
    BY <2>2, <2>3
<1>12. CASE DeleteWorkspace(q)
  <2>1. req[q].at = "workspace" /\ req[q].ws \notin content
    BY <1>12 DEF DeleteWorkspace, At, NamedInv
  <2>2. role' = [role EXCEPT ![req[q].ws] = [v \in User |-> "none"]] /\ node' = node
    BY <1>12, <2>1 DEF DeleteWorkspace
  <2>3. w # req[q].ws /\ role[w][u] # "none"
    BY <2>2 DEF TypeInv, TypeOK
  <2>4. ~ Pending(q, w, u)
    BY <2>1, <2>3 DEF Pending
  <2>5. QED
    BY <1>4, <2>2, <2>3, <2>4 DEF NamedSoon
<1>13. CASE Anonymize(q)
  <2>1. /\ req[q].at = "anonymize" /\ role' = role
        /\ req'[q].at = "account" /\ req'[q].by = req[q].by
    BY <1>2, <1>13 DEF Anonymize, At, Proceed, TypeInv, TypeOK
  <2>2. CASE u = req[q].by
    BY <2>1, <2>2 DEF NamedSoon, Pending
  <2>3. CASE u # req[q].by
    <3>1. node'[w][u] = node[w][u] /\ ~ Pending(q, w, u)
      BY <1>2, <1>13, <2>1, <2>3 DEF Anonymize, Pending, TypeInv, TypeOK
    <3>2. QED
      BY <1>4, <2>1, <3>1 DEF NamedSoon
  <2>4. QED
    BY <2>2, <2>3
<1>14. CASE DeleteAccount(q)
  <2>1. req[q].at = "account" /\ node' = node
    BY <1>14 DEF DeleteAccount, At
  <2>2. role'[w][u] = IF u = req[q].by THEN "none" ELSE role[w][u]
    BY <1>2, <1>14 DEF DeleteAccount, TypeInv, TypeOK
  <2>3. role[w][u] # "none" /\ ~ Pending(q, w, u)
    BY <2>1, <2>2 DEF Pending
  <2>4. QED
    BY <1>4, <2>1, <2>3 DEF NamedSoon
<1>15. QED
  BY <1>5, <1>6, <1>7, <1>8, <1>9, <1>10, <1>11, <1>12, <1>13, <1>14 DEF Continue

LEMMA NamedStep ==
  ASSUME UploadsAreApart, ReqInv, NamedInv, NEW q \in Request, Start(q) \/ Continue(q) \/ BreakOff(q)
  PROVE  NamedInv'
<1>0. TypeInv
  BY DEF ReqInv, SepInv
<1>1. ASSUME faults' = 0, NEW w \in Workspace, NEW u \in User, role'[w][u] # "none"
      PROVE  NamedSoon(w, u)'
  <2>1. CASE Start(q)
    <3>1. UNCHANGED <<role, node, faults>> /\ \A p \in Request \ {q} : req'[p] = req[p]
      BY <1>0, <2>1, StartsWith
    <3>2. req[q] = Idle
      BY <2>1 DEF Start, StartCreate, StartAdd, StartRemove, StartUpload, StartCurate, StartDelete,
         StartLeave, Begin
    <3>3. \A p \in Request : Pending(p, w, u) => Pending(p, w, u)'
      BY <3>1, <3>2, IdleFacts DEF Pending
    <3>4. NamedSoon(w, u)
      BY <1>1, <3>1 DEF NamedInv
    <3>5. QED
      BY <3>1, <3>3, <3>4 DEF NamedSoon
  <2>2. CASE Continue(q)
    <3>1. faults = 0
      BY <1>1, <2>2 DEF Continue, InsertMember, Strip, Name, RemoveRow, InsertDocument,
         WriteStatement, DropGraphs, DeleteTables, DeleteWorkspace, Anonymize, DeleteAccount,
         Finish, Proceed
    <3>2. QED
      BY <1>0, <1>1, <2>2, <3>1, NamedContinue
  <2>3. CASE BreakOff(q)
    BY <1>0, <1>1, <2>3 DEF BreakOff, TypeInv, TypeOK
  <2>4. QED
    BY <2>1, <2>2, <2>3
<1>2. QED
  BY <1>0, <1>1, RolesStep, ContentStep DEF NamedInv

\* When no request is in progress and none broke off, the provenance graph
\* names every member (upsert_curator), if nothing is uploaded while a
\* workspace is deleted: whatever else overlaps.
THEOREM EveryMemberIsNamed ==
  ASSUME UploadsAreApart
  PROVE  Spec => []MembersAreNamed
<1>1. Init => NamedInv
  BY IdleFacts DEF Init, NamedInv
<1>2. ReqInv /\ NamedInv /\ [Next]_vars => NamedInv'
  <2>1. SUFFICES ASSUME ReqInv, NamedInv, [Next]_vars PROVE NamedInv'
    OBVIOUS
  <2>2. CASE UNCHANGED vars
    BY <2>1, <2>2 DEF NamedInv, NamedSoon, Pending, vars
  <2>3. CASE Next
    <3>1. PICK q \in Request : Start(q) \/ Continue(q) \/ BreakOff(q)
      BY <2>3 DEF Next
    <3>2. QED
      BY <2>1, <3>1, NamedStep
  <2>4. QED
    BY <2>1, <2>2, <2>3
<1>3. ReqInv /\ NamedInv => MembersAreNamed
  <2>1. SUFFICES ASSUME ReqInv, NamedInv, Busy = {}, faults = 0, NEW w \in workspace,
                        NEW u \in Members(w)
                 PROVE  "identity" \in node[w][u]
    BY DEF MembersAreNamed
  <2>2. w \in Workspace /\ u \in User /\ role[w][u] # "none"
    BY <2>1 DEF Members, ReqInv, SepInv, TypeInv, TypeOK
  <2>3. NamedSoon(w, u)
    BY <2>1, <2>2 DEF NamedInv
  <2>4. \A q \in Request : ~ Pending(q, w, u)
    BY <2>1, IdleFacts DEF Busy, Pending
  <2>5. QED
    BY <2>3, <2>4 DEF NamedSoon
<1>4. QED
  BY InitReqInv, NextReqInv, <1>1, <1>2, <1>3, PTL DEF Spec
=============================================================================
