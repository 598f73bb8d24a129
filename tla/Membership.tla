----------------------------- MODULE Membership -----------------------------
(***************************************************************************)
(* Workspaces, their members and accounts (routes/workspaces.py,           *)
(* routes/auth.py). A request is a thread of checks followed by writes to  *)
(* two stores that share no transaction: the tables of PostgreSQL and the  *)
(* curation graph, where each member has a curator node with the name and  *)
(* the e-mail of the account. The reads a handler starts with are one step;*)
(* every write is a step of its own, and a request may break off between   *)
(* two of them.                                                            *)
(***************************************************************************)
EXTENDS Naturals, FiniteSets

CONSTANTS
  User,       \* accounts that exist at the beginning
  Workspace,  \* ids of workspaces
  Request,    \* requests that may be in progress at the same time
  Apart,      \* sets of operations that this instance never lets overlap
  MaxFaults,  \* bound on requests that break off
  None

Op == {"create", "add", "remove", "delete", "upload", "curate",
       "leave"}

ASSUME MembershipAssumption ==
  /\ MaxFaults \in Nat
  /\ IsFiniteSet(User)
  /\ None \notin User \cup Workspace
  /\ Apart \subseteq SUBSET Op

VARIABLES
  account,    \* rows of users
  workspace,  \* rows of workspaces
  used,       \* workspace ids that were given out
  role,       \* rows of workspace_members
  content,    \* workspaces with rows in runs or documents
  node,       \* what the graph of a workspace says of a curator
  req,        \* requests in progress
  faults

vars == <<account, workspace, used, role, content, node, req, faults>>

Role == {"owner", "editor"}
\* rdf:type; name, e-mail and username; paco:deleted
Fact == {"type", "identity", "deleted"}

Step == {"member", "strip", "name", "row", "graphs", "tables", "workspace",
         "document", "statement", "anonymize", "account"}
Idle == [op |-> "idle", at |-> "idle", by |-> None, ws |-> None,
         who |-> None, as |-> "editor"]
RequestState ==
  {Idle} \cup [op: Op, at: Step, by: User, ws: Workspace \cup {None},
               who: User, as: Role]

TypeOK ==
  /\ account \subseteq User
  /\ workspace \subseteq used /\ used \subseteq Workspace
  /\ role \in [Workspace -> [User -> Role \cup {"none"}]]
  /\ content \subseteq Workspace
  /\ node \in [Workspace -> [User -> SUBSET Fact]]
  /\ req \in [Request -> RequestState]
  /\ faults \in 0..MaxFaults

Init ==
  /\ account = User
  /\ workspace = {} /\ used = {} /\ content = {}
  /\ role = [w \in Workspace |-> [u \in User |-> "none"]]
  /\ node = [w \in Workspace |-> [u \in User |-> {}]]
  /\ req = [q \in Request |-> Idle]
  /\ faults = 0

Owners(w) == {u \in User : role[w][u] = "owner"}
Members(w) == {u \in User : role[w][u] # "none"}
Busy == {q \in Request : req[q] # Idle}

-----------------------------------------------------------------------------
\* get_current_user, and the instance's restriction on requests that overlap.
Begin(q, op, at, u, w, who, r) ==
  /\ req[q] = Idle
  /\ u \in account
  /\ \A p \in Busy : {op, req[p].op} \notin Apart
  /\ req' = [req EXCEPT ![q] =
       [op |-> op, at |-> at, by |-> u, ws |-> w, who |-> who, as |-> r]]
  /\ UNCHANGED faults

\* require_role
Allowed(u, w, roles) == w \in workspace /\ role[w][u] \in roles

Proceed(q, at) == req' = [req EXCEPT ![q].at = at] /\ UNCHANGED faults
Finish(q) == req' = [req EXCEPT ![q] = Idle] /\ UNCHANGED faults
At(q, at) == req[q].at = at

\* create_workspace: the workspace is committed before its first member.
StartCreate(q, u, w) ==
  /\ w \notin used
  /\ Begin(q, "create", "member", u, w, u, "owner")
  /\ workspace' = workspace \cup {w} /\ used' = used \cup {w}
  /\ UNCHANGED <<account, role, content, node>>

\* add_workspace_member: the user exists and is not yet a member.
StartAdd(q, u, w, t, r) ==
  /\ Allowed(u, w, {"owner"})
  /\ t \in account /\ role[w][t] = "none"
  /\ Begin(q, "add", "member", u, w, t, r)
  /\ UNCHANGED <<account, workspace, used, role, content, node>>

\* A wrong InsertMember: the graph is not told.
InsertMemberOnly(q) ==
  LET w == req[q].ws
      t == req[q].who IN
  /\ At(q, "member")
  /\ w \in workspace /\ t \in account /\ role[w][t] = "none"
  /\ role' = [role EXCEPT ![w][t] = req[q].as]
  /\ Finish(q)
  /\ UNCHANGED <<account, workspace, used, content, node>>

\* The keys of workspace_members refuse a second row of a member and a row
\* without its user or workspace; then the request ends with an error.
InsertMember(q) ==
  LET w == req[q].ws
      t == req[q].who
      ok == w \in workspace /\ t \in account /\ role[w][t] = "none" IN
  /\ At(q, "member")
  /\ \/ ok /\ role' = [role EXCEPT ![w][t] = req[q].as] /\ Proceed(q, "strip")
     \/ ~ ok /\ Finish(q) /\ UNCHANGED role
  /\ UNCHANGED <<account, workspace, used, content, node>>

\* upsert_curator, first the update that deletes, then the one that inserts
\* what the request has read from the account.
Strip(q) ==
  /\ At(q, "strip")
  /\ node' = [node EXCEPT ![req[q].ws][req[q].who] = @ \ {"identity"}]
  /\ Proceed(q, "name")
  /\ UNCHANGED <<account, workspace, used, role, content>>

Name(q) ==
  /\ At(q, "name")
  /\ node' = [node EXCEPT ![req[q].ws][req[q].who] = @ \cup {"type", "identity"}]
  /\ Finish(q)
  /\ UNCHANGED <<account, workspace, used, role, content>>

\* A wrong MayRemove: the owners are not counted.
MayRemoveNoCount(w, t) == role[w][t] # "none"

\* remove_workspace_member: the owners are counted, then the row is deleted.
MayRemove(w, t) ==
  /\ role[w][t] # "none"
  /\ role[w][t] = "owner" => Cardinality(Owners(w)) > 1

StartRemove(q, u, w, t) ==
  /\ Allowed(u, w, {"owner"})
  /\ MayRemove(w, t)
  /\ Begin(q, "remove", "row", u, w, t, "editor")
  /\ UNCHANGED <<account, workspace, used, role, content, node>>

\* A wrong RemoveRow: a role the code does not know.
RemoveRowSoft(q) ==
  /\ At(q, "row")
  /\ role' = [role EXCEPT ![req[q].ws][req[q].who] = "removed"]
  /\ Finish(q)
  /\ UNCHANGED <<account, workspace, used, content, node>>

\* The member goes.
RemoveRow(q) ==
  /\ At(q, "row")
  /\ role' = [role EXCEPT ![req[q].ws][req[q].who] = "none"]
  /\ Finish(q)
  /\ UNCHANGED <<account, workspace, used, content, node>>

\* create_documents, as far as a workspace notices it: rows that refer to it.
StartUpload(q, u, w) ==
  /\ Allowed(u, w, Role)
  /\ Begin(q, "upload", "document", u, w, u, "editor")
  /\ UNCHANGED <<account, workspace, used, role, content, node>>

InsertDocument(q) ==
  /\ At(q, "document")
  /\ content' = content \cup ({req[q].ws} \cap workspace)
  /\ Finish(q)
  /\ UNCHANGED <<account, workspace, used, role, node>>

\* accept, reject, edit, reset: each write names its curator by a typed node.
StartCurate(q, u, w) ==
  /\ Allowed(u, w, Role)
  /\ Begin(q, "curate", "statement", u, w, u, "editor")
  /\ UNCHANGED <<account, workspace, used, role, content, node>>

WriteStatement(q) ==
  /\ At(q, "statement")
  /\ node' = [node EXCEPT ![req[q].ws][req[q].by] = @ \cup {"type"}]
  /\ Finish(q)
  /\ UNCHANGED <<account, workspace, used, role, content>>

\* delete_workspace: the graphs, the runs and documents, the workspace. The
\* last fails while a run or document refers to it; members go by cascade.
StartDelete(q, u, w) ==
  /\ Allowed(u, w, {"owner"})
  /\ Begin(q, "delete", "graphs", u, w, u, "editor")
  /\ UNCHANGED <<account, workspace, used, role, content, node>>

\* A wrong DropGraphs: the curation graph stays.
DropDataGraphOnly(q) ==
  /\ At(q, "graphs")
  /\ Proceed(q, "tables")
  /\ UNCHANGED <<account, workspace, used, role, content, node>>

\* drop_workspace_graphs
DropGraphs(q) ==
  /\ At(q, "graphs")
  /\ node' = [node EXCEPT ![req[q].ws] = [u \in User |-> {}]]
  /\ Proceed(q, "tables")
  /\ UNCHANGED <<account, workspace, used, role, content>>

DeleteTables(q) ==
  /\ At(q, "tables")
  /\ content' = content \ {req[q].ws}
  /\ Proceed(q, "workspace")
  /\ UNCHANGED <<account, workspace, used, role, node>>

DeleteWorkspace(q) ==
  LET w == req[q].ws IN
  /\ At(q, "workspace")
  /\ \/ /\ w \notin content
        /\ workspace' = workspace \ {w}
        /\ role' = [role EXCEPT ![w] = [u \in User |-> "none"]]
     \/ w \in content /\ UNCHANGED <<workspace, role>>
  /\ Finish(q)
  /\ UNCHANGED <<account, used, content, node>>

\* delete_me: the curator nodes of all graphs, then the account; the rows of
\* its memberships go by cascade.
StartLeave(q, u) ==
  /\ Begin(q, "leave", "anonymize", u, None, u, "editor")
  /\ UNCHANGED <<account, workspace, used, role, content, node>>

Anonymous(facts) ==
  IF "type" \in facts THEN (facts \ {"identity"}) \cup {"deleted"} ELSE facts

\* A wrong Anonymize: only the graphs of current memberships.
AnonymizeMemberships(q) ==
  /\ At(q, "anonymize")
  /\ node' = [w \in Workspace |->
       IF req[q].by \in Members(w)
       THEN [node[w] EXCEPT ![req[q].by] = Anonymous(@)] ELSE node[w]]
  /\ Proceed(q, "account")
  /\ UNCHANGED <<account, workspace, used, role, content>>

\* anonymize_curator: every graph with a node of the curator.
Anonymize(q) ==
  /\ At(q, "anonymize")
  /\ node' = [w \in Workspace |-> [node[w] EXCEPT ![req[q].by] = Anonymous(@)]]
  /\ Proceed(q, "account")
  /\ UNCHANGED <<account, workspace, used, role, content>>

DeleteAccount(q) ==
  /\ At(q, "account")
  /\ account' = account \ {req[q].by}
  /\ role' = [w \in Workspace |-> [role[w] EXCEPT ![req[q].by] = "none"]]
  /\ Finish(q)
  /\ UNCHANGED <<workspace, used, content, node>>

\* An update fails or the process stops: the rest of the request is lost.
BreakOff(q) ==
  /\ req[q] # Idle
  /\ faults < MaxFaults
  /\ faults' = faults + 1
  /\ req' = [req EXCEPT ![q] = Idle]
  /\ UNCHANGED <<account, workspace, used, role, content, node>>

Start(q) ==
  \/ \E u \in User, w \in Workspace :
       \/ StartCreate(q, u, w)
       \/ StartDelete(q, u, w)
       \/ StartUpload(q, u, w)
       \/ StartCurate(q, u, w)
       \/ \E t \in User : StartRemove(q, u, w, t)
       \/ \E t \in User, r \in Role : StartAdd(q, u, w, t, r)
  \/ \E u \in User : StartLeave(q, u)

Continue(q) ==
  \/ InsertMember(q) \/ Strip(q) \/ Name(q)
  \/ RemoveRow(q)
  \/ InsertDocument(q) \/ WriteStatement(q)
  \/ DropGraphs(q) \/ DeleteTables(q) \/ DeleteWorkspace(q)
  \/ Anonymize(q) \/ DeleteAccount(q)

Next == \E q \in Request : Start(q) \/ Continue(q) \/ BreakOff(q)

Spec == Init /\ [][Next]_vars

-----------------------------------------------------------------------------
\* The graph of no workspace, not even of one the user was removed from,
\* keeps the name or e-mail of an account that was deleted (delete_me).
NoTraceOfDeletedAccount ==
  \A w \in Workspace, u \in User \ account : "identity" \notin node[w][u]

\* As long as nobody deletes an account, a workspace that had an owner keeps
\* one, whoever removes whom (remove_workspace_member).
WorkspaceKeepsOwner ==
  [][\A w \in workspace \cap workspace' :
       Owners(w) # {} /\ account' = account => Owners(w)' # {}]_vars

\* A workspace that was deleted leaves no rows and nothing in its graph
\* (delete_workspace: "and all its associated data").
GoneLeavesNothing ==
  \A w \in used \ workspace :
    w \notin content /\ \A u \in User : role[w][u] = "none" /\ node[w][u] = {}

\* When no request is in progress and none broke off, the provenance graph
\* names every member (upsert_curator).
MembersAreNamed ==
  Busy = {} /\ faults = 0 =>
    \A w \in workspace : \A u \in Members(w) : "identity" \in node[w][u]
=============================================================================
