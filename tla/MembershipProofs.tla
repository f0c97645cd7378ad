--------------------------- MODULE MembershipProofs ---------------------------
(***************************************************************************)
(* Theorems about Membership, for any number of threads, users,            *)
(* organizations and requests.                                             *)
(***************************************************************************)
EXTENDS Membership, TLAPS

TokensIssued == \A m \in Members : mem[m].token <= issued

\* What a request in flight relies on.  What it has read is still so, unless
\* its organization was overtaken.
Refers(t) ==
  /\ req[t].known => user[req[t].m[1]] # "Absent"
  /\ pc[t] = "register" =>
       req[t].m[1] = req[t].by /\ (req[t].known => req[t].token # NoToken)
  /\ pc[t] \in {"check", "guard", "write"} =>
       req[t].m \in Members /\ mem[req[t].m].status # "Absent"
  /\ pc[t] \in {"invite", "send"} =>
       req[t].m \in Members /\ req[t].m[2] <= orgs /\ req[t].role \in Roles
  /\ pc[t] = "send" =>
       /\ req[t].row.status # "Active"
       /\ req[t].row.status # "Absent" => mem[req[t].m].status # "Absent"
  /\ pc[t] = "act" => Org(t) \in Orgs
  /\ pc[t] \in {"require", "act"} => req[t].role = "Member"
  /\ pc[t] # "idle" => req[t] \in Requests

LoadedStill(t) ==
  pc[t] \in {"check", "guard", "write", "send"} => mem[req[t].m] = req[t].row

MayStill(t) ==
  pc[t] \in {"guard", "write", "invite", "send", "act"} =>
    /\ IsOrgAdmin(req[t].by, Org(t))
    /\ req[t].role = "Owner" => IsOrgOwner(req[t].by, Org(t))

GuardedStill(t) ==
  pc[t] = "write" /\ req[t].row.role = "Owner" /\ req[t].role # "Owner" =>
    \E v \in Users \ {req[t].m[1]} : IsOrgOwner(v, Org(t))

InFlight(t) ==
  /\ Refers(t)
  /\ Org(t) \notin overtaken => LoadedStill(t) /\ MayStill(t) /\ GuardedStill(t)

IInv ==
  /\ Types
  /\ RowsBelong
  /\ TokensIssued
  /\ TokensOpenOneMembership
  /\ OwnersUnlessOvertaken
  /\ \A t \in Threads : InFlight(t)

-----------------------------------------------------------------------------
(* What the steps of a thread do to itself and to the others.              *)

ThreadsTyped ==
  /\ pc \in [Threads -> Labels]
  /\ req \in [Threads -> Requests \cup {NoRequest}]
  /\ \A t \in Threads : pc[t] = "idle" <=> req[t] = NoRequest

OthersAlone(th) ==
  \A t \in Threads \ {th} : pc'[t] = pc[t] /\ req'[t] = req[t]

LEMMA NoRequestIsNone == \A r \in Requests : r # NoRequest
BY MembershipAssumption DEF Requests, NoRequest

LEMMA BeginType ==
  ASSUME Types, NEW th \in Threads, NEW label \in Labels \ {"idle"},
         NEW r \in Requests,
         Begin(th, label, r.by, r.m, r.role, r.row, r.known, r.token)
  PROVE  /\ ThreadsTyped' /\ OthersAlone(th)
         /\ requests' \in 0 .. MaxRequests
         /\ pc'[th] = label /\ req'[th] = r
<1>1. r = [by |-> r.by, m |-> r.m, role |-> r.role, row |-> r.row,
           known |-> r.known, token |-> r.token]
  BY DEF Requests
<1>2. /\ req' = [req EXCEPT ![th] = r]
      /\ pc' = [pc EXCEPT ![th] = label]
  BY <1>1 DEF Begin, Goto
<1>3. requests' \in 0 .. MaxRequests
  BY MembershipAssumption DEF Begin, Request, Types
<1> QED
  BY <1>2, <1>3, NoRequestIsNone DEF Types, ThreadsTyped, OthersAlone

LEMMA ReturnType ==
  ASSUME Types, NEW th \in Threads, Return(th)
  PROVE  /\ ThreadsTyped' /\ OthersAlone(th)
         /\ requests' = requests
         /\ pc'[th] = "idle" /\ req'[th] = NoRequest
BY DEF Return, Goto, Types, ThreadsTyped, OthersAlone, Labels

LEMMA GotoType ==
  ASSUME Types, NEW th \in Threads, pc[th] # "idle", NEW label \in Labels \ {"idle"},
         Goto(th, label), UNCHANGED <<req, requests>>
  PROVE  /\ ThreadsTyped' /\ OthersAlone(th)
         /\ requests' = requests
         /\ pc'[th] = label /\ req'[th] = req[th]
BY DEF Goto, Types, ThreadsTyped, OthersAlone

LEMMA IdleInFlight ==
  ASSUME NEW th \in Threads, pc'[th] = "idle", req'[th] = NoRequest
  PROVE  InFlight(th)'
BY DEF InFlight, Refers, LoadedStill, MayStill, GuardedStill, NoRequest

\* What the others rely on survives a commit, or their organization was overtaken.
LEMMA OthersInFlight ==
  ASSUME Types, NEW t \in Threads, InFlight(t),
         pc'[t] = pc[t], req'[t] = req[t],
         overtaken \subseteq overtaken', orgs' \in Nat, orgs <= orgs',
         \A u \in Users : user[u] # "Absent" => user'[u] # "Absent",
         \A m \in Members :
           /\ mem[m].status # "Absent" => mem'[m].status # "Absent"
           /\ mem'[m] = mem[m] \/ (Overtakes(t, m) => m[2] \in overtaken')
  PROVE  InFlight(t)'
<1>1. CASE pc[t] = "idle"
  <2>1. req[t] = NoRequest
    BY <1>1 DEF Types
  <2> QED
    BY <1>1, <2>1, IdleInFlight
<1>2. CASE pc[t] # "idle"
  <2>1. req[t] \in Requests
    BY <1>2 DEF InFlight, Refers
  <2>2. /\ req[t].by \in Users /\ req[t].m[1] \in Users /\ req[t].m[2] \in Orgs \cup {NoOrg}
        /\ req[t].m \in Members <=> req[t].m[2] \in Orgs
    BY <2>1 DEF Requests, Members, Orgs, NoOrg
  <2>3. Refers(t)'
    <3>1. Refers(t)
      BY DEF InFlight
    <3>2. req[t].known => user'[req[t].m[1]] # "Absent"
      BY <3>1, <2>2 DEF Refers
    <3>3. /\ pc[t] \in {"check", "guard", "write"} => mem'[req[t].m].status # "Absent"
          /\ pc[t] = "send" /\ req[t].row.status # "Absent" => mem'[req[t].m].status # "Absent"
      BY <3>1 DEF Refers
    <3>4. pc[t] \in {"invite", "send"} => req[t].m[2] <= orgs'
      <4>1. pc[t] \in {"invite", "send"} => req[t].m[2] \in Nat /\ req[t].m[2] <= orgs
        BY <3>1 DEF Refers, Members, Orgs
      <4>2. orgs \in Nat
        BY MembershipAssumption DEF Types
      <4> QED
        BY <4>1, <4>2
    <3> QED
      BY <3>1, <3>2, <3>3, <3>4 DEF Refers, Org
  <2>4. ASSUME Org(t)' \notin overtaken'
        PROVE  LoadedStill(t)' /\ MayStill(t)' /\ GuardedStill(t)'
    <3>1. Org(t)' = Org(t) /\ Org(t) \notin overtaken
      BY <2>4 DEF Org
    <3>2. LoadedStill(t) /\ MayStill(t) /\ GuardedStill(t)
      BY <3>1 DEF InFlight
    <3>3. ASSUME NEW m \in Members, m[2] = Org(t), Overtakes(t, m)
          PROVE  mem'[m] = mem[m]
      BY <3>1, <3>3, <2>4
    <3>4. LoadedStill(t)'
      BY <3>2, <3>3 DEF LoadedStill, Overtakes, InFlight, Refers, Org
    <3>5. MayStill(t)'
      <4>1. SUFFICES ASSUME pc[t] \in {"guard", "write", "invite", "send", "act"}
                     PROVE  mem'[<<req[t].by, Org(t)>>] = mem[<<req[t].by, Org(t)>>]
        BY <3>1, <3>2 DEF MayStill, IsOrgAdmin, IsOrgOwner, IsOrgMember
      <4>2. Org(t) \in Orgs
        BY <4>1 DEF InFlight, Refers, Org, Members
      <4>3. <<req[t].by, Org(t)>> \in Members
        BY <4>2, <2>2 DEF Members
      <4> QED
        BY <4>1, <4>3, <3>3 DEF Overtakes
    <3>6. GuardedStill(t)'
      <4>1. SUFFICES ASSUME pc[t] = "write", NEW v \in Users, IsOrgOwner(v, Org(t))
                     PROVE  mem'[<<v, Org(t)>>] = mem[<<v, Org(t)>>]
        BY <3>1, <3>2 DEF GuardedStill, IsOrgOwner, IsOrgMember
      <4>2. Org(t) \in Orgs
        BY <4>1 DEF InFlight, Refers, Org, Members
      <4>3. <<v, Org(t)>> \in Members
        BY <4>2 DEF Members
      <4> QED
        BY <4>1, <4>3, <3>3 DEF Overtakes
    <3> QED
      BY <3>4, <3>5, <3>6
  <2> QED
    BY <2>3, <2>4 DEF InFlight
<1> QED
  BY <1>1, <1>2

LEMMA CommitFacts ==
  ASSUME Types, NEW th \in Threads, NEW ms \in SUBSET Members,
         NEW f, \A m \in ms : f[m] \in Rows,
         Commit(th, ms, f)
  PROVE  /\ mem' \in [Members -> Rows]
         /\ \A m \in ms : mem'[m] = f[m]
         /\ \A m \in Members \ ms : mem'[m] = mem[m]
         /\ overtaken \subseteq overtaken' /\ overtaken' \subseteq Orgs
         /\ \A t \in Threads \ {th}, m \in ms : Overtakes(t, m) => m[2] \in overtaken'
<1>1. mem' = [m \in Members |-> IF m \in ms THEN f[m] ELSE mem[m]]
  BY DEF Commit
<1>2. overtaken' = overtaken \cup
        {m[2] : m \in {x \in ms : \E t \in Threads \ {th} : Overtakes(t, x)}}
  BY DEF Commit
<1>3. \A m \in ms : m[2] \in Orgs
  BY DEF Members
<1>4. overtaken' \subseteq Orgs
  BY <1>2, <1>3 DEF Types
<1>5. \A t \in Threads \ {th}, m \in ms : Overtakes(t, m) => m[2] \in overtaken'
  BY <1>2
<1> QED
  BY <1>1, <1>2, <1>4, <1>5 DEF Types

\* A step that only reads, or answers.
LEMMA ReaderKeepsIInv ==
  ASSUME IInv, NEW th \in Threads, OthersAlone(th), ThreadsTyped',
         requests' \in 0 .. MaxRequests, InFlight(th)',
         UNCHANGED <<user, mem, orgs, issued, overtaken>>
  PROVE  IInv'
<1>1. orgs \in Nat
  BY MembershipAssumption DEF IInv, Types
<1>2. \A t \in Threads \ {th} : InFlight(t)'
  BY <1>1, OthersInFlight DEF IInv, OthersAlone
<1>3. Types'
  BY DEF IInv, Types, ThreadsTyped
<1> QED
  BY <1>2, <1>3
     DEF IInv, RowsBelong, TokensIssued, TokensOpenOneMembership, OwnersUnlessOvertaken,
         HasOwner, IsOrgOwner, IsOrgMember

\* A step that writes the memberships ms and answers, or leaves its thread idle.
LEMMA WriterKeepsIInv ==
  ASSUME IInv, NEW th \in Threads, NEW ms \in SUBSET Members,
         NEW f, \A m \in ms : f[m] \in Rows,
         Commit(th, ms, f),
         \A m \in ms : mem[m].status # "Absent" => f[m].status # "Absent",
         OthersAlone(th), ThreadsTyped', requests' \in 0 .. MaxRequests, InFlight(th)',
         user' \in [Users -> {"Absent", "Pending", "Active"}],
         \A u \in Users : user[u] # "Absent" => user'[u] # "Absent",
         orgs' \in 0 .. MaxOrgs, orgs <= orgs', issued' \in Nat, issued <= issued',
         \A m \in ms : m[2] <= orgs' /\ user'[m[1]] # "Absent" /\ f[m].token <= issued',
         TokensOpenOneMembership', OwnersUnlessOvertaken'
  PROVE  IInv'
<1>1. /\ orgs \in Nat /\ orgs' \in Nat
      /\ \A m \in Members : m[2] \in Nat /\ mem[m].token \in Nat
  BY MembershipAssumption DEF IInv, Types, Members, Orgs, Rows, Tokens, NoToken
<1>2. /\ mem' \in [Members -> Rows]
      /\ \A m \in ms : mem'[m] = f[m]
      /\ \A m \in Members \ ms : mem'[m] = mem[m]
      /\ overtaken \subseteq overtaken' /\ overtaken' \subseteq Orgs
      /\ \A t \in Threads \ {th}, m \in ms : Overtakes(t, m) => m[2] \in overtaken'
  BY CommitFacts DEF IInv
<1>3. Types'
  BY <1>2 DEF Types, ThreadsTyped
<1>4. RowsBelong'
  <2>1. SUFFICES ASSUME NEW m \in Members, mem'[m].status # "Absent"
                 PROVE  m[2] <= orgs' /\ user'[m[1]] # "Absent"
    BY DEF RowsBelong
  <2>2. CASE m \in ms
    BY <2>2
  <2>3. CASE m \notin ms
    <3>1. m[2] <= orgs /\ user[m[1]] # "Absent"
      BY <2>1, <2>3, <1>2 DEF IInv, RowsBelong
    <3>2. m[1] \in Users
      BY DEF Members
    <3> QED
      BY <3>1, <3>2, <1>1
  <2> QED
    BY <2>2, <2>3
<1>5. TokensIssued'
  <2>1. \A m \in Members \ ms : mem'[m].token <= issued'
    BY <1>1, <1>2 DEF IInv, Types, TokensIssued
  <2> QED
    BY <2>1, <1>2 DEF TokensIssued
<1>6. ASSUME NEW t \in Threads \ {th} PROVE InFlight(t)'
  <2>1. \A m \in Members :
           /\ mem[m].status # "Absent" => mem'[m].status # "Absent"
           /\ mem'[m] = mem[m] \/ (Overtakes(t, m) => m[2] \in overtaken')
    BY <1>2
  <2> QED
    BY <2>1, <1>1, <1>2, OthersInFlight DEF IInv, OthersAlone
<1> QED
  BY <1>3, <1>4, <1>5, <1>6 DEF IInv

\* One membership is written, in organizations that there are.
LEMMA OwnersStay ==
  ASSUME IInv, NEW m \in Members, orgs' = orgs,
         \A n \in Members \ {m} : mem'[n] = mem[n], overtaken \subseteq overtaken',
         \/ ~IsOrgOwner(m[1], m[2])
         \/ mem'[m].status = "Active" /\ mem'[m].role = "Owner"
         \/ m[2] \in overtaken'
         \/ \E v \in Users \ {m[1]} : IsOrgOwner(v, m[2])
  PROVE  OwnersUnlessOvertaken'
<1>1. SUFFICES ASSUME NEW o \in 1 .. orgs, o \notin overtaken' PROVE HasOwner(o)'
  BY DEF OwnersUnlessOvertaken
<1>2. o \in Orgs
  BY MembershipAssumption DEF IInv, Types, Orgs
<1>3. PICK u \in Users : IsOrgOwner(u, o)
  BY <1>1 DEF IInv, OwnersUnlessOvertaken, HasOwner
<1>4. /\ m = <<m[1], m[2]>> /\ m[1] \in Users
      /\ \A v \in Users : <<v, o>> \in Members
  BY <1>2 DEF Members
<1>5. CASE m # <<u, o>>
  BY <1>3, <1>4, <1>5 DEF HasOwner, IsOrgOwner, IsOrgMember
<1>6. CASE m = <<u, o>>
  <2>1. m[1] = u /\ m[2] = o
    BY <1>6
  <2>2. CASE mem'[m].status = "Active" /\ mem'[m].role = "Owner"
    BY <1>6, <2>2 DEF HasOwner, IsOrgOwner, IsOrgMember
  <2>3. CASE \E v \in Users \ {m[1]} : IsOrgOwner(v, m[2])
    <3>1. PICK v \in Users \ {u} : IsOrgOwner(v, o)
      BY <2>1, <2>3
    <3>2. <<v, o>> \in Members /\ <<v, o>> # m
      BY <1>4, <1>6, <3>1
    <3> QED
      BY <3>1, <3>2 DEF HasOwner, IsOrgOwner, IsOrgMember
  <2> QED
    BY <1>1, <1>3, <2>1, <2>2, <2>3
<1> QED
  BY <1>5, <1>6

LEMMA TokensStay ==
  ASSUME IInv, NEW m \in Members, \A n \in Members \ {m} : mem'[n] = mem[n],
         overtaken \subseteq overtaken',
         mem'[m].token \in {NoToken, mem[m].token, issued + 1},
         mem'[m].status = "Active" => mem'[m].token = NoToken \/ m[2] \in overtaken'
  PROVE  TokensOpenOneMembership'
<1>1. /\ issued \in Nat
      /\ \A n \in Members : mem[n].token \in Nat /\ mem[n].token <= issued
  BY DEF IInv, Types, TokensIssued, Rows, Tokens, NoToken
<1>2. \A n \in Members : mem[n].token # issued + 1
  BY <1>1
<1>3. ASSUME NEW n1 \in Members, NEW n2 \in Members, n1 # n2, mem'[n1].token # NoToken
      PROVE  mem'[n1].token # mem'[n2].token
  <2>1. mem[n1].token # NoToken => mem[n1].token # mem[n2].token
    BY <1>3 DEF IInv, TokensOpenOneMembership
  <2>2. mem[n2].token # NoToken => mem[n2].token # mem[n1].token
    BY <1>3 DEF IInv, TokensOpenOneMembership
  <2>3. CASE n1 = m
    BY <1>2, <1>3, <2>1, <2>2, <2>3
  <2>4. CASE n2 = m
    BY <1>2, <1>3, <2>1, <2>2, <2>4
  <2>5. CASE n1 # m /\ n2 # m
    BY <1>3, <2>1, <2>5
  <2> QED
    BY <2>3, <2>4, <2>5
<1>4. \A n \in Members :
        mem'[n].status = "Active" => mem'[n].token = NoToken \/ n[2] \in overtaken'
  BY DEF IInv, TokensOpenOneMembership
<1> QED
  BY <1>3, <1>4 DEF TokensOpenOneMembership

-----------------------------------------------------------------------------
LEMMA InitIInv == Init => IInv
<1> SUFFICES ASSUME Init PROVE IInv
  OBVIOUS
<1>1. /\ NoRow \in Rows /\ "idle" \in Labels
      /\ 0 \in 0 .. MaxOrgs /\ 0 \in 0 .. MaxRequests
  BY MembershipAssumption DEF NoRow, Rows, Roles, NoToken, Labels
<1>2. Types
  BY <1>1 DEF Init, Types
<1>3. \A m \in Members : mem[m] = NoRow
  BY DEF Init
<1>4. RowsBelong /\ TokensIssued /\ TokensOpenOneMembership
  <2>1. \A m \in Members : mem[m].status = "Absent" /\ mem[m].token = NoToken
    BY <1>3 DEF NoRow
  <2>2. issued = 0 /\ NoToken <= 0
    BY DEF Init, NoToken
  <2>3. TokensIssued
    BY <2>1, <2>2 DEF TokensIssued
  <2> QED
    BY <2>1, <2>3 DEF RowsBelong, TokensOpenOneMembership
<1>5. OwnersUnlessOvertaken
  BY DEF Init, OwnersUnlessOvertaken
<1>6. \A t \in Threads : InFlight(t)
  BY DEF Init, InFlight, Refers, LoadedStill, MayStill, GuardedStill, NoRequest
<1> QED
  BY <1>2, <1>4, <1>5, <1>6 DEF IInv

\* The label and the request of a thread that begins.
LEMMA BeginsWell ==
  ASSUME IInv, NEW th \in Threads, NEW label \in Labels \ {"idle"}, NEW r \in Requests,
         Begin(th, label, r.by, r.m, r.role, r.row, r.known, r.token),
         UNCHANGED <<user, mem, orgs, issued, overtaken>>,
         pc'[th] = label /\ req'[th] = r => InFlight(th)'
  PROVE  IInv'
BY BeginType, ReaderKeepsIInv DEF IInv

LEMMA RegisterReadKeepsIInv ==
  ASSUME IInv, NEW th \in Threads, RegisterRead(th)
  PROVE  IInv'
<1>1. PICK u \in Users, token \in NoToken .. issued :
        /\ user[u] = "Pending" => token # NoToken
        /\ Begin(th, "register", u, <<u, NoOrg>>, "Member", NoRow, user[u] = "Pending", token)
        /\ UNCHANGED <<user, mem, orgs, issued, overtaken>>
  BY DEF RegisterRead
<1> DEFINE r == [by |-> u, m |-> <<u, NoOrg>>, role |-> "Member", row |-> NoRow,
                 known |-> user[u] = "Pending", token |-> token]
<1>2. /\ token \in Tokens \cup {NoToken}
      /\ NoRow \in Rows
      /\ (user[u] = "Pending") \in BOOLEAN
  <2>1. token \in Tokens \cup {NoToken}
    BY DEF IInv, Types, Tokens, NoToken
  <2> QED
    BY <2>1 DEF Rows, NoRow, Roles
<1>3. r \in Requests
  BY <1>2 DEF Requests, Roles
<1>4. ASSUME pc'[th] = "register" /\ req'[th] = r PROVE InFlight(th)'
  <2>1. Refers(th)'
    <3>1. user' = user /\ (r.known <=> user[u] = "Pending") /\ r.m[1] = u /\ r.by = u
          /\ r.token = token
      BY <1>1
    <3>2. r.known => user'[r.m[1]] # "Absent" /\ r.token # NoToken
      BY <1>1, <3>1
    <3> HIDE DEF r
    <3> QED
      BY <1>3, <1>4, <3>1, <3>2 DEF Refers
  <2> QED
    BY <1>4, <2>1 DEF InFlight, LoadedStill, MayStill, GuardedStill
<1>5. "register" \in Labels \ {"idle"}
  BY DEF Labels
<1>6. Begin(th, "register", r.by, r.m, r.role, r.row, r.known, r.token)
  BY <1>1
<1> HIDE DEF r
<1> QED
  BY <1>1, <1>3, <1>4, <1>5, <1>6, BeginsWell

LEMMA AnswersWell ==
  ASSUME IInv, NEW th \in Threads, Return(th),
         UNCHANGED <<user, mem, orgs, issued, overtaken>>
  PROVE  IInv'
<1>1. requests' \in 0 .. MaxRequests
  BY ReturnType DEF IInv, Types
<1> QED
  BY <1>1, ReturnType, IdleInFlight, ReaderKeepsIInv DEF IInv

LEMMA ProceedsWell ==
  ASSUME IInv, NEW th \in Threads, pc[th] # "idle", NEW label \in Labels \ {"idle"},
         Goto(th, label), UNCHANGED <<req, requests>>,
         UNCHANGED <<user, mem, orgs, issued, overtaken>>,
         pc'[th] = label /\ req'[th] = req[th] => InFlight(th)'
  PROVE  IInv'
<1>1. requests' \in 0 .. MaxRequests
  BY DEF IInv, Types
<1> QED
  BY <1>1, GotoType, ReaderKeepsIInv DEF IInv

LEMMA OrgsExist ==
  ASSUME IInv, NEW u \in Users, NEW o \in Orgs, IsOrgMember(u, o)
  PROVE  o <= orgs
<1>1. <<u, o>> \in Members
  BY DEF Members
<1> QED
  BY <1>1 DEF IInv, RowsBelong, IsOrgMember

LEMMA InviteCheckKeepsIInv ==
  ASSUME IInv, NEW th \in Threads, InviteCheck(th)
  PROVE  IInv'
<1>1. PICK u \in Users, v \in Users, o \in Orgs, role \in Roles :
        /\ Permitted(u, o, role)
        /\ Begin(th, "invite", u, <<v, o>>, role, NoRow, FALSE, NoToken)
        /\ UNCHANGED <<user, mem, orgs, issued, overtaken>>
  BY DEF InviteCheck
<1> DEFINE r == [by |-> u, m |-> <<v, o>>, role |-> role, row |-> NoRow,
                 known |-> FALSE, token |-> NoToken]
<1>2. NoRow \in Rows
  BY DEF NoRow, Rows, Roles
<1>3. r \in Requests
  BY <1>2 DEF Requests
<1>4. ASSUME pc'[th] = "invite" /\ req'[th] = r PROVE InFlight(th)'
  <2>1. IsOrgAdmin(u, o) /\ (role = "Owner" => IsOrgOwner(u, o))
    BY <1>1 DEF Permitted, IsOrgOwner, IsOrgAdmin
  <2>2. o <= orgs
    BY <2>1, OrgsExist DEF IsOrgAdmin
  <2>3. Refers(th)'
    BY <1>1, <1>3, <1>4, <2>2 DEF Refers, Members
  <2>4. MayStill(th)'
    BY <1>1, <1>4, <2>1 DEF MayStill, Org, IsOrgAdmin, IsOrgOwner, IsOrgMember
  <2> QED
    BY <1>4, <2>3, <2>4 DEF InFlight, LoadedStill, GuardedStill
<1>5. "invite" \in Labels \ {"idle"}
  BY DEF Labels
<1>6. Begin(th, "invite", r.by, r.m, r.role, r.row, r.known, r.token)
  BY <1>1
<1> HIDE DEF r
<1> QED
  BY <1>1, <1>3, <1>4, <1>5, <1>6, BeginsWell

LEMMA InviteReadKeepsIInv ==
  ASSUME IInv, NEW th \in Threads, InviteRead(th)
  PROVE  IInv'
<1> DEFINE m == req[th].m
           r == [req[th] EXCEPT !.known = (user[m[1]] # "Absent"), !.row = mem[m]]
<1>1. /\ pc[th] = "invite"
      /\ UNCHANGED <<user, mem, orgs, issued, overtaken>>
  BY DEF InviteRead
<1>2. CASE mem[m].status = "Active"
  BY <1>1, <1>2, AnswersWell DEF InviteRead
<1>3. CASE mem[m].status # "Active"
  <2>1. /\ Goto(th, "send") /\ UNCHANGED requests
        /\ req' = [req EXCEPT ![th].known = (user[m[1]] # "Absent"), ![th].row = mem[m]]
    BY <1>1, <1>3 DEF InviteRead
  <2>2. Refers(th) /\ (Org(th) \notin overtaken => MayStill(th))
    BY DEF IInv, InFlight
  <2>3. /\ req[th] \in Requests /\ m \in Members /\ m[2] <= orgs /\ req[th].role \in Roles
    BY <1>1, <2>2 DEF Refers
  <2>4. mem[m] \in Rows /\ (user[m[1]] # "Absent") \in BOOLEAN
    BY <2>3 DEF IInv, Types
  <2>5. r \in Requests
    BY <2>3, <2>4 DEF Requests
  <2>6. /\ r.m = m /\ r.by = req[th].by /\ r.role = req[th].role /\ r.row = mem[m]
        /\ r.known => user[m[1]] # "Absent"
    BY <2>3 DEF Requests
  <2>7. req' = [req EXCEPT ![th] = r] /\ pc' = [pc EXCEPT ![th] = "send"]
    BY <2>1, <2>3 DEF Goto, IInv, Types
  <2> HIDE DEF r
  <2>8. ThreadsTyped' /\ OthersAlone(th) /\ pc'[th] = "send" /\ req'[th] = r
    BY <2>5, <2>7, NoRequestIsNone DEF IInv, Types, ThreadsTyped, OthersAlone, Labels
  <2>9. Refers(th)'
    BY <1>1, <1>3, <2>3, <2>5, <2>6, <2>8 DEF Refers
  <2>10. Org(th)' \notin overtaken' => LoadedStill(th)' /\ MayStill(th)'
    BY <1>1, <2>2, <2>6, <2>8
       DEF LoadedStill, MayStill, Org, IsOrgAdmin, IsOrgOwner, IsOrgMember
  <2>11. InFlight(th)'
    BY <2>8, <2>9, <2>10 DEF InFlight, GuardedStill
  <2>12. requests' \in 0 .. MaxRequests
    BY <2>1 DEF IInv, Types
  <2> QED
    BY <1>1, <2>8, <2>11, <2>12, ReaderKeepsIInv
<1> QED
  BY <1>2, <1>3

LEMMA LoadMembershipKeepsIInv ==
  ASSUME IInv, NEW th \in Threads, LoadMembership(th)
  PROVE  IInv'
<1>1. PICK u \in Users, m \in Members, role \in Roles \cup {Removed} :
        /\ mem[m].status # "Absent"
        /\ Begin(th, "check", u, m, role, mem[m], FALSE, NoToken)
        /\ UNCHANGED <<user, mem, orgs, issued, overtaken>>
  BY DEF LoadMembership
<1> DEFINE r == [by |-> u, m |-> m, role |-> role, row |-> mem[m],
                 known |-> FALSE, token |-> NoToken]
<1>2. mem[m] \in Rows /\ m \in Users \X (Orgs \cup {NoOrg})
  BY DEF IInv, Types, Members
<1>3. r \in Requests
  BY <1>2 DEF Requests
<1>4. ASSUME pc'[th] = "check" /\ req'[th] = r PROVE InFlight(th)'
  BY <1>1, <1>3, <1>4 DEF InFlight, Refers, LoadedStill, MayStill, GuardedStill
<1>5. "check" \in Labels \ {"idle"}
  BY DEF Labels
<1>6. Begin(th, "check", r.by, r.m, r.role, r.row, r.known, r.token)
  BY <1>1
<1> HIDE DEF r
<1> QED
  BY <1>1, <1>3, <1>4, <1>5, <1>6, BeginsWell

\* The role that was seen is the one the caller has, unless overtaken.
LEMMA AllowedMay ==
  ASSUME IInv, NEW th \in Threads, pc[th] = "check", Org(th) \notin overtaken,
         Allowed(req[th])
  PROVE  /\ IsOrgAdmin(req[th].by, Org(th))
         /\ req[th].role = "Owner" => IsOrgOwner(req[th].by, Org(th))
<1>1. mem[req[th].m] = req[th].row
  BY DEF IInv, InFlight, LoadedStill
<1>2. RoleSeen(req[th]) = mem[<<req[th].by, Org(th)>>].role
  BY <1>1 DEF RoleSeen, Org
<1> QED
  BY <1>2 DEF Allowed, IsOrgAdmin, IsOrgOwner, IsOrgMember, Org

LEMMA CheckPermissionKeepsIInv ==
  ASSUME IInv, NEW th \in Threads, CheckPermission(th)
  PROVE  IInv'
<1> DEFINE r == req[th]
           label == IF ~Allowed(r) THEN "idle"
                    ELSE IF r.row.role = "Owner" /\ r.role # "Owner" THEN "guard"
                    ELSE "write"
<1>1. /\ pc[th] = "check" /\ Proceed(th, label)
      /\ UNCHANGED <<user, mem, orgs, issued, overtaken>>
  BY DEF CheckPermission
<1>2. CASE ~Allowed(r)
  BY <1>1, <1>2, AnswersWell DEF Proceed
<1>3. CASE Allowed(r)
  <2>1. /\ label \in {"guard", "write"}
        /\ label = "write" => ~(r.row.role = "Owner" /\ r.role # "Owner")
    BY <1>3
  <2> HIDE DEF label
  <2>2. Goto(th, label) /\ UNCHANGED <<req, requests>> /\ label \in Labels \ {"idle"}
    BY <1>1, <2>1 DEF Proceed, Labels
  <2>3. Refers(th) /\ (Org(th) \notin overtaken => LoadedStill(th))
    BY DEF IInv, InFlight
  <2>4. ASSUME pc'[th] = label, req'[th] = req[th] PROVE InFlight(th)'
    <3>1. Refers(th)'
      BY <1>1, <2>1, <2>3, <2>4 DEF Refers, Org
    <3>2. ASSUME Org(th)' \notin overtaken'
          PROVE  LoadedStill(th)' /\ MayStill(th)' /\ GuardedStill(th)'
      <4>1. Org(th) \notin overtaken /\ Org(th)' = Org(th)
        BY <1>1, <2>4, <3>2 DEF Org
      <4>2. LoadedStill(th)'
        BY <1>1, <2>3, <2>4, <4>1 DEF LoadedStill
      <4>3. MayStill(th)'
        BY <1>1, <1>3, <2>4, <4>1, AllowedMay
           DEF MayStill, IsOrgAdmin, IsOrgOwner, IsOrgMember
      <4>4. GuardedStill(th)'
        BY <2>1, <2>4 DEF GuardedStill
      <4> QED
        BY <4>2, <4>3, <4>4
    <3> QED
      BY <3>1, <3>2 DEF InFlight
  <2> QED
    BY <1>1, <2>2, <2>4, ProceedsWell
<1> QED
  BY <1>2, <1>3

LEMMA CheckLastOwnerKeepsIInv ==
  ASSUME IInv, NEW th \in Threads, CheckLastOwner(th)
  PROVE  IInv'
<1> DEFINE r == req[th]
<1>1. /\ pc[th] = "guard"
      /\ Proceed(th, IF LastOwnerGuard(r.m[2], r.m[1]) THEN "idle" ELSE "write")
      /\ UNCHANGED <<user, mem, orgs, issued, overtaken>>
  BY DEF CheckLastOwner
<1>2. CASE LastOwnerGuard(r.m[2], r.m[1])
  BY <1>1, <1>2, AnswersWell DEF Proceed
<1>3. CASE ~LastOwnerGuard(r.m[2], r.m[1])
  <2>1. Goto(th, "write") /\ UNCHANGED <<req, requests>> /\ "write" \in Labels \ {"idle"}
    BY <1>1, <1>3 DEF Proceed, Labels
  <2>2. Refers(th) /\ (Org(th) \notin overtaken => LoadedStill(th) /\ MayStill(th))
    BY DEF IInv, InFlight
  <2>3. ASSUME pc'[th] = "write", req'[th] = req[th] PROVE InFlight(th)'
    <3>1. Refers(th)'
      BY <1>1, <2>2, <2>3 DEF Refers, Org
    <3>2. Org(th)' \notin overtaken' => LoadedStill(th)' /\ MayStill(th)'
      BY <1>1, <2>2, <2>3
         DEF LoadedStill, MayStill, Org, IsOrgAdmin, IsOrgOwner, IsOrgMember
    <3>3. GuardedStill(th)'
      BY <1>1, <1>3, <2>3 DEF GuardedStill, LastOwnerGuard, Org, IsOrgOwner, IsOrgMember
    <3> QED
      BY <3>1, <3>2, <3>3 DEF InFlight
  <2> QED
    BY <1>1, <2>1, <2>3, ProceedsWell
<1> QED
  BY <1>2, <1>3

LEMMA BindUserKeepsIInv ==
  ASSUME IInv, NEW th \in Threads, BindUser(th)
  PROVE  IInv'
<1>1. PICK u \in Users, o \in Orgs \cup {NoOrg} :
        /\ Begin(th, "require", u, <<u, o>>, "Member", NoRow, FALSE, NoToken)
        /\ UNCHANGED <<user, mem, orgs, issued, overtaken>>
  BY DEF BindUser
<1> DEFINE r == [by |-> u, m |-> <<u, o>>, role |-> "Member", row |-> NoRow,
                 known |-> FALSE, token |-> NoToken]
<1>2. NoRow \in Rows
  BY DEF NoRow, Rows, Roles
<1>3. r \in Requests
  BY <1>2 DEF Requests, Roles
<1>4. ASSUME pc'[th] = "require" /\ req'[th] = r PROVE InFlight(th)'
  BY <1>3, <1>4 DEF InFlight, Refers, LoadedStill, MayStill, GuardedStill
<1>5. "require" \in Labels \ {"idle"}
  BY DEF Labels
<1>6. Begin(th, "require", r.by, r.m, r.role, r.row, r.known, r.token)
  BY <1>1
<1> HIDE DEF r
<1> QED
  BY <1>1, <1>3, <1>4, <1>5, <1>6, BeginsWell

LEMMA RequireActiveOrgKeepsIInv ==
  ASSUME IInv, NEW th \in Threads, RequireActiveOrg(th)
  PROVE  IInv'
<1> DEFINE o == Org(th)
<1>1. /\ pc[th] = "require"
      /\ Proceed(th, IF o # NoOrg /\ IsOrgAdmin(req[th].by, o) THEN "act" ELSE "idle")
      /\ UNCHANGED <<user, mem, orgs, issued, overtaken>>
  BY DEF RequireActiveOrg
<1>2. CASE ~(o # NoOrg /\ IsOrgAdmin(req[th].by, o))
  BY <1>1, <1>2, AnswersWell DEF Proceed
<1>3. CASE o # NoOrg /\ IsOrgAdmin(req[th].by, o)
  <2>1. Goto(th, "act") /\ UNCHANGED <<req, requests>> /\ "act" \in Labels \ {"idle"}
    BY <1>1, <1>3 DEF Proceed, Labels
  <2>2. Refers(th) /\ req[th] \in Requests
    BY <1>1 DEF IInv, InFlight, Refers
  <2>3. o \in Orgs
    BY <1>3, <2>2 DEF Org, Requests
  <2>4. ASSUME pc'[th] = "act", req'[th] = req[th] PROVE InFlight(th)'
    <3>1. Refers(th)'
      BY <1>1, <2>2, <2>3, <2>4 DEF Refers, Org
    <3>2. Org(th)' \notin overtaken' => MayStill(th)'
      <4>1. req[th].role = "Member"
        BY <1>1, <2>2 DEF Refers
      <4> QED
        BY <1>1, <1>3, <2>4, <4>1
           DEF MayStill, Org, IsOrgAdmin, IsOrgOwner, IsOrgMember
    <3> QED
      BY <2>4, <3>1, <3>2 DEF InFlight, LoadedStill, GuardedStill
  <2> QED
    BY <1>1, <2>1, <2>4, ProceedsWell
<1> QED
  BY <1>2, <1>3

-----------------------------------------------------------------------------
(* The steps that write.                                                   *)

FirstOwner == [status |-> "Active", role |-> "Owner", token |-> NoToken]

\* A new organization has nobody else's memberships, and an owner.
LEMMA NewOrganizationFacts ==
  ASSUME IInv, NEW th \in Threads, NEW u \in Users, NewOrganization(th, u)
  PROVE  /\ <<u, orgs + 1>> \in Members /\ mem[<<u, orgs + 1>>].status = "Absent"
         /\ orgs' = orgs + 1 /\ orgs' \in 0 .. MaxOrgs
         /\ Commit(th, {<<u, orgs + 1>>}, [x \in {<<u, orgs + 1>>} |-> FirstOwner])
         /\ mem'[<<u, orgs + 1>>] = FirstOwner
         /\ OwnersUnlessOvertaken' /\ TokensOpenOneMembership'
<1> DEFINE m == <<u, orgs + 1>>
           f == [x \in {m} |-> FirstOwner]
<1>1. /\ orgs \in Nat /\ orgs + 1 \in Orgs /\ orgs + 1 \in 0 .. MaxOrgs
      /\ ~(orgs + 1 <= orgs)
  BY MembershipAssumption DEF IInv, Types, NewOrganization, Orgs
<1>2. m \in Members /\ m[1] = u /\ m[2] = orgs + 1
  BY <1>1 DEF Members
<1>3. mem[m].status = "Absent"
  BY <1>1, <1>2 DEF IInv, RowsBelong
<1>4. orgs' = orgs + 1 /\ Commit(th, {m}, f)
  BY DEF NewOrganization, FirstOwner
<1>5. f[m] = FirstOwner /\ FirstOwner \in Rows
  BY DEF FirstOwner, Rows, Roles
<1>6. {m} \in SUBSET Members /\ \A x \in {m} : f[x] \in Rows
  BY <1>2, <1>5
<1> HIDE DEF f, m
<1>7. /\ mem'[m] = FirstOwner
      /\ \A n \in Members \ {m} : mem'[n] = mem[n]
      /\ overtaken \subseteq overtaken'
  BY <1>4, <1>5, <1>6, CommitFacts DEF IInv
<1>8. TokensOpenOneMembership'
  BY <1>2, <1>7, TokensStay DEF FirstOwner
<1>9. OwnersUnlessOvertaken'
  <2>1. SUFFICES ASSUME NEW o \in 1 .. orgs', o \notin overtaken' PROVE HasOwner(o)'
    BY DEF OwnersUnlessOvertaken
  <2>2. CASE o = orgs + 1
    BY <1>7, <2>2 DEF m, FirstOwner, HasOwner, IsOrgOwner, IsOrgMember
  <2>3. CASE o # orgs + 1
    <3>1. o \in 1 .. orgs /\ o \in Orgs
      BY <1>1, <1>4, <2>3, MembershipAssumption DEF Orgs
    <3>2. PICK v \in Users : IsOrgOwner(v, o)
      BY <1>7, <2>1, <3>1 DEF IInv, OwnersUnlessOvertaken, HasOwner
    <3>3. <<v, o>> \in Members /\ <<v, o>> # m
      BY <2>3, <3>1 DEF Members, m
    <3> QED
      BY <1>7, <3>2, <3>3 DEF HasOwner, IsOrgOwner, IsOrgMember
  <2> QED
    BY <2>2, <2>3
<1> QED
  BY <1>1, <1>2, <1>3, <1>4, <1>7, <1>8, <1>9 DEF m, f

LEMMA NewOrganizationKeepsIInv ==
  ASSUME IInv, NEW th \in Threads, NEW u \in Users, NewOrganization(th, u),
         OthersAlone(th), ThreadsTyped', requests' \in 0 .. MaxRequests, InFlight(th)',
         user' = [user EXCEPT ![u] = "Active"], issued' = issued
  PROVE  IInv'
<1> DEFINE m == <<u, orgs + 1>>
           f == [x \in {m} |-> FirstOwner]
<1>1. /\ m \in Members /\ mem[m].status = "Absent"
      /\ orgs' = orgs + 1 /\ orgs' \in 0 .. MaxOrgs
      /\ Commit(th, {m}, f)
      /\ OwnersUnlessOvertaken' /\ TokensOpenOneMembership'
  BY NewOrganizationFacts
<1>2. f[m] = FirstOwner /\ m[1] = u /\ m[2] = orgs + 1
  OBVIOUS
<1> HIDE DEF f, m
<1>3. /\ {m} \in SUBSET Members /\ \A x \in {m} : f[x] \in Rows
      /\ \A x \in {m} : mem[x].status # "Absent" => f[x].status # "Absent"
  BY <1>1, <1>2 DEF FirstOwner, Rows, Roles
<1>4. /\ user' \in [Users -> {"Absent", "Pending", "Active"}] /\ user'[u] = "Active"
      /\ \A v \in Users : user[v] # "Absent" => user'[v] # "Absent"
  BY DEF IInv, Types
<1>5. /\ orgs <= orgs' /\ orgs + 1 <= orgs' /\ issued' \in Nat /\ issued <= issued'
      /\ NoToken <= issued'
  <2>1. orgs \in Nat /\ issued \in Nat
    BY MembershipAssumption DEF IInv, Types
  <2> QED
    BY <1>1, <2>1 DEF NoToken
<1>6. \A x \in {m} : x[2] <= orgs' /\ user'[x[1]] # "Absent" /\ f[x].token <= issued'
  BY <1>2, <1>4, <1>5 DEF FirstOwner
<1> QED
  BY <1>1, <1>3, <1>4, <1>5, <1>6, WriterKeepsIInv

LEMMA CreateOrganizationKeepsIInv ==
  ASSUME IInv, NEW th \in Threads, CreateOrganization(th)
  PROVE  IInv'
<1>1. PICK u \in Users : user[u] = "Active" /\ NewOrganization(th, u)
  BY DEF CreateOrganization
<1>2. /\ pc[th] = "idle" /\ UNCHANGED <<user, issued, pc, req>>
      /\ requests' \in 0 .. MaxRequests
  BY MembershipAssumption DEF CreateOrganization, Request, IInv, Types
<1>3. OthersAlone(th) /\ ThreadsTyped' /\ pc'[th] = "idle" /\ req'[th] = NoRequest
  BY <1>2 DEF OthersAlone, ThreadsTyped, IInv, Types
<1>4. user' = [user EXCEPT ![u] = "Active"]
  BY <1>1, <1>2 DEF IInv, Types
<1> QED
  BY <1>1, <1>2, <1>3, <1>4, IdleInFlight, NewOrganizationKeepsIInv

LEMMA RegisterWithOrganizationKeepsIInv ==
  ASSUME IInv, NEW th \in Threads, RegisterWithOrganization(th)
  PROVE  IInv'
<1>1. /\ pc[th] = "register" /\ Return(th) /\ UNCHANGED issued
      /\ user' = [user EXCEPT ![req[th].by] = "Active"]
      /\ NewOrganization(th, req[th].by)
  BY DEF RegisterWithOrganization
<1>2. req[th].by \in Users
  BY <1>1 DEF IInv, InFlight, Refers, Requests
<1>3. /\ OthersAlone(th) /\ ThreadsTyped' /\ pc'[th] = "idle" /\ req'[th] = NoRequest
      /\ requests' \in 0 .. MaxRequests
  BY <1>1, ReturnType DEF IInv, Types
<1> QED
  BY <1>1, <1>2, <1>3, IdleInFlight, NewOrganizationKeepsIInv

\* One membership of an existing organization is written.
LEMMA OneWrittenKeepsIInv ==
  ASSUME IInv, NEW th \in Threads, NEW m \in Members, NEW f, Commit(th, {m}, f),
         f[m] \in Rows, f[m].status # "Absent", Return(th),
         user' \in [Users -> {"Absent", "Pending", "Active"}], user'[m[1]] # "Absent",
         \A u \in Users : user[u] # "Absent" => user'[u] # "Absent",
         orgs' = orgs, m[2] <= orgs, issued' \in {issued, issued + 1},
         \/ f[m].token \in {NoToken, mem[m].token}
         \/ f[m].token = issued + 1 /\ issued' = issued + 1,
         f[m].status = "Active" => f[m].token = NoToken \/ m[2] \in overtaken,
         \/ ~IsOrgOwner(m[1], m[2])
         \/ f[m].status = "Active" /\ f[m].role = "Owner"
         \/ m[2] \in overtaken
         \/ \E v \in Users \ {m[1]} : IsOrgOwner(v, m[2])
  PROVE  IInv'
<1>1. /\ issued \in Nat /\ issued' \in Nat /\ issued <= issued'
      /\ NoToken <= issued' /\ mem[m].token <= issued'
  BY DEF IInv, Types, TokensIssued, NoToken, Rows, Tokens
<1>2. /\ mem'[m] = f[m]
      /\ \A n \in Members \ {m} : mem'[n] = mem[n]
      /\ overtaken \subseteq overtaken'
  <2>1. {m} \in SUBSET Members /\ \A x \in {m} : f[x] \in Rows
    OBVIOUS
  <2> QED
    BY <2>1, CommitFacts DEF IInv
<1>3. TokensOpenOneMembership'
  BY <1>2, TokensStay
<1>4. OwnersUnlessOvertaken'
  BY <1>2, OwnersStay
<1>5. /\ OthersAlone(th) /\ ThreadsTyped' /\ InFlight(th)'
      /\ requests' \in 0 .. MaxRequests
  BY ReturnType, IdleInFlight DEF IInv, Types
<1>6. /\ {m} \in SUBSET Members /\ orgs' \in 0 .. MaxOrgs /\ orgs <= orgs'
      /\ \A x \in {m} : x[2] <= orgs' /\ user'[x[1]] # "Absent" /\ f[x].token <= issued'
  BY <1>1, MembershipAssumption DEF IInv, Types
<1> QED
  BY <1>1, <1>3, <1>4, <1>5, <1>6, WriterKeepsIInv

LEMMA RegisterWithTokenKeepsIInv ==
  ASSUME IInv, NEW th \in Threads, RegisterWithToken(th)
  PROVE  IInv'
<1> DEFINE u == req[th].by
<1>1. PICK m \in Claimable(req[th].token) :
        /\ SentTo(m, u)
        /\ user' = [user EXCEPT ![u] = "Active"]
        /\ Commit(th, {m, <<u, m[2]>>},
             [x \in {m, <<u, m[2]>>} |-> IF x[1] = u THEN Accepted(mem[m]) ELSE NoRow])
  BY DEF RegisterWithToken
<1>2. Return(th) /\ UNCHANGED <<orgs, issued>> /\ pc[th] = "register"
  BY DEF RegisterWithToken
<1>3. m \in Members /\ mem[m].status = "Pending" /\ m[1] = u
  BY <1>1 DEF Claimable, SentTo
<1>4. m = <<u, m[2]>>
  BY <1>3 DEF Members
<1> DEFINE f == [x \in {m, <<u, m[2]>>} |-> IF x[1] = u THEN Accepted(mem[m]) ELSE NoRow]
<1>5. {m, <<u, m[2]>>} = {m} /\ f[m] = Accepted(mem[m])
  BY <1>3, <1>4
<1>6. Commit(th, {m}, f)
  BY <1>1, <1>5
<1>7. mem[m] \in Rows
  BY <1>3 DEF IInv, Types
<1>8. f[m] \in Rows /\ f[m].status = "Active" /\ f[m].token = NoToken
  BY <1>5, <1>7 DEF Accepted, Rows
<1>9. m[2] <= orgs /\ ~IsOrgOwner(m[1], m[2])
  BY <1>3, <1>4 DEF IInv, RowsBelong, IsOrgOwner, IsOrgMember
<1>10. /\ user' \in [Users -> {"Absent", "Pending", "Active"}]
       /\ u \in Users /\ user'[m[1]] = "Active"
       /\ \A v \in Users : user[v] # "Absent" => user'[v] # "Absent"
  BY <1>1, <1>3 DEF IInv, Types, Members
<1> HIDE DEF f
<1> QED
  BY <1>2, <1>3, <1>6, <1>8, <1>9, <1>10, OneWrittenKeepsIInv

LEMMA InviteSendKeepsIInv ==
  ASSUME IInv, NEW th \in Threads, InviteSend(th)
  PROVE  IInv'
<1> DEFINE r == req[th]
           m == r.m
           f == [x \in {m} |-> Invited(m, r, issued + 1)]
<1>1. pc[th] = "send" /\ issued' = issued + 1 /\ Return(th) /\ UNCHANGED orgs
  BY DEF InviteSend
<1>2. /\ r \in Requests /\ m \in Members /\ m[2] <= orgs /\ r.role \in Roles
      /\ r.row.status # "Active"
      /\ r.row.status # "Absent" => mem[m].status # "Absent"
      /\ r.known => user[m[1]] # "Absent"
      /\ m[2] \notin overtaken => mem[m] = r.row
  BY <1>1 DEF IInv, InFlight, Refers, LoadedStill, Org
<1>3. CASE InviteConflict(r)
  <2>1. CommitNothing /\ UNCHANGED user
    BY <1>3 DEF InviteSend
  <2>2. issued \in Nat /\ issued' \in Nat /\ issued <= issued'
    BY <1>1 DEF IInv, Types
  <2>3. /\ OthersAlone(th) /\ ThreadsTyped' /\ InFlight(th)'
        /\ requests' \in 0 .. MaxRequests
    BY <1>1, ReturnType, IdleInFlight DEF IInv, Types
  <2>4. Commit(th, {}, [x \in {} |-> NoRow])
    BY <2>1 DEF Commit, CommitNothing, IInv, Types
  <2>5. TokensOpenOneMembership' /\ OwnersUnlessOvertaken'
    BY <1>1, <2>1 DEF CommitNothing, IInv, TokensOpenOneMembership, OwnersUnlessOvertaken,
                      HasOwner, IsOrgOwner, IsOrgMember
  <2>6. orgs' \in 0 .. MaxOrgs /\ orgs <= orgs'
    BY <1>1, MembershipAssumption DEF IInv, Types
  <2>7. /\ user' \in [Users -> {"Absent", "Pending", "Active"}]
        /\ \A v \in Users : user[v] # "Absent" => user'[v] # "Absent"
    BY <2>1 DEF IInv, Types
  <2> QED
    BY <2>2, <2>3, <2>4, <2>5, <2>6, <2>7, WriterKeepsIInv
<1>4. CASE ~InviteConflict(r)
  <2>1. /\ user' = [user EXCEPT ![m[1]] = IF r.known THEN @ ELSE "Pending"]
        /\ Commit(th, {m}, f)
    BY <1>4 DEF InviteSend
  <2>2. /\ user' \in [Users -> {"Absent", "Pending", "Active"}] /\ user'[m[1]] # "Absent"
        /\ \A v \in Users : user[v] # "Absent" => user'[v] # "Absent"
    BY <1>2, <2>1 DEF IInv, Types, Members
  <2>3. f[m] = Invited(m, r, issued + 1)
    OBVIOUS
  <2>4. mem[m] \in Rows /\ issued + 1 \in Tokens
    BY <1>2 DEF IInv, Types, Tokens
  <2>5. f[m] \in Rows /\ f[m].token = issued + 1
    BY <1>2, <2>3, <2>4 DEF Invited, Rows
  <2>6. f[m].status # "Absent"
    BY <1>2, <2>3 DEF Invited
  <2>7. f[m].status = "Active" => m[2] \in overtaken
    BY <1>2, <2>3 DEF Invited
  <2>8. m = <<m[1], m[2]>>
    BY <1>2 DEF Members
  <2>9. ~IsOrgOwner(m[1], m[2]) \/ m[2] \in overtaken
    BY <1>2, <2>8 DEF IsOrgOwner, IsOrgMember
  <2> HIDE DEF f
  <2> QED
    BY <1>1, <1>2, <2>1, <2>2, <2>5, <2>6, <2>7, <2>9, OneWrittenKeepsIInv
<1> QED
  BY <1>3, <1>4

LEMMA WriteMembershipKeepsIInv ==
  ASSUME IInv, NEW th \in Threads, WriteMembership(th)
  PROVE  IInv'
<1> DEFINE r == req[th]
           m == r.m
           f == [x \in {m} |-> Rewritten(x, r)]
<1>1. /\ pc[th] = "write" /\ Commit(th, {m}, f) /\ Return(th)
      /\ UNCHANGED <<user, orgs, issued>>
  BY DEF WriteMembership
<1>2. /\ r \in Requests /\ m \in Members /\ mem[m].status # "Absent"
      /\ m[2] \notin overtaken => mem[m] = r.row /\ GuardedStill(th)
  BY <1>1 DEF IInv, InFlight, Refers, LoadedStill, Org
<1>3. mem[m] \in Rows /\ f[m] = Rewritten(m, r)
  BY <1>2 DEF IInv, Types
<1>4. f[m] \in Rows /\ f[m].token = mem[m].token /\ f[m].status # "Absent"
      /\ (f[m].status = "Active" => mem[m].status = "Active")
  BY <1>2, <1>3 DEF Rewritten, Rows, Requests
<1>5. f[m].status = "Active" => f[m].token = NoToken \/ m[2] \in overtaken
  BY <1>2, <1>4 DEF IInv, TokensOpenOneMembership
<1>6. m[2] <= orgs /\ user[m[1]] # "Absent" /\ m = <<m[1], m[2]>>
  BY <1>2 DEF IInv, RowsBelong, Members
<1>7. \/ ~IsOrgOwner(m[1], m[2])
      \/ f[m].status = "Active" /\ f[m].role = "Owner"
      \/ m[2] \in overtaken
      \/ \E v \in Users \ {m[1]} : IsOrgOwner(v, m[2])
  <2>1. SUFFICES ASSUME IsOrgOwner(m[1], m[2]), m[2] \notin overtaken,
                        ~\E v \in Users \ {m[1]} : IsOrgOwner(v, m[2])
                 PROVE  f[m].status = "Active" /\ f[m].role = "Owner"
    OBVIOUS
  <2>2. r.row.role = "Owner" /\ mem[m].status = "Active" /\ mem[m].role = "Owner"
    BY <1>2, <1>6, <2>1 DEF IsOrgOwner, IsOrgMember
  <2>3. r.role = "Owner"
    BY <1>1, <1>2, <2>1, <2>2 DEF GuardedStill, Org
  <2> QED
    BY <1>3, <2>2, <2>3 DEF Rewritten, Removed, Rows
<1>8. /\ user' \in [Users -> {"Absent", "Pending", "Active"}] /\ user'[m[1]] # "Absent"
      /\ \A v \in Users : user[v] # "Absent" => user'[v] # "Absent"
  BY <1>1, <1>6 DEF IInv, Types
<1> HIDE DEF f
<1> QED
  BY <1>1, <1>2, <1>4, <1>5, <1>6, <1>7, <1>8, OneWrittenKeepsIInv

-----------------------------------------------------------------------------
LEMMA StepKeepsIInv == IInv /\ [Next]_vars => IInv'
<1> SUFFICES ASSUME IInv, [Next]_vars PROVE IInv'
  OBVIOUS
<1>1. CASE UNCHANGED vars
  <2>1. \A t \in Threads : InFlight(t)'
    BY <1>1, OthersInFlight, MembershipAssumption DEF vars, IInv, Types
  <2> QED
    BY <1>1, <2>1 DEF vars, IInv, Types, RowsBelong, TokensIssued, TokensOpenOneMembership,
                      OwnersUnlessOvertaken, HasOwner, IsOrgOwner, IsOrgMember
<1>2. CASE Next
  <2>1. PICK th \in Threads :
          \/ CreateOrganization(th)
          \/ RegisterRead(th) \/ RegisterWithToken(th)
          \/ RegisterWithOrganization(th) \/ RegisterRefused(th)
          \/ InviteCheck(th) \/ InviteRead(th) \/ InviteSend(th)
          \/ LoadMembership(th) \/ CheckPermission(th) \/ CheckLastOwner(th)
          \/ WriteMembership(th)
          \/ BindUser(th) \/ RequireActiveOrg(th) \/ ActInOrg(th)
    BY <1>2 DEF Next
  <2>2. CASE CreateOrganization(th) \/ RegisterWithOrganization(th)
    BY <2>2, CreateOrganizationKeepsIInv, RegisterWithOrganizationKeepsIInv
  <2>3. CASE RegisterRead(th) \/ RegisterWithToken(th)
    BY <2>3, RegisterReadKeepsIInv, RegisterWithTokenKeepsIInv
  <2>4. CASE RegisterRefused(th) \/ ActInOrg(th)
    BY <2>4, AnswersWell DEF RegisterRefused, ActInOrg, CommitNothing
  <2>5. CASE InviteCheck(th) \/ InviteRead(th) \/ InviteSend(th)
    BY <2>5, InviteCheckKeepsIInv, InviteReadKeepsIInv, InviteSendKeepsIInv
  <2>6. CASE LoadMembership(th) \/ CheckPermission(th) \/ CheckLastOwner(th)
    BY <2>6, LoadMembershipKeepsIInv, CheckPermissionKeepsIInv, CheckLastOwnerKeepsIInv
  <2>7. CASE WriteMembership(th) \/ BindUser(th) \/ RequireActiveOrg(th)
    BY <2>7, WriteMembershipKeepsIInv, BindUserKeepsIInv, RequireActiveOrgKeepsIInv
  <2> QED
    BY <2>1, <2>2, <2>3, <2>4, <2>5, <2>6, <2>7
<1> QED
  BY <1>1, <1>2

\* Types, and every membership is that of a known user in an existing
\* organization.
THEOREM MembershipTypes == Spec => []TypeOK
<1>1. IInv => TypeOK
  BY DEF IInv, TypeOK
<1> QED
  BY <1>1, InitIInv, StepKeepsIInv, PTL DEF Spec

\* The inductive invariant: what requests in flight have read still holds,
\* unless their organization was overtaken.
THEOREM MembershipInvariant == Spec => []IInv
BY InitIInv, StepKeepsIInv, PTL DEF Spec

\* The last-owner guard holds in every organization that was not overtaken.
THEOREM MembershipOwners == Spec => []OwnersUnlessOvertaken
<1>1. IInv => OwnersUnlessOvertaken
  BY DEF IInv
<1> QED
  BY <1>1, MembershipInvariant, PTL

\* A request acts with the role its caller has, unless it was overtaken.
THEOREM MembershipAuthority == Spec => []AuthorityUnlessOvertaken
<1>1. IInv => AuthorityUnlessOvertaken
  BY DEF IInv, InFlight, MayStill, AuthorityUnlessOvertaken
<1> QED
  BY <1>1, MembershipInvariant, PTL

\* No two memberships share a token; an accepted one has none unless overtaken.
THEOREM MembershipTokens == Spec => []TokensOpenOneMembership
<1>1. IInv => TokensOpenOneMembership
  BY DEF IInv
<1> QED
  BY <1>1, MembershipInvariant, PTL

-----------------------------------------------------------------------------
(* Requests that do not overlap: what overtakes them is nothing else.      *)

OneRequestAtATime ==
  \A s, t \in Threads : pc[s] # "idle" /\ pc[t] # "idle" => s = t

\* Nobody in flight asks for an organization that is not there yet.
LEMMA NewOrganizationOvertakesNone ==
  ASSUME IInv, overtaken = {}, NEW t \in Threads, NEW u
  PROVE  ~Overtakes(t, <<u, orgs + 1>>)
<1> SUFFICES ASSUME Overtakes(t, <<u, orgs + 1>>) PROVE FALSE
  OBVIOUS
<1>1. Org(t) = orgs + 1 /\ orgs \in Nat
  BY MembershipAssumption DEF Overtakes, IInv, Types
<1>2. Refers(t) /\ MayStill(t) /\ RowsBelong
  BY DEF IInv, InFlight
<1>3. CASE pc[t] \in {"check", "guard", "write"}
  BY <1>1, <1>2, <1>3 DEF Refers, RowsBelong, Org
<1>4. CASE pc[t] \in {"invite", "send"}
  BY <1>1, <1>2, <1>4 DEF Refers, Org
<1>5. CASE pc[t] = "act"
  <2>1. req[t].by \in Users /\ Org(t) \in Orgs
    BY <1>2, <1>5 DEF Refers, Requests
  <2>2. mem[<<req[t].by, Org(t)>>].status = "Active"
    BY <1>2, <1>5 DEF MayStill, IsOrgAdmin, IsOrgMember
  <2>3. <<req[t].by, Org(t)>> \in Members
    BY <2>1 DEF Members
  <2> QED
    BY <1>1, <1>2, <2>2, <2>3 DEF RowsBelong
<1> QED
  BY <1>3, <1>4, <1>5 DEF Overtakes

LEMMA NoneOvertaken ==
  IInv /\ overtaken = {} /\ OneRequestAtATime /\ [Next]_vars
    => (overtaken = {})'
<1> SUFFICES ASSUME IInv, overtaken = {}, OneRequestAtATime, [Next]_vars
             PROVE  (overtaken = {})'
  OBVIOUS
<1>1. ASSUME NEW th \in Threads, NEW ms, NEW f, Commit(th, ms, f), pc[th] # "idle"
      PROVE  overtaken' = {}
  <2>1. \A t \in Threads \ {th}, x \in ms : ~Overtakes(t, x)
    BY <1>1 DEF OneRequestAtATime, Overtakes
  <2> QED
    BY <1>1, <2>1 DEF Commit
<1>2. ASSUME NEW th \in Threads, CreateOrganization(th) PROVE overtaken' = {}
  <2>1. PICK u \in Users : NewOrganization(th, u)
    BY <1>2 DEF CreateOrganization
  <2>2. \A t \in Threads : ~Overtakes(t, <<u, orgs + 1>>)
    BY NewOrganizationOvertakesNone
  <2> QED
    BY <2>1, <2>2 DEF NewOrganization, Commit
<1>3. ASSUME NEW th \in Threads,
             RegisterWithToken(th) \/ RegisterWithOrganization(th)
               \/ InviteSend(th) \/ WriteMembership(th)
      PROVE  overtaken' = {}
  <2>1. pc[th] # "idle"
    BY <1>3 DEF RegisterWithToken, RegisterWithOrganization, InviteSend,
                WriteMembership
  <2>2. overtaken' = overtaken \/ \E ms, f : Commit(th, ms, f)
    BY <1>3 DEF RegisterWithToken, RegisterWithOrganization, NewOrganization,
                InviteSend, WriteMembership, CommitNothing
  <2> QED
    BY <1>1, <2>1, <2>2
<1>4. ASSUME NEW th \in Threads,
             \/ RegisterRead(th) \/ RegisterRefused(th)
             \/ InviteCheck(th) \/ InviteRead(th)
      PROVE  overtaken' = {}
  BY <1>4, Zenon DEF RegisterRead, RegisterRefused, InviteCheck, InviteRead, CommitNothing
<1>5. ASSUME NEW th \in Threads,
             \/ LoadMembership(th) \/ CheckPermission(th) \/ CheckLastOwner(th)
             \/ BindUser(th) \/ RequireActiveOrg(th) \/ ActInOrg(th)
      PROVE  overtaken' = {}
  BY <1>5, Zenon DEF LoadMembership, CheckPermission, CheckLastOwner, BindUser,
                     RequireActiveOrg, ActInOrg, CommitNothing
<1>6. CASE UNCHANGED vars
  BY <1>6 DEF vars
<1>7. CASE Next
  <2>1. PICK th \in Threads :
          \/ CreateOrganization(th)
          \/ RegisterRead(th) \/ RegisterWithToken(th)
          \/ RegisterWithOrganization(th) \/ RegisterRefused(th)
          \/ InviteCheck(th) \/ InviteRead(th) \/ InviteSend(th)
          \/ LoadMembership(th) \/ CheckPermission(th) \/ CheckLastOwner(th)
          \/ WriteMembership(th)
          \/ BindUser(th) \/ RequireActiveOrg(th) \/ ActInOrg(th)
    BY <1>7 DEF Next
  <2> QED
    BY <1>2, <1>3, <1>4, <1>5, <2>1
<1> QED
  BY <1>6, <1>7

\* Served one after the other, requests never take its last owner from an
\* organization: the guard of the code is right, and only its lack of a lock
\* can fail it.
THEOREM MembershipOwnersInTurn ==
  Spec /\ []OneRequestAtATime => []OrganizationKeepsAnOwner
<1>1. Init => IInv /\ overtaken = {}
  BY InitIInv DEF Init
<1>2. IInv /\ overtaken = {} => OrganizationKeepsAnOwner
  BY DEF IInv, OwnersUnlessOvertaken, OrganizationKeepsAnOwner
<1> QED
  BY <1>1, <1>2, StepKeepsIInv, NoneOvertaken, PTL DEF Spec

-----------------------------------------------------------------------------
(* What a step may do to one membership.                                   *)

LifecycleStep ==
  \A m \in Members :
    LET old == mem[m].status
        new == mem'[m].status
    IN  /\ old = "Inactive" => new \in {"Inactive", "Pending"}
        /\ old = "Active" => new \in {"Active", "Inactive"} \/ m[2] \in overtaken
        /\ old # "Absent" => new # "Absent"

LEMMA OneChanges ==
  ASSUME Types, NEW n \in Members, \A m \in Members \ {n} : mem'[m] = mem[m],
         mem[n].status = "Inactive" => mem'[n].status \in {"Inactive", "Pending"},
         mem[n].status = "Active" =>
           mem'[n].status \in {"Active", "Inactive"} \/ n[2] \in overtaken,
         mem[n].status # "Absent" => mem'[n].status # "Absent"
  PROVE  LifecycleStep
BY DEF LifecycleStep

LEMMA StepLifecycle ==
  ASSUME IInv, NEW th \in Threads,
         \/ \E u \in Users : NewOrganization(th, u)
         \/ RegisterWithToken(th) \/ InviteSend(th) \/ WriteMembership(th)
         \/ UNCHANGED mem
  PROVE  LifecycleStep
<1>1. CASE UNCHANGED mem
  BY <1>1 DEF LifecycleStep
<1>2. ASSUME NEW u \in Users, NewOrganization(th, u) PROVE LifecycleStep
  <2> DEFINE m == <<u, orgs + 1>>
             f == [x \in {m} |-> FirstOwner]
  <2>1. /\ m \in Members /\ mem[m].status = "Absent" /\ Commit(th, {m}, f)
        /\ mem'[m] = FirstOwner
    BY <1>2, NewOrganizationFacts
  <2> HIDE DEF m
  <2>2. /\ \A n \in Members \ {m} : mem'[n] = mem[n]
    BY <2>1 DEF Commit
  <2> QED
    BY <2>1, <2>2, OneChanges DEF FirstOwner, IInv
<1>3. CASE RegisterWithToken(th)
  <2>1. PICK m \in Claimable(req[th].token) :
          /\ SentTo(m, req[th].by)
          /\ Commit(th, {m, <<req[th].by, m[2]>>},
               [x \in {m, <<req[th].by, m[2]>>} |->
                  IF x[1] = req[th].by THEN Accepted(mem[m]) ELSE NoRow])
    BY <1>3 DEF RegisterWithToken
  <2>2. m \in Members /\ mem[m].status = "Pending" /\ m[1] = req[th].by
    BY <2>1 DEF Claimable, SentTo
  <2>3. m = <<req[th].by, m[2]>> /\ mem[m] \in Rows
    BY <2>2 DEF Members, IInv, Types
  <2>4. mem'[m] = Accepted(mem[m]) /\ \A n \in Members \ {m} : mem'[n] = mem[n]
    BY <2>1, <2>2, <2>3 DEF Commit
  <2>5. mem'[m].status = "Active"
    BY <2>3, <2>4 DEF Accepted, Rows
  <2> QED
    BY <2>2, <2>4, <2>5, OneChanges DEF IInv
<1>4. CASE InviteSend(th)
  <2> DEFINE r == req[th]
             m == r.m
  <2>1. /\ m \in Members
        /\ r.row.status # "Active"
        /\ r.row.status # "Absent" => mem[m].status # "Absent"
        /\ m[2] \notin overtaken => mem[m] = r.row
    BY <1>4 DEF IInv, InFlight, Refers, LoadedStill, Org, InviteSend
  <2>2. CASE InviteConflict(r)
    BY <1>1, <1>4, <2>2 DEF InviteSend, CommitNothing
  <2>3. CASE ~InviteConflict(r)
    <3>1. Commit(th, {m}, [x \in {m} |-> Invited(m, r, issued + 1)])
      BY <1>4, <2>3 DEF InviteSend
    <3>2. /\ mem'[m] = Invited(m, r, issued + 1)
          /\ \A n \in Members \ {m} : mem'[n] = mem[n]
      BY <2>1, <3>1 DEF Commit
    <3>3. mem'[m].status \in {"Pending", mem[m].status}
      BY <3>2 DEF Invited
    <3>4. mem[m].status = "Active" => m[2] \in overtaken
      BY <2>1
    <3> HIDE DEF m
    <3>5. /\ mem[m].status = "Inactive" => mem'[m].status \in {"Inactive", "Pending"}
          /\ mem[m].status = "Active" =>
               mem'[m].status \in {"Active", "Inactive"} \/ m[2] \in overtaken
          /\ mem[m].status # "Absent" => mem'[m].status # "Absent"
      BY <3>3, <3>4
    <3>6. Types
      BY DEF IInv
    <3> QED
      BY <2>1, <3>2, <3>5, <3>6, OneChanges
  <2> QED
    BY <2>2, <2>3
<1>5. CASE WriteMembership(th)
  <2> DEFINE r == req[th]
             m == r.m
  <2>1. m \in Members /\ mem[m] \in Rows
    BY <1>5 DEF IInv, InFlight, Refers, WriteMembership, Types
  <2>2. Commit(th, {m}, [x \in {m} |-> Rewritten(x, r)])
    BY <1>5 DEF WriteMembership
  <2>3. /\ mem'[m] = Rewritten(m, r)
        /\ \A n \in Members \ {m} : mem'[n] = mem[n]
    BY <2>1, <2>2 DEF Commit
  <2>4. mem'[m].status \in {mem[m].status, "Inactive"}
    BY <2>1, <2>3 DEF Rewritten, Rows
  <2> HIDE DEF m
  <2> QED
    BY <2>1, <2>3, <2>4, OneChanges DEF IInv
<1> QED
  BY <1>1, <1>2, <1>3, <1>4, <1>5

\* A removed member comes back by invitation only, however requests interleave.
THEOREM MembershipLifecycles == Spec => MembershipLifecycle
<1>1. IInv /\ [Next]_vars => [LifecycleStep]_vars
  <2> SUFFICES ASSUME IInv, Next PROVE LifecycleStep
    OBVIOUS
  <2>1. PICK th \in Threads :
          \/ \E u \in Users : NewOrganization(th, u)
          \/ pc[th] = "register" /\ NewOrganization(th, req[th].by)
          \/ RegisterWithToken(th) \/ InviteSend(th) \/ WriteMembership(th)
          \/ UNCHANGED mem
    BY DEF Next, CreateOrganization, RegisterRead, RegisterWithOrganization, RegisterRefused,
           InviteCheck, InviteRead, LoadMembership, CheckPermission, CheckLastOwner,
           BindUser, RequireActiveOrg, ActInOrg, CommitNothing
  <2>2. pc[th] = "register" => req[th].by \in Users
    BY DEF IInv, InFlight, Refers, Requests
  <2> QED
    BY <2>1, <2>2, StepLifecycle
<1>2. [][LifecycleStep]_vars <=> MembershipLifecycle
  BY DEF LifecycleStep, MembershipLifecycle
<1>3. Spec => [][LifecycleStep]_vars
  BY <1>1, InitIInv, StepKeepsIInv, PTL DEF Spec
<1> QED
  BY <1>2, <1>3

-----------------------------------------------------------------------------
(* How a user becomes active.                                              *)

ClaimStep ==
  \A u \in Users :
    user[u] # "Active" /\ user'[u] = "Active" =>
      \E o \in Orgs :
        /\ mem'[<<u, o>>].status = "Active"
        /\ mem[<<u, o>>].status = IF user[u] = "Pending" THEN "Pending" ELSE "Absent"
        /\ user[u] = "Absent" => o = orgs + 1

LEMMA TokenClaims ==
  ASSUME IInv, NEW th \in Threads, RegisterWithToken(th)
  PROVE  ClaimStep
<1> DEFINE u == req[th].by
<1>1. PICK m \in Claimable(req[th].token) :
        /\ SentTo(m, u)
        /\ user' = [user EXCEPT ![u] = "Active"]
        /\ Commit(th, {m, <<u, m[2]>>},
             [x \in {m, <<u, m[2]>>} |-> IF x[1] = u THEN Accepted(mem[m]) ELSE NoRow])
  BY DEF RegisterWithToken
<1>2. m \in Members /\ mem[m].status = "Pending" /\ m[1] = u
  BY <1>1 DEF Claimable, SentTo
<1>3. m = <<u, m[2]>> /\ m[2] \in Orgs /\ u \in Users /\ mem[m] \in Rows
  BY <1>2 DEF Members, IInv, Types
<1>4. mem'[m] = Accepted(mem[m])
  BY <1>1, <1>2, <1>3 DEF Commit
<1>5. mem'[m].status = "Active"
  BY <1>3, <1>4 DEF Accepted, Rows
<1>6. user[u] # "Absent"
  BY <1>2 DEF IInv, RowsBelong
<1>7. user \in [Users -> {"Absent", "Pending", "Active"}]
  BY DEF IInv, Types
<1>8. ASSUME NEW v \in Users, user[v] # "Active", user'[v] = "Active"
      PROVE  v = u /\ user[v] = "Pending"
  BY <1>1, <1>3, <1>6, <1>7, <1>8
<1>9. /\ m[2] \in Orgs
      /\ mem'[<<u, m[2]>>].status = "Active" /\ mem[<<u, m[2]>>].status = "Pending"
  BY <1>2, <1>3, <1>5
<1> HIDE DEF u
<1> QED
  BY <1>8, <1>9 DEF ClaimStep

LEMMA OrganizationClaims ==
  ASSUME IInv, NEW th \in Threads, RegisterWithOrganization(th)
  PROVE  ClaimStep
<1> DEFINE u == req[th].by
<1>1. /\ pc[th] = "register" /\ req[th].token = NoToken /\ MayFlush(req[th])
      /\ user' = [user EXCEPT ![u] = "Active"]
      /\ NewOrganization(th, u)
  BY DEF RegisterWithOrganization
<1>2. u \in Users /\ ~req[th].known
  <2>1. Refers(th)
    BY DEF IInv, InFlight
  <2> QED
    BY <1>1, <2>1 DEF Refers, Requests
<1>3. user[u] = "Absent"
  BY <1>1, <1>2 DEF MayFlush
<1>4. /\ <<u, orgs + 1>> \in Members /\ mem[<<u, orgs + 1>>].status = "Absent"
      /\ mem'[<<u, orgs + 1>>].status = "Active"
  <2>1. mem'[<<u, orgs + 1>>] = FirstOwner
    BY <1>1, <1>2, NewOrganizationFacts
  <2>2. mem'[<<u, orgs + 1>>].status = "Active"
    BY <2>1 DEF FirstOwner
  <2> QED
    BY <1>1, <1>2, <2>2, NewOrganizationFacts
<1>5. orgs + 1 \in Orgs
  BY <1>4 DEF Members
<1>6. user \in [Users -> {"Absent", "Pending", "Active"}]
  BY DEF IInv, Types
<1>7. ASSUME NEW v \in Users, user[v] # "Active", user'[v] = "Active" PROVE v = u
  BY <1>1, <1>2, <1>6, <1>7
<1> HIDE DEF u
<1> QED
  BY <1>3, <1>4, <1>5, <1>7 DEF ClaimStep

\* A user becomes active by a pending membership of his, or, if nobody had
\* invited him, with a new organization, however requests interleave.
THEOREM MembershipClaims == Spec => ClaimedByInvitation
<1>1. IInv /\ [Next]_vars => [ClaimStep]_vars
  <2> SUFFICES ASSUME IInv, Next PROVE ClaimStep
    OBVIOUS
  <2>1. PICK th \in Threads :
          \/ UNCHANGED user \/ RegisterWithToken(th) \/ RegisterWithOrganization(th)
          \/ InviteSend(th)
    BY DEF Next, CreateOrganization, RegisterRead, RegisterRefused, WriteMembership,
           InviteCheck, InviteRead, LoadMembership, CheckPermission, CheckLastOwner,
           BindUser, RequireActiveOrg, ActInOrg
  <2>2. CASE UNCHANGED user
    BY <2>2 DEF ClaimStep
  <2>3. CASE InviteSend(th)
    <3>1. \A u \in Users : user'[u] \in {user[u], "Pending"}
      BY <2>3 DEF InviteSend, CommitNothing, IInv, Types
    <3> QED
      BY <3>1 DEF ClaimStep
  <2> QED
    BY <2>1, <2>2, <2>3, TokenClaims, OrganizationClaims
<1>2. [][ClaimStep]_vars <=> ClaimedByInvitation
  BY DEF ClaimStep, ClaimedByInvitation
<1>3. Spec => [][ClaimStep]_vars
  BY <1>1, InitIInv, StepKeepsIInv, PTL DEF Spec
<1> QED
  BY <1>2, <1>3

=============================================================================
