----------------------------- MODULE AccessProofs -----------------------------
(***************************************************************************)
(* Proved of Access, for any tokens, grants, requests and workers: its     *)
(* type invariant; no request acts on a site that its token's grants do    *)
(* not cover; a key that is revoked while it is read gives its request no  *)
(* rights, no request ever has rights that its token was not issued with,  *)
(* and a confirmed purge destroys what its user was asked about. And of    *)
(* Portal, for any labels and any domains: the host name of a site leads   *)
(* back to it, and the tree of groups shows every listed site once.        *)
(***************************************************************************)
EXTENDS Portal, FiniteSetTheorems, SequenceTheorems, Folding, TLAPS

(* A token that has been issued.                                           *)
Known(t) == t \in Tokens /\ issued[t] # None

(* The tables: ids are unique and in the past, no grant is without a key,  *)
(* and a row says of a token what it was issued with.                      *)
IssuedOK == issued \in [Tokens -> Shapes \union {None}]
UniqueIds ==
  /\ nextKey \in Nat
  /\ \A k \in keys : k.id \in Nat /\ k.id < nextKey
  /\ \A k, l \in keys : k.id = l.id => k = l
NoOrphans == \A g \in keyGrants : \E k \in keys : k.id = g.key
KeysAsIssued ==
  \A k \in keys :
    /\ Known(k.token) /\ k.admin = issued[k.token].admin
    /\ \A g \in keyGrants : g.key = k.id => g.grant \in issued[k.token].grants
MCPAsIssued ==
  \A r \in mcpTokens : Known(r.token) /\ r.grants \subseteq issued[r.token].grants
TablesOK == IssuedOK /\ UniqueIds /\ NoOrphans /\ KeysAsIssued /\ MCPAsIssued

(* A request between the two statements: its id is not given out to        *)
(* another key, even if its own is gone.                                   *)
FoundOK(j) ==
  j.pc = "grants" =>
    /\ Known(j.token) /\ j.admin = issued[j.token].admin
    /\ j.id \in Nat /\ j.id < nextKey
    /\ \A k \in keys : k.id = j.id => k.token = j.token

(* A request that was let in.                                              *)
PrincipalOK(j) ==
  j.pc = "in" =>
    /\ Known(j.token)
    /\ j.admin => issued[j.token].admin
    /\ j.grants \subseteq issued[j.token].grants
    /\ j.late => j.grants = {}

JobsOK ==
  /\ job = [w \in Workers |-> job[w]]
  /\ \A w \in Workers : FoundOK(job[w]) /\ PrincipalOK(job[w])

EffectOK ==
  effect # None => Known(effect.token) /\ (effect.late => issued[effect.token].admin)

IInv == TablesOK /\ JobsOK /\ EffectOK

(* No request has rights that its token was not issued with.               *)
PrincipalsAsIssued ==
  \A w \in Workers :
    job[w].pc = "in" =>
      /\ job[w].grants \subseteq issued[job[w].token].grants
      /\ job[w].admin => issued[job[w].token].admin

-----------------------------------------------------------------------------
(* None is not among what is issued.                                       *)
LEMMA ShapesAreSomething == \A s \in Shapes : s # None
<1> SUFFICES ASSUME NEW s \in Shapes PROVE s # None
  OBVIOUS
<1>1. DOMAIN s = {"via", "user", "admin", "grants"}
  BY AccessAssumption DEF ShapeOK
<1>2. DOMAIN None = {"none"}
  BY DEF None
<1> QED BY <1>1, <1>2

(* The invariant holds at first.                                           *)
LEMMA InvInit == Init => IInv
BY DEF Init, IInv, TablesOK, IssuedOK, UniqueIds, NoOrphans, KeysAsIssued,
       MCPAsIssued, JobsOK, FoundOK, PrincipalOK, EffectOK, Idle

-----------------------------------------------------------------------------
(* Steps of requests leave the tables alone.                               *)

LEMMA TablesStay == TablesOK /\ UNCHANGED <<tables, issued>> => TablesOK'
BY DEF TablesOK, IssuedOK, UniqueIds, NoOrphans, KeysAsIssued, MCPAsIssued,
       Known, tables

(* Nor do they change each other.                                          *)
LEMMA JobsStay == JobsOK /\ UNCHANGED <<tables, issued, job>> => JobsOK'
BY DEF JobsOK, FoundOK, PrincipalOK, Known, tables

(* A request goes on to what is in order.                                  *)
LEMMA Entering ==
  ASSUME JobsOK, NEW w \in Workers, NEW j, Enter(w, j),
         FoundOK(j), PrincipalOK(j), UNCHANGED <<tables, issued>>
  PROVE  JobsOK'
<1>1. job' = [v \in Workers |-> job'[v]]
  BY DEF JobsOK, Enter
<1>2. ASSUME NEW v \in Workers PROVE FoundOK(job[v])' /\ PrincipalOK(job[v])'
  <2>1. job'[v] = IF v = w THEN j ELSE job[v]
    BY DEF JobsOK, Enter
  <2> QED BY <2>1 DEF JobsOK, FoundOK, PrincipalOK, Known, tables
<1> QED BY <1>1, <1>2 DEF JobsOK

LEMMA Ending ==
  ASSUME JobsOK, NEW w \in Workers, Enter(w, Idle), UNCHANGED <<tables, issued>>
  PROVE  JobsOK'
BY Entering DEF FoundOK, PrincipalOK, Idle

(* The operation leaves the effect of a principal that may have it.        *)
LEMMA Acting ==
  ASSUME IInv, NEW w \in Workers, NEW op, NEW d, NEW answer,
         At(w, "in"), NEW c, NEW g, NEW s, Can(job[w], c, g, s),
         Done(w, op, d, answer)
  PROVE  IInv'
<1>1. UNCHANGED <<tables, issued>> /\ Enter(w, Idle)
  BY DEF Done
<1>2. TablesOK' /\ JobsOK'
  BY <1>1, TablesStay, Ending DEF IInv
<1>3. PrincipalOK(job[w]) /\ job[w].pc = "in"
  BY DEF IInv, JobsOK, At
<1>4. job[w].late => issued[job[w].token].admin
  BY <1>3 DEF PrincipalOK, Can
<1>5. effect'.token = job[w].token /\ effect'.late = job[w].late
  BY DEF Done
<1>6. EffectOK'
  BY <1>1, <1>3, <1>4, <1>5 DEF EffectOK, PrincipalOK, Known
<1> QED BY <1>2, <1>6 DEF IInv

(* A step without an effect.                                               *)
LEMMA QuietEffect == NoEffect => EffectOK'
BY DEF NoEffect, EffectOK

-----------------------------------------------------------------------------
(* Requests.                                                               *)

(* The row of a key says what its token was issued with.                   *)
LEMMA FindKeyStep ==
  ASSUME IInv, NEW w \in Workers, NEW k \in keys, FindKey(w, k)
  PROVE  IInv'
<1> DEFINE j == [pc |-> "grants", token |-> k.token, id |-> k.id,
                 user |-> k.user, admin |-> k.admin]
<1>1. Enter(w, j) /\ NoEffect /\ UNCHANGED <<tables, issued>>
  BY DEF FindKey
<1>2. FoundOK(j)
  BY DEF IInv, TablesOK, UniqueIds, KeysAsIssued, FoundOK
<1>3. PrincipalOK(j)
  BY DEF PrincipalOK
<1> HIDE DEF j
<1>4. JobsOK'
  BY <1>1, <1>2, <1>3, Entering DEF IInv
<1> QED BY <1>1, <1>4, TablesStay, QuietEffect DEF IInv

(* If the key is gone, so are its grants; else they are those of its token. *)
LEMMA LoadGrantsStep ==
  ASSUME IInv, NEW w \in Workers, LoadGrants(w)
  PROVE  IInv'
<1> DEFINE loaded == {g.grant : g \in {h \in keyGrants : h.key = job[w].id}}
           gone   == \A k \in keys : k.token # job[w].token
           j == [pc |-> "in", token |-> job[w].token, via |-> "key",
                 user |-> job[w].user, admin |-> job[w].admin,
                 grants |-> loaded, late |-> gone]
<1>1. Enter(w, j) /\ NoEffect /\ UNCHANGED <<tables, issued>>
  BY DEF LoadGrants
<1>2. FoundOK(job[w]) /\ job[w].pc = "grants"
  BY DEF LoadGrants, At, IInv, JobsOK
<1>3. loaded \subseteq issued[job[w].token].grants
  <2> SUFFICES ASSUME NEW g \in keyGrants, g.key = job[w].id
               PROVE  g.grant \in issued[job[w].token].grants
    OBVIOUS
  <2>1. PICK k \in keys : k.id = g.key
    BY DEF IInv, TablesOK, NoOrphans
  <2>2. k.token = job[w].token
    BY <1>2, <2>1 DEF FoundOK
  <2> QED BY <2>1, <2>2 DEF IInv, TablesOK, KeysAsIssued
<1>4. gone => loaded = {}
  BY <1>2 DEF FoundOK, IInv, TablesOK, NoOrphans
<1>5. PrincipalOK(j)
  BY <1>2, <1>3, <1>4 DEF PrincipalOK, FoundOK
<1>6. FoundOK(j)
  BY DEF FoundOK
<1> HIDE DEF j
<1>7. JobsOK'
  BY <1>1, <1>5, <1>6, Entering DEF IInv
<1> QED BY <1>1, <1>7, TablesStay, QuietEffect DEF IInv

(* The row of a token carries its grants.                                  *)
LEMMA VerifyTokenStep ==
  ASSUME IInv, NEW w \in Workers, NEW r \in mcpTokens, VerifyToken(w, r)
  PROVE  IInv'
<1> DEFINE j == [pc |-> "in", token |-> r.token, via |-> "mcp",
                 user |-> r.user, admin |-> FALSE, grants |-> r.grants,
                 late |-> FALSE]
<1>1. Enter(w, j) /\ NoEffect /\ UNCHANGED <<tables, issued>>
  BY DEF VerifyToken
<1>2. FoundOK(j) /\ PrincipalOK(j)
  BY DEF IInv, TablesOK, MCPAsIssued, FoundOK, PrincipalOK
<1> HIDE DEF j
<1>3. JobsOK'
  BY <1>1, <1>2, Entering DEF IInv
<1> QED BY <1>1, <1>3, TablesStay, QuietEffect DEF IInv

(* What the ingest API does, a principal may do.                           *)
LEMMA IngestStep ==
  ASSUME IInv, NEW w \in Workers, NEW r \in Requests, Ingest(w, r)
  PROVE  IInv'
BY Acting DEF Ingest, Act

(* And so with the tools.                                                  *)
LEMMA CallToolStep ==
  ASSUME IInv, NEW w \in Workers, NEW r \in Requests, NEW q, CallTool(w, r, q)
  PROVE  IInv'
BY Acting DEF CallTool, Admitted, Act

LEMMA ListSitesStep ==
  ASSUME IInv, NEW w \in Workers, NEW d \in SitePath, ListSites(w, d)
  PROVE  IInv'
BY Acting DEF ListSites

(* All steps of a request.                                                 *)
LEMMA ServeStep ==
  ASSUME IInv, NEW w \in Workers, Serve(w)
  PROVE  IInv'
<1>1. CASE Leave(w)
  BY <1>1, Ending, TablesStay, QuietEffect DEF Leave, IInv
<1>2. CASE \E r \in Requests : AskPurge(w, r)
  BY <1>2, Ending, TablesStay, QuietEffect DEF AskPurge, IInv
<1> QED BY <1>1, <1>2, FindKeyStep, LoadGrantsStep, VerifyTokenStep,
           IngestStep, CallToolStep, ListSitesStep DEF Serve

(* Confirmations have no part in it.                                       *)
LEMMA LapseStep == ASSUME IInv, NEW q \in prompts, Lapse(q) PROVE IInv'
BY JobsStay, TablesStay, QuietEffect DEF Lapse, IInv, tables

(* Nothing is left of the requests.                                        *)
LEMMA RestartStep == ASSUME IInv, Restart PROVE IInv'
<1>1. JobsOK'
  BY DEF Restart, JobsOK, FoundOK, PrincipalOK, Idle
<1> QED BY <1>1, TablesStay, QuietEffect DEF Restart, IInv

-----------------------------------------------------------------------------
(* Keys and tokens.                                                        *)

(* What is known of a token stays when another is issued.                  *)
LEMMA Issuing ==
  ASSUME IssuedOK, NEW t \in Tokens, NEW s \in Shapes, issued[t] = None,
         issued' = [issued EXCEPT ![t] = s]
  PROVE  /\ IssuedOK'
         /\ Known(t)' /\ issued'[t] = s
         /\ \A u : Known(u) => u # t /\ Known(u)' /\ issued'[u] = issued[u]
BY ShapesAreSomething DEF IssuedOK, Known

(* A new key has an id of its own, and so no request has read it.          *)
LEMMA CreateKeyStep ==
  ASSUME IInv, NEW t \in Tokens, NEW s \in Shapes, CreateKey(t, s)
  PROVE  IInv'
<1> DEFINE new == [id |-> nextKey, token |-> t, user |-> s.user,
                   admin |-> s.admin]
<1>1. /\ keys' = keys \union {new}
      /\ keyGrants' = keyGrants \union [key : {nextKey}, grant : s.grants]
      /\ nextKey' = nextKey + 1 /\ issued[t] = None
      /\ issued' = [issued EXCEPT ![t] = s]
      /\ NoEffect /\ UNCHANGED <<mcpTokens, job>>
  BY DEF CreateKey, InsertKey
<1>2. /\ IssuedOK'
      /\ Known(t)' /\ issued'[t] = s
      /\ \A u : Known(u) => u # t /\ Known(u)' /\ issued'[u] = issued[u]
  BY <1>1, Issuing DEF IInv, TablesOK
<1>3. new.id = nextKey /\ new.token = t /\ new.admin = s.admin
  OBVIOUS
<1> HIDE DEF new
<1>4. /\ \A k \in keys' : k \in keys \/ k = new
      /\ \A g \in keyGrants' :
           g \in keyGrants \/ (g.key = nextKey /\ g.grant \in s.grants)
  BY <1>1
<1>5. /\ nextKey \in Nat
      /\ \A k \in keys : k.id \in Nat /\ k.id < nextKey
      /\ \A g \in keyGrants : g.key # nextKey
  BY DEF IInv, TablesOK, UniqueIds, NoOrphans
<1>6. UniqueIds'
  BY <1>1, <1>3, <1>4, <1>5 DEF IInv, TablesOK, UniqueIds
<1>7. NoOrphans'
  BY <1>1, <1>3, <1>4 DEF IInv, TablesOK, NoOrphans
<1>8. KeysAsIssued'
  <2> SUFFICES ASSUME NEW k \in keys'
               PROVE  /\ Known(k.token)' /\ k.admin = issued'[k.token].admin
                      /\ \A g \in keyGrants' :
                           g.key = k.id => g.grant \in issued'[k.token].grants
    BY DEF KeysAsIssued
  <2>1. CASE k = new
    BY <1>2, <1>3, <1>4, <1>5, <2>1
  <2>2. CASE k \in keys
    BY <1>2, <1>4, <1>5, <2>2 DEF IInv, TablesOK, KeysAsIssued
  <2> QED BY <1>4, <2>1, <2>2
<1>9. MCPAsIssued'
  BY <1>1, <1>2 DEF IInv, TablesOK, MCPAsIssued
<1>10. JobsOK'
  <2>1. ASSUME NEW w \in Workers PROVE FoundOK(job[w])' /\ PrincipalOK(job[w])'
    BY <1>1, <1>2, <1>3, <1>4, <1>5 DEF IInv, JobsOK, FoundOK, PrincipalOK
  <2> QED BY <1>1, <2>1 DEF IInv, JobsOK
<1> QED BY <1>1, <1>2, <1>6, <1>7, <1>8, <1>9, <1>10, QuietEffect
        DEF IInv, TablesOK

(* A token of a connection is issued with its grants.                      *)
LEMMA IssueTokenStep ==
  ASSUME IInv, NEW t \in Tokens, NEW s \in Shapes, IssueToken(t, s)
  PROVE  IInv'
<1>1. /\ issued[t] = None /\ issued' = [issued EXCEPT ![t] = s]
      /\ NoEffect /\ UNCHANGED <<keys, keyGrants, nextKey, job>>
      /\ \A r \in mcpTokens' :
           r \in mcpTokens \/ (r.token = t /\ r.grants = s.grants)
  BY DEF IssueToken
<1>2. /\ IssuedOK'
      /\ Known(t)' /\ issued'[t] = s
      /\ \A u : Known(u) => u # t /\ Known(u)' /\ issued'[u] = issued[u]
  BY <1>1, Issuing DEF IInv, TablesOK
<1>3. UniqueIds' /\ NoOrphans'
  BY <1>1 DEF IInv, TablesOK, UniqueIds, NoOrphans
<1>4. KeysAsIssued'
  BY <1>1, <1>2 DEF IInv, TablesOK, KeysAsIssued
<1>5. MCPAsIssued'
  BY <1>1, <1>2 DEF IInv, TablesOK, MCPAsIssued
<1>6. JobsOK'
  <2>1. ASSUME NEW w \in Workers PROVE FoundOK(job[w])' /\ PrincipalOK(job[w])'
    BY <1>1, <1>2 DEF IInv, JobsOK, FoundOK, PrincipalOK
  <2> QED BY <1>1, <2>1 DEF IInv, JobsOK
<1> QED BY <1>1, <1>2, <1>3, <1>4, <1>5, <1>6, QuietEffect DEF IInv, TablesOK

(* The grants of the key go with it, so no other one is left an orphan.    *)
LEMMA DeleteKeyStep ==
  ASSUME IInv, NEW k \in keys, DeleteKey(k)
  PROVE  IInv'
<1>1. /\ keys' = keys \ {k} /\ keyGrants' = {g \in keyGrants : g.key # k.id}
      /\ NoEffect /\ UNCHANGED <<nextKey, mcpTokens, job, issued>>
  BY DEF DeleteKey
<1>2. TablesOK'
  BY <1>1 DEF IInv, TablesOK, IssuedOK, UniqueIds, NoOrphans, KeysAsIssued,
              MCPAsIssued, Known
<1>3. JobsOK'
  BY <1>1 DEF IInv, JobsOK, FoundOK, PrincipalOK, Known
<1> QED BY <1>1, <1>2, <1>3, QuietEffect DEF IInv

(* Fewer tokens can do no harm.                                            *)
LEMMA RevokeTokenStep ==
  ASSUME IInv, NEW r \in mcpTokens, RevokeToken(r)
  PROVE  IInv'
<1>1. /\ mcpTokens' \subseteq mcpTokens /\ NoEffect
      /\ UNCHANGED <<keys, keyGrants, nextKey, job, issued>>
  BY DEF RevokeToken
<1>2. TablesOK'
  BY <1>1 DEF IInv, TablesOK, IssuedOK, UniqueIds, NoOrphans, KeysAsIssued,
              MCPAsIssued, Known
<1>3. JobsOK'
  BY <1>1 DEF IInv, JobsOK, FoundOK, PrincipalOK, Known
<1> QED BY <1>1, <1>2, <1>3, QuietEffect DEF IInv

-----------------------------------------------------------------------------
(* The invariant is inductive.                                             *)
LEMMA InvStep == IInv /\ [Next]_vars => IInv'
<1> SUFFICES ASSUME IInv, [Next]_vars PROVE IInv'
  OBVIOUS
<1>1. CASE Manage
  BY <1>1, CreateKeyStep, IssueTokenStep, DeleteKeyStep, RevokeTokenStep
     DEF Manage
<1>2. CASE UNCHANGED vars
  <2>1. EffectOK'
    BY <1>2 DEF vars, IInv, EffectOK, Known
  <2> QED BY <1>2, <2>1, TablesStay, JobsStay DEF vars, tables, IInv
<1> QED BY <1>1, <1>2, ServeStep, LapseStep, RestartStep DEF Next

(* Tables, requests and effects are always in order.                       *)
THEOREM Inductive == Spec => []IInv
BY InvInit, InvStep, PTL DEF Spec

(* Whatever keys are created and revoked while requests are being let in,  *)
(* an effect that comes of a key revoked between the two statements that   *)
(* read it is an administrator's.                                          *)
THEOREM RevokedKeysAreGoodForNothing == Spec => []RevocationFailsClosed
<1>1. IInv => RevocationFailsClosed
  BY DEF IInv, EffectOK, RevocationFailsClosed
<1> QED BY <1>1, Inductive, PTL

(* The grants a request acts under are among those of its token, and it is *)
(* an administrator only if its token is.                                  *)
THEOREM NoRightsBeyondTheToken == Spec => []PrincipalsAsIssued
<1>1. IInv => PrincipalsAsIssued
  BY DEF IInv, JobsOK, PrincipalOK, PrincipalsAsIssued
<1> QED BY <1>1, Inductive, PTL

-----------------------------------------------------------------------------
(* Confirmations.                                                          *)

(* Rows and requests carry the user their token was issued to.             *)
UsersOK ==
  /\ \A k \in keys : k.user = issued[k.token].user
  /\ \A r \in mcpTokens : r.user = issued[r.token].user
  /\ \A w \in Workers :
       job[w].pc \in {"grants", "in"} => job[w].user = issued[job[w].token].user

AnswerInv == UsersOK /\ PurgeAnswersItsQuestion

(* Nothing becomes of users in a step that issues no token.                *)
LEMMA UsersStay ==
  ASSUME IInv, UsersOK, keys' \subseteq keys, mcpTokens' \subseteq mcpTokens,
         UNCHANGED issued,
         \A w \in Workers :
           \/ job'[w] = job[w]
           \/ job'[w].pc \in {"grants", "in"} =>
                job'[w].user = issued[job'[w].token].user
  PROVE  UsersOK'
<1>1. \A k \in keys' : k.user = issued'[k.token].user
  BY DEF UsersOK
<1>2. \A r \in mcpTokens' : r.user = issued'[r.token].user
  BY DEF UsersOK
<1>3. ASSUME NEW w \in Workers, job'[w].pc \in {"grants", "in"}
      PROVE  job'[w].user = issued'[job'[w].token].user
  BY <1>3 DEF UsersOK
<1> QED BY <1>1, <1>2, <1>3 DEF UsersOK

LEMMA UsersEnter ==
  ASSUME IInv, UsersOK, NEW w \in Workers, NEW j, Enter(w, j),
         j.pc \in {"grants", "in"} => j.user = issued[j.token].user,
         UNCHANGED <<tables, issued>>
  PROVE  UsersOK'
<1>1. \A v \in Workers : job'[v] = IF v = w THEN j ELSE job[v]
  BY DEF Enter, IInv, JobsOK
<1>2. UNCHANGED issued /\ keys' = keys /\ mcpTokens' = mcpTokens
  BY DEF tables
<1> QED BY <1>1, <1>2, UsersStay

LEMMA UsersLeave ==
  ASSUME IInv, UsersOK, NEW w \in Workers, Enter(w, Idle),
         UNCHANGED <<tables, issued>>
  PROVE  UsersOK'
BY UsersEnter DEF Idle

(* A token is issued to a user, and those known keep theirs.               *)
LEMMA UsersIssue ==
  ASSUME IInv, UsersOK, NEW t \in Tokens, NEW s \in Shapes, issued[t] = None,
         issued' = [issued EXCEPT ![t] = s], UNCHANGED job,
         \A k \in keys' : k \in keys \/ (k.token = t /\ k.user = s.user),
         \A r \in mcpTokens' : r \in mcpTokens \/ (r.token = t /\ r.user = s.user)
  PROVE  UsersOK'
<1>1. /\ issued'[t] = s
      /\ \A u : Known(u) => issued'[u] = issued[u]
  BY Issuing DEF IInv, TablesOK
<1>2. \A k \in keys' : k.user = issued'[k.token].user
  BY <1>1 DEF UsersOK, IInv, TablesOK, KeysAsIssued
<1>3. \A r \in mcpTokens' : r.user = issued'[r.token].user
  BY <1>1 DEF UsersOK, IInv, TablesOK, MCPAsIssued
<1>4. ASSUME NEW w \in Workers, job'[w].pc \in {"grants", "in"}
      PROVE  job'[w].user = issued'[job'[w].token].user
  <2>1. Known(job[w].token)
    BY <1>4 DEF IInv, JobsOK, FoundOK, PrincipalOK
  <2> QED BY <1>1, <1>4, <2>1 DEF UsersOK
<1> QED BY <1>2, <1>3, <1>4 DEF UsersOK

(* An effect without a confirmation answers no question.                   *)
LEMMA Unanswered ==
  ASSUME effect' = None \/ effect'.answer = None
  PROVE  PurgeAnswersItsQuestion'
BY DEF PurgeAnswersItsQuestion

(* A confirmation that is accepted is the very one the first round hands   *)
(* out for what the tool is called with.                                   *)
LEMMA CallToolAnswers ==
  ASSUME IInv, UsersOK, NEW w \in Workers, NEW r, NEW q, CallTool(w, r, q)
  PROVE  PurgeAnswersItsQuestion'
<1> DEFINE d == ToolTarget(r)
<1>1. /\ effect' = [token |-> job[w].token, op |-> r.op, site |-> d,
                    late |-> job[w].late, answer |-> q]
      /\ UNCHANGED issued /\ job[w].pc = "in" /\ d # NoSite
  BY DEF CallTool, Act, Done, Admitted, At
<1>2. d = NewSitePath(GroupNamed(r), r.slug)
  BY <1>1 DEF ToolTarget
<1> HIDE DEF d
<1>3. effect'.answer = q /\ effect'.site = d /\ effect'.token = job[w].token
  BY <1>1
<1>4. CASE q = None
  BY <1>3, <1>4, Unanswered
<1>5. CASE q # None
  <2>1. q = [user |-> job[w].user, group |-> GroupNamed(r), slug |-> r.slug]
    BY <1>5 DEF CallTool, PurgeTokenValid, Prompt
  <2>2. q.user = job[w].user /\ q.group = GroupNamed(r) /\ q.slug = r.slug
    BY <2>1
  <2>3. job[w].user = issued'[job[w].token].user
    BY <1>1 DEF UsersOK
  <2> QED BY <1>2, <1>3, <2>2, <2>3 DEF PurgeAnswersItsQuestion
<1> QED BY <1>4, <1>5

LEMMA AnswerServe ==
  ASSUME IInv, AnswerInv, NEW w \in Workers, Serve(w)
  PROVE  AnswerInv'
<1>0. UsersOK
  BY DEF AnswerInv
<1>1. ASSUME NoEffect PROVE PurgeAnswersItsQuestion'
  BY <1>1, Unanswered DEF NoEffect
<1>2. ASSUME NEW op, NEW d, NEW a, Done(w, op, d, a) PROVE UsersOK'
  BY <1>0, <1>2, UsersLeave DEF Done
<1>3. ASSUME NEW op, NEW d, Done(w, op, d, None) PROVE PurgeAnswersItsQuestion'
  BY <1>3, Unanswered DEF Done
<1>4. CASE \E k \in keys : FindKey(w, k)
  <2> PICK k \in keys : FindKey(w, k)
    BY <1>4
  <2> DEFINE j == [pc |-> "grants", token |-> k.token, id |-> k.id,
                   user |-> k.user, admin |-> k.admin]
  <2>1. Enter(w, j) /\ NoEffect /\ UNCHANGED <<tables, issued>>
    BY DEF FindKey
  <2>2. j.user = issued[j.token].user
    BY <1>0 DEF UsersOK
  <2> HIDE DEF j
  <2> QED BY <1>0, <1>1, <2>1, <2>2, UsersEnter DEF AnswerInv
<1>5. CASE LoadGrants(w)
  <2>1. PICK j : /\ Enter(w, j) /\ j.user = job[w].user
                 /\ j.token = job[w].token
    BY <1>5 DEF LoadGrants
  <2>2. job[w].user = issued[job[w].token].user
    BY <1>0, <1>5 DEF LoadGrants, At, UsersOK
  <2>3. UsersOK'
    BY <1>0, <1>5, <2>1, <2>2, UsersEnter DEF LoadGrants
  <2> QED BY <1>1, <1>5, <2>3 DEF LoadGrants, AnswerInv
<1>6. CASE \E r \in mcpTokens : VerifyToken(w, r)
  <2> PICK r \in mcpTokens : VerifyToken(w, r)
    BY <1>6
  <2>1. PICK j : Enter(w, j) /\ j.user = r.user /\ j.token = r.token
    BY DEF VerifyToken
  <2>2. UsersOK'
    BY <1>0, <2>1, UsersEnter DEF VerifyToken, UsersOK
  <2> QED BY <1>1, <2>2 DEF VerifyToken, AnswerInv
<1>7. CASE Leave(w)
  BY <1>0, <1>1, <1>7, UsersLeave DEF Leave, AnswerInv
<1>8. CASE \E d \in SitePath : ListSites(w, d)
  BY <1>2, <1>3, <1>8 DEF ListSites, AnswerInv
<1>9. CASE \E r \in Requests : Ingest(w, r)
  BY <1>2, <1>3, <1>9 DEF Ingest, Act, AnswerInv
<1>10. CASE \E r \in Requests : AskPurge(w, r)
  BY <1>0, <1>1, <1>10, UsersLeave DEF AskPurge, AnswerInv
<1>11. CASE \E r \in Requests : \E q \in prompts \union {None} : CallTool(w, r, q)
  <2> PICK r \in Requests, q \in prompts \union {None} : CallTool(w, r, q)
    BY <1>11
  <2>1. UsersOK'
    BY <1>2 DEF CallTool, Act
  <2> QED BY <1>0, <2>1, CallToolAnswers DEF AnswerInv
<1> QED BY <1>4, <1>5, <1>6, <1>7, <1>8, <1>9, <1>10, <1>11 DEF Serve

LEMMA AnswerStep == IInv /\ AnswerInv /\ [Next]_vars => AnswerInv'
<1> SUFFICES ASSUME IInv, AnswerInv, [Next]_vars PROVE AnswerInv'
  OBVIOUS
<1>0. UsersOK
  BY DEF AnswerInv
<1>1. ASSUME NoEffect PROVE PurgeAnswersItsQuestion'
  BY <1>1, Unanswered DEF NoEffect
<1>2. ASSUME NEW t \in Tokens, NEW s \in Shapes, CreateKey(t, s)
      PROVE  AnswerInv'
  <2>1. \A k \in keys' : k \in keys \/ (k.token = t /\ k.user = s.user)
    BY <1>2 DEF CreateKey, InsertKey
  <2>2. UsersOK'
    BY <1>0, <1>2, <2>1, UsersIssue DEF CreateKey
  <2> QED BY <1>1, <1>2, <2>2 DEF CreateKey, AnswerInv
<1>3. ASSUME NEW t \in Tokens, NEW s \in Shapes, IssueToken(t, s)
      PROVE  AnswerInv'
  <2>1. \A r \in mcpTokens' : r \in mcpTokens \/ (r.token = t /\ r.user = s.user)
    BY <1>3 DEF IssueToken
  <2>2. UsersOK'
    BY <1>0, <1>3, <2>1, UsersIssue DEF IssueToken
  <2> QED BY <1>1, <1>3, <2>2 DEF IssueToken, AnswerInv
<1>4. ASSUME NEW k \in keys, DeleteKey(k) PROVE AnswerInv'
  BY <1>0, <1>1, <1>4, UsersStay DEF DeleteKey, AnswerInv
<1>5. ASSUME NEW r \in mcpTokens, RevokeToken(r) PROVE AnswerInv'
  BY <1>0, <1>1, <1>5, UsersStay DEF RevokeToken, AnswerInv
<1>6. ASSUME NEW q \in prompts, Lapse(q) PROVE AnswerInv'
  BY <1>0, <1>1, <1>6, UsersStay DEF Lapse, AnswerInv, tables
<1>7. CASE Restart
  <2>1. \A w \in Workers : job'[w].pc \notin {"grants", "in"}
    BY <1>7 DEF Restart, Idle
  <2> QED BY <1>0, <1>1, <1>7, <2>1, UsersStay DEF Restart, AnswerInv, tables
<1>8. CASE UNCHANGED vars
  BY <1>8 DEF vars, AnswerInv, UsersOK, PurgeAnswersItsQuestion
<1> QED BY <1>2, <1>3, <1>4, <1>5, <1>6, <1>7, <1>8, AnswerServe
        DEF Next, Manage

(* A purge that was confirmed destroys the site its own user was asked     *)
(* about, whatever confirmations the client carries over (confirmPurge).   *)
THEOREM ConfirmedPurgesAsAsked == Spec => []PurgeAnswersItsQuestion
<1>1. Init => AnswerInv
  BY DEF Init, AnswerInv, UsersOK, PurgeAnswersItsQuestion, Idle
<1>2. AnswerInv => PurgeAnswersItsQuestion
  BY DEF AnswerInv
<1> QED BY <1>1, <1>2, AnswerStep, Inductive, PTL DEF Spec

-----------------------------------------------------------------------------
(* Grants and the sites they cover.                                        *)

(* Two strings are made of the same segments.                              *)
LEMMA OneAlphabet ==
  ASSUME NEW s, NEW t, IsString(s), IsString(t)
  PROVE  \E S : s \in Seq(S) /\ t \in Seq(S)
<1> DEFINE S1 == {s[i] : i \in DOMAIN s}
           S2 == {t[i] : i \in DOMAIN t}
<1>1. s \in Seq(S1) /\ t \in Seq(S2)
  BY DEF IsString
<1> HIDE DEF S1, S2
<1>2. s \in Seq(S1 \union S2) /\ t \in Seq(S1 \union S2)
  BY <1>1
<1> QED BY <1>2

(* Segments at the front that are not empty stay where they are, and if    *)
(* none is empty all do.                                                   *)
LEMMA KeptInFront ==
  ASSUME NEW S, NEW s \in Seq(S), NEW m \in 0..Len(s),
         \A i \in 1..m : s[i] # Empty
  PROVE  /\ IsString(Segments(s)) /\ Len(Segments(s)) \in Nat
         /\ m <= Len(Segments(s))
         /\ \A k \in 1..m : Segments(s)[k] = s[k]
         /\ m = Len(s) => Len(Segments(s)) = m
<1> DEFINE kept    == {i \in DOMAIN s : s[i] # Empty}
           Rank(i) == Cardinality({j \in kept : j <= i})
           n       == Cardinality(kept)
           at(k)   == CHOOSE i \in kept : Rank(i) = k
           f       == [k \in 1..n |-> s[at(k)]]
<1>1. Segments(s) = f
  BY DEF Segments
<1>2. Len(s) \in Nat /\ DOMAIN s = 1..Len(s) /\ m \in Nat
  OBVIOUS
<1>3. /\ IsFiniteSet(kept) /\ n \in Nat
      /\ \A i : IsFiniteSet({j \in kept : j <= i}) /\ Rank(i) \in Nat
  <2>1. IsFiniteSet(1..Len(s))
    BY <1>2, FS_Interval
  <2>2. \A T \in SUBSET (1..Len(s)) : IsFiniteSet(T) /\ Cardinality(T) \in Nat
    BY <2>1, FS_Subset, FS_CardinalityType
  <2> QED BY <1>2, <2>2
<1>4. \A k \in 0..Len(s) : IsFiniteSet(1..k) /\ Cardinality(1..k) = k
  BY <1>2, FS_Interval
<1>5. 1..m \subseteq kept
  BY <1>2
<1>6. m <= n
  BY <1>2, <1>3, <1>4, <1>5, FS_Subset
<1>7. m = Len(s) => n = m
  <2> SUFFICES ASSUME m = Len(s) PROVE kept = 1..m
    BY <1>2, <1>4
  <2> QED BY <1>2, <1>5
<1>8. ASSUME NEW k \in 1..m PROVE at(k) = k
  <2>0. k \in 0..Len(s) /\ k >= 1
    BY <1>2
  <2>1. ASSUME NEW i \in 1..k PROVE Rank(i) = i
    <3>1. {j \in kept : j <= i} = 1..i
      BY <1>2, <1>5
    <3>2. i \in 0..Len(s)
      BY <1>2, <2>0
    <3> QED BY <1>4, <3>1, <3>2
  <2>2. ASSUME NEW i \in kept, i > k PROVE Rank(i) # k
    <3>1. /\ (1..k) \union {i} \subseteq {j \in kept : j <= i}
          /\ i \notin 1..k
      BY <1>2, <1>5, <2>2
    <3>2. Cardinality((1..k) \union {i}) = k + 1
      <4>1. IsFiniteSet(1..k) /\ Cardinality(1..k) = k
        BY <1>4, <2>0
      <4> QED BY <3>1, <4>1, FS_AddElement
    <3>3. Cardinality((1..k) \union {i}) <= Rank(i)
      BY <1>3, <3>1, FS_Subset
    <3> QED BY <1>3, <3>2, <3>3
  <2>3. k \in kept /\ Rank(k) = k
    BY <1>5, <2>1
  <2>4. \A i \in kept : Rank(i) = k => i = k
    <3> SUFFICES ASSUME NEW i \in kept, Rank(i) = k PROVE i = k
      OBVIOUS
    <3>1. i \in Nat /\ i >= 1 /\ ~(i > k)
      BY <1>2, <2>2
    <3>2. i \in 1..k
      BY <1>2, <3>1
    <3> QED BY <2>1, <3>2
  <2> HIDE DEF kept, Rank
  <2> QED BY <2>3, <2>4
<1> HIDE DEF kept, at, n
<1>9. f \in Seq({f[i] : i \in DOMAIN f}) /\ Len(f) = n
  <2>1. DOMAIN f = 1..n /\ f = [i \in 1..n |-> f[i]]
    OBVIOUS
  <2> HIDE DEF f
  <2> QED BY <1>3, <2>1
<1>10. \A k \in 1..m : f[k] = s[k]
  BY <1>2, <1>3, <1>6, <1>8
<1> HIDE DEF f
<1> QED BY <1>1, <1>3, <1>6, <1>7, <1>9, <1>10 DEF IsString

(* The names of a site, put together, are its path.                        *)
LEMMA NamesOfASite ==
  ASSUME NEW d \in SitePath
  PROVE  /\ d \in Seq(Labels) /\ Len(d) \in 1..MaxDepth
         /\ SiteDir(GroupOf(d), SlugOf(d)) = d
         /\ Len(d) = 1 => GroupOf(d) = Root
         /\ Len(d) > 1 => /\ GroupOf(d) \in Seq(Labels) /\ GroupOf(d) # Root
                          /\ Len(GroupOf(d)) = Len(d) - 1
                          /\ \A i \in 1..(Len(d) - 1) : GroupOf(d)[i] = d[i]
<1>1. PICK n \in 1..MaxDepth : d \in [1..n -> Labels]
  BY DEF SitePath
<1>2. d \in Seq(Labels) /\ Len(d) = n /\ n \in 1..3
  BY <1>1 DEF MaxDepth
<1>3. Last(d) = d[Len(d)]
  BY DEF Last
<1>4. CASE Len(d) = 1
  <2>1. SiteDir(GroupOf(d), SlugOf(d)) = <<d[1]>>
    BY <1>3, <1>4 DEF GroupOf, SlugOf, SiteDir
  <2> QED BY <1>2, <1>4, <2>1 DEF GroupOf, MaxDepth
<1>5. CASE Len(d) > 1
  <2>1. /\ GroupOf(d) = SubSeq(d, 1, Len(d) - 1)
        /\ GroupOf(d) \in Seq(Labels) /\ Len(GroupOf(d)) = Len(d) - 1
        /\ \A i \in 1..(Len(d) - 1) : GroupOf(d)[i] = d[i]
    BY <1>2, <1>5 DEF GroupOf, Front
  <2>2. GroupOf(d)[1] \in Labels
    BY <1>2, <1>5, <2>1
  <2>3. GroupOf(d) # Root
    BY <2>2, SegmentAssumption DEF Root
  <2>4. SiteDir(GroupOf(d), SlugOf(d)) = GroupOf(d) \o <<d[Len(d)]>>
    BY <1>3, <2>3 DEF SiteDir, SlugOf
  <2>5. GroupOf(d) \o <<d[Len(d)]>> = d
    BY <1>2, <1>5, <2>1
  <2> QED BY <1>2, <1>5, <2>1, <2>3, <2>4, <2>5 DEF MaxDepth
<1> QED BY <1>2, <1>4, <1>5

(* A path within another, element by element.                              *)
LEMMA PrefixElements ==
  ASSUME NEW S, NEW s \in Seq(S), NEW t \in Seq(S)
  PROVE  IsPrefix(s, t) <=> /\ Len(s) <= Len(t)
                            /\ \A i \in 1..Len(s) : s[i] = t[i]
<1>1. Len(s) \in Nat /\ Len(t) \in Nat
  OBVIOUS
<1>2. ASSUME Len(s) <= Len(t)
      PROVE  /\ SubSeq(s, 1, Len(s)) = [i \in 1..Len(s) |-> s[i]]
             /\ SubSeq(t, 1, Len(s)) = [i \in 1..Len(s) |-> t[i]]
  BY <1>1, <1>2
<1>3. ASSUME Len(s) <= Len(t), IsPrefix(s, t), NEW i \in 1..Len(s)
      PROVE  s[i] = t[i]
  BY <1>2, <1>3 DEF IsPrefix
<1>4. ASSUME Len(s) <= Len(t), \A i \in 1..Len(s) : s[i] = t[i]
      PROVE  IsPrefix(s, t)
  BY <1>2, <1>4 DEF IsPrefix
<1> QED BY <1>3, <1>4 DEF IsPrefix

(* Of a site whose names are in order, what a grant is found to cover is   *)
(* the site itself.                                                        *)
LEMMA CoversOwnNames ==
  ASSUME NEW g \in Grant, g.kind = "site" => g.target # Root,
         NEW d \in SitePath, GrantCovers(g, GroupOf(d), SlugOf(d))
  PROVE  Covers(g, d)
<1>1. /\ d \in Seq(Labels) /\ Len(d) \in 1..MaxDepth
      /\ SiteDir(GroupOf(d), SlugOf(d)) = d
  BY NamesOfASite
<1>2. g.target \in SitePath \union {Root}
  BY DEF Grant
<1>3. CASE g.kind = "site" \/ g.target = Root
  BY <1>1, <1>3 DEF GrantCovers, Covers
<1>4. CASE g.kind # "site" /\ g.target \in SitePath /\ d = g.target
  BY <1>1, <1>4, PrefixElements DEF Covers
<1>5. CASE g.kind # "site" /\ g.target \in SitePath /\ g.target # Root
           /\ IsPrefix(g.target, GroupOf(d))
  <2>1. /\ g.target \in Seq(Labels) /\ Len(g.target) \in 1..MaxDepth
    BY <1>5, NamesOfASite
  <2>2. CASE Len(d) = 1
    <3>1. GroupOf(d) = <<Empty>>
      BY <2>2 DEF GroupOf, Root
    <3> DEFINE S == Labels \union {Empty}
    <3>2. g.target \in Seq(S) /\ GroupOf(d) \in Seq(S) /\ Len(GroupOf(d)) = 1
      BY <2>1, <3>1
    <3>3. Len(g.target) >= 1 /\ g.target[1] \in Labels
      BY <2>1 DEF MaxDepth
    <3> HIDE DEF S
    <3>4. g.target[1] = GroupOf(d)[1]
      <4>1. Len(g.target) \in Nat /\ 1 \in 1..Len(g.target)
        BY <2>1, <3>3
      <4> QED BY <1>5, <3>2, <4>1, PrefixElements
    <3>5. GroupOf(d)[1] = Empty
      BY <3>1
    <3> QED BY <3>3, <3>4, <3>5, SegmentAssumption
  <2>3. CASE Len(d) > 1
    <3>1. /\ GroupOf(d) \in Seq(Labels) /\ Len(GroupOf(d)) = Len(d) - 1
          /\ \A i \in 1..(Len(d) - 1) : GroupOf(d)[i] = d[i]
      BY <2>3, NamesOfASite
    <3>2. /\ Len(g.target) <= Len(GroupOf(d))
          /\ \A i \in 1..Len(g.target) : g.target[i] = GroupOf(d)[i]
      BY <1>5, <2>1, <3>1, PrefixElements
    <3>3. /\ Len(g.target) <= Len(d)
          /\ \A i \in 1..Len(g.target) : g.target[i] = d[i]
      BY <1>1, <2>1, <3>1, <3>2 DEF MaxDepth
    <3>4. IsPrefix(g.target, d)
      BY <1>1, <2>1, <3>3, PrefixElements
    <3> QED BY <1>5, <3>4 DEF Covers
  <2>4. Len(d) = 1 \/ Len(d) > 1
    BY <1>1 DEF MaxDepth
  <2> QED BY <2>2, <2>3, <2>4
<1> QED BY <1>1, <1>2, <1>3, <1>4, <1>5 DEF GrantCovers, GroupAllowed

(* Lower case changes no label.                                            *)
LEMMA LowerLabels ==
  ASSUME NEW S, NEW s \in Seq(S)
  PROVE  /\ \E T : ToLower(s) \in Seq(T)
         /\ Len(ToLower(s)) = Len(s)
         /\ \A i \in 1..Len(s) : s[i] \in Labels => ToLower(s)[i] = s[i]
         /\ \A i \in 1..Len(s) : s[i] = Empty => ToLower(s)[i] = Empty
<1> DEFINE low(i) == IF s[i] \in DOMAIN Spellings THEN Spellings[s[i]] ELSE s[i]
           l      == [i \in 1..Len(s) |-> low(i)]
           T      == {low(i) : i \in 1..Len(s)}
<1>1. ToLower(s) = l
  BY DEF ToLower
<1>2. \A i \in 1..Len(s) : s[i] \in Labels \union {Empty} => low(i) = s[i]
  BY SegmentAssumption
<1> HIDE DEF low
<1>3. l \in Seq(T) /\ Len(l) = Len(s)
  OBVIOUS
<1>4. \A i \in 1..Len(s) : s[i] \in Labels \union {Empty} => l[i] = s[i]
  BY <1>2
<1> HIDE DEF l, T
<1> QED BY <1>1, <1>3, <1>4

(* One more segment.                                                       *)
LEMMA OneMore ==
  ASSUME NEW S, NEW s \in Seq(S), NEW t \in Seq(S), Len(t) = 1
  PROVE  /\ s \o t \in Seq(S) /\ Len(s \o t) = Len(s) + 1
         /\ \A i \in 1..Len(s) : (s \o t)[i] = s[i]
         /\ (s \o t)[Len(s) + 1] = t[1]
<1>1. Len(s) \in Nat
  OBVIOUS
<1>2. /\ s \o t \in Seq(S) /\ Len(s \o t) = Len(s) + Len(t)
      /\ \A i \in 1..(Len(s) + Len(t)) :
           (s \o t)[i] = IF i <= Len(s) THEN s[i] ELSE t[i - Len(s)]
  BY ONLY s \in Seq(S), t \in Seq(S), ConcatProperties
<1> QED BY <1>1, <1>2

(* The group Root has no segments.                                         *)
LEMMA NoSegments ==
  ASSUME NEW S, NEW s \in Seq(S), \A i \in 1..Len(s) : s[i] = Empty
  PROVE  Segments(s) = << >>
<1> DEFINE kept == {i \in DOMAIN s : s[i] # Empty}
<1>1. kept = {}
  OBVIOUS
<1>2. Cardinality(kept) = 0
  BY <1>1, FS_EmptySet
<1> HIDE DEF kept
<1>3. 1..Cardinality(kept) = {}
  BY <1>2
<1> QED BY <1>3 DEF Segments, kept

(* What NewSitePath returns is a site, or NoSite. Labels at the front of   *)
(* the group are at the front of the path, and a group of nothing but      *)
(* labels is all of it but the slug.                                       *)
LEMMA NewSitePathOf ==
  ASSUME NEW group, NEW slug, IsString(group), IsString(slug),
         NewSitePath(group, slug) # NoSite,
         NEW m \in 0..Len(group), \A i \in 1..m : group[i] \in Labels
  PROVE  LET d == NewSitePath(group, slug)
         IN  /\ d \in SitePath /\ Len(slug) = 1
             /\ m < Len(d) /\ \A i \in 1..m : d[i] = group[i]
             /\ m = Len(group) /\ slug[1] \in Labels => d = group \o slug
             /\ group = Root /\ slug[1] \in Labels => d = slug
<1> DEFINE low  == ToLower(group)
           seg  == Segments(low)
           tail == ToLower(slug)
           d    == seg \o tail
<1>1. NewSitePath(group, slug) = d /\ Len(slug) = 1 /\ Validate(d)
  BY DEF NewSitePath
<1>2. PICK S : group \in Seq(S) /\ slug \in Seq(S)
  BY OneAlphabet
<1>3. Len(group) \in Nat /\ m \in Nat /\ m <= Len(group)
  BY <1>2
<1>4. PICK T : low \in Seq(T)
  BY <1>2, LowerLabels
<1>5. /\ Len(low) = Len(group)
      /\ \A i \in 1..Len(group) : group[i] \in Labels => low[i] = group[i]
      /\ \A i \in 1..Len(group) : group[i] = Empty => low[i] = Empty
  BY <1>2, LowerLabels
<1>6. \A i \in 1..m : low[i] = group[i] /\ low[i] # Empty
  BY <1>3, <1>5, SegmentAssumption
<1>7. PICK U : tail \in Seq(U)
  BY <1>2, LowerLabels
<1>8. Len(tail) = 1 /\ (slug[1] \in Labels => tail[1] = slug[1])
  <2>1. Len(tail) = Len(slug)
    BY <1>2, LowerLabels
  <2>2. 1 \in 1..Len(slug)
    BY <1>1
  <2> QED BY <1>1, <1>2, <2>1, <2>2, LowerLabels
<1> HIDE DEF low, tail
<1>9. /\ IsString(seg) /\ Len(seg) \in Nat /\ m <= Len(seg)
      /\ \A k \in 1..m : seg[k] = low[k]
      /\ m = Len(low) => Len(seg) = m
  BY <1>3, <1>4, <1>5, <1>6, KeptInFront
<1>10. PICK V : seg \in Seq(V) /\ tail \in Seq(V)
  <2> DEFINE V1 == {seg[i] : i \in DOMAIN seg}
  <2>1. seg \in Seq(V1)
    BY <1>9 DEF IsString
  <2> HIDE DEF V1, seg
  <2>2. seg \in Seq(V1 \union U) /\ tail \in Seq(V1 \union U)
    BY <1>7, <2>1
  <2> QED BY <2>2
<1> HIDE DEF seg
<1>11. /\ d \in Seq(V) /\ Len(d) = Len(seg) + 1
       /\ \A i \in 1..Len(seg) : d[i] = seg[i]
       /\ d[Len(seg) + 1] = tail[1]
  BY <1>8, <1>10, OneMore
<1> HIDE DEF d
<1>12. Len(d) \in 1..MaxDepth /\ \A i \in 1..Len(d) : d[i] \in Labels
  BY <1>1, <1>11 DEF Validate
<1>13. d \in SitePath
  <2>1. d \in [1..Len(d) -> Labels]
    BY <1>11, <1>12
  <2> QED BY <1>12, <2>1 DEF SitePath
<1>14. m < Len(d) /\ \A i \in 1..m : d[i] = group[i]
  BY <1>3, <1>6, <1>9, <1>11
<1>15. ASSUME m = Len(group), slug[1] \in Labels PROVE d = group \o slug
  <2>1. Len(seg) = m
    BY <1>5, <1>9, <1>15
  <2>2. /\ group \o slug \in Seq(S) /\ Len(group \o slug) = m + 1
        /\ \A i \in 1..m : (group \o slug)[i] = group[i]
        /\ (group \o slug)[m + 1] = slug[1]
    BY <1>1, <1>2, <1>15, OneMore
  <2>3. Len(d) = m + 1 /\ d[m + 1] = slug[1] /\ \A i \in 1..m : d[i] = group[i]
    BY <1>8, <1>11, <1>14, <1>15, <2>1
  <2>4. ASSUME NEW i \in 1..(m + 1) PROVE d[i] = (group \o slug)[i]
    <3> DEFINE joined == group \o slug
    <3>1. joined[m + 1] = d[m + 1] /\ \A k \in 1..m : joined[k] = d[k]
      BY <2>2, <2>3
    <3> HIDE DEF joined
    <3>2. i \in 1..m \/ i = m + 1
      BY <1>3
    <3>3. d[i] = joined[i]
      BY <3>1, <3>2
    <3> QED BY <3>3 DEF joined
  <2> QED BY <1>3, <1>11, <2>2, <2>3, <2>4
<1>16. ASSUME group = Root, slug[1] \in Labels PROVE d = slug
  <2>1. seg = << >>
    <3>1. \A i \in 1..Len(low) : low[i] = Empty
      BY <1>5, <1>16 DEF Root
    <3> QED BY <1>4, <3>1, NoSegments DEF seg
  <2>2. Len(d) = 1 /\ d[1] = slug[1]
    BY <1>8, <1>11, <1>16, <2>1
  <2> QED BY <1>1, <1>2, <1>11, <2>2
<1> QED BY <1>1, <1>13, <1>14, <1>15, <1>16

(* Sequences are strings.                                                  *)
LEMMA SequencesAreStrings ==
  ASSUME NEW S, NEW s \in Seq(S) PROVE IsString(s)
<1>1. Len(s) \in Nat /\ s = [i \in 1..Len(s) |-> s[i]] /\ DOMAIN s = 1..Len(s)
  OBVIOUS
<1> QED BY <1>1 DEF IsString

LEMMA NewSite ==
  ASSUME NEW group, NEW slug, IsString(group), IsString(slug)
  PROVE  NewSitePath(group, slug) \in SitePath \union {NoSite}
<1>1. 0 \in 0..Len(group) /\ \A i \in 1..0 : group[i] \in Labels
  BY DEF IsString
<1> QED BY <1>1, NewSitePathOf

LEMMA ParsedSite ==
  ASSUME NEW S, NEW rest \in Seq(S)
  PROVE  ParseSitePath(rest) \in SitePath \union {NoSite}
<1> DEFINE s == Segments(rest)
<1>1. IsString(s)
  <2>1. 0 \in 0..Len(rest) /\ \A i \in 1..0 : rest[i] # Empty
    OBVIOUS
  <2> QED BY <2>1, KeptInFront
<1> HIDE DEF s
<1>2. PICK T : s \in Seq(T)
  BY <1>1 DEF IsString
<1>3. ASSUME s # << >>
      PROVE  IsString(Front(s)) /\ IsString(<<Last(s)>>)
  <2>1. Len(s) \in Nat /\ Len(s) > 0
    BY <1>2, <1>3
  <2>2. Front(s) \in Seq(T) /\ <<Last(s)>> \in Seq(T)
    BY <1>2, <2>1 DEF Front, Last
  <2> QED BY <2>2, SequencesAreStrings
<1> QED BY <1>3, NewSite DEF ParseSitePath, s

(* However a request spells its site, what a grant is found to cover by    *)
(* comparing strings lies in what the grant covers.                        *)
LEMMA CoversSpelling ==
  ASSUME NEW g \in Grant, g.kind = "site" => g.target # Root,
         NEW group, NEW slug, IsString(group), IsString(slug),
         NewSitePath(group, slug) # NoSite, GrantCovers(g, group, slug)
  PROVE  Covers(g, NewSitePath(group, slug))
<1> DEFINE d == NewSitePath(group, slug)
<1>1. PICK S : group \in Seq(S) /\ slug \in Seq(S)
  BY OneAlphabet
<1>2. d \in SitePath /\ Len(slug) = 1
  <2>1. 0 \in 0..Len(group) /\ \A i \in 1..0 : group[i] \in Labels
    BY <1>1
  <2> QED BY <2>1, NewSitePathOf
<1>3. d \in Seq(Labels) /\ Len(d) \in Nat
  BY <1>2, NamesOfASite
<1> HIDE DEF d
<1>4. g.target \in SitePath \union {Root}
  BY DEF Grant
<1>5. ASSUME SiteDir(group, slug) = g.target, g.target # Root PROVE d = g.target
  <2>1. g.target \in Seq(Labels) /\ Len(g.target) \in 1..MaxDepth
    BY <1>4, <1>5, NamesOfASite
  <2>2. CASE group = Root
    <3>1. slug = g.target /\ slug[1] \in Labels
      BY <1>2, <1>5, <2>1, <2>2 DEF SiteDir
    <3>2. 0 \in 0..Len(group) /\ \A i \in 1..0 : group[i] \in Labels
      BY <1>1
    <3> QED BY <2>2, <3>1, <3>2, NewSitePathOf DEF d
  <2>3. CASE group # Root
    <3>1. group \o slug = g.target
      BY <1>5, <2>3 DEF SiteDir
    <3>2. /\ Len(g.target) = Len(group) + 1
          /\ \A i \in 1..Len(group) : g.target[i] = group[i]
          /\ g.target[Len(group) + 1] = slug[1]
      BY <1>1, <1>2, <3>1, OneMore
    <3>3. Len(group) \in Nat
      BY <1>1
    <3>4. slug[1] \in Labels /\ \A i \in 1..Len(group) : group[i] \in Labels
      BY <2>1, <3>2, <3>3
    <3>5. Len(group) \in 0..Len(group)
      BY <3>3
    <3> QED BY <3>1, <3>4, <3>5, NewSitePathOf DEF d
  <2> QED BY <2>2, <2>3
<1>6. ASSUME d = g.target PROVE Covers(g, d)
  BY <1>3, <1>6, PrefixElements DEF Covers
<1>7. ASSUME g.kind # "site", g.target # Root, IsPrefix(g.target, group)
      PROVE  Covers(g, d)
  <2>1. g.target \in Seq(Labels) /\ Len(g.target) \in Nat
    BY <1>4, <1>7, NamesOfASite
  <2>2. /\ Len(g.target) <= Len(group)
        /\ \A i \in 1..Len(g.target) : g.target[i] = group[i]
    <3>1. g.target \in Seq(Labels \union S) /\ group \in Seq(Labels \union S)
      BY <1>1, <2>1
    <3> QED BY <1>7, <3>1, PrefixElements
  <2>3. /\ Len(g.target) \in 0..Len(group)
        /\ \A i \in 1..Len(g.target) : group[i] \in Labels
    BY <1>1, <2>1, <2>2
  <2>4. /\ Len(g.target) < Len(d)
        /\ \A i \in 1..Len(g.target) : d[i] = group[i]
    BY <2>3, NewSitePathOf DEF d
  <2>5. IsPrefix(g.target, d)
    BY <1>3, <2>1, <2>2, <2>4, PrefixElements
  <2> QED BY <1>7, <2>5 DEF Covers
<1>8. CASE g.kind = "site"
  BY <1>5, <1>6, <1>8 DEF GrantCovers, d
<1>9. CASE g.kind # "site"
  BY <1>5, <1>6, <1>7, <1>9 DEF GrantCovers, GroupAllowed, Covers, d
<1> QED BY <1>8, <1>9

-----------------------------------------------------------------------------
(* What a principal may do is granted to its token.                        *)
LEMMA GrantedToToken ==
  ASSUME IInv, NEW w \in Workers, NEW op, NEW d, NEW answer, NEW group, NEW slug,
         At(w, "in"), Can(job[w], Capability(op), group, slug),
         \A g \in Grant : (g.kind = "site" => g.target # Root)
                          /\ GrantCovers(g, group, slug) => Covers(g, d),
         Done(w, op, d, answer)
  PROVE  EffectsAreGranted'
<1> DEFINE s == issued[job[w].token]
<1>1. /\ effect' = [token |-> job[w].token, op |-> op, site |-> d,
                    late |-> job[w].late, answer |-> answer]
      /\ UNCHANGED issued
  BY DEF Done
<1>2. PrincipalOK(job[w]) /\ job[w].pc = "in"
  BY DEF IInv, JobsOK, At
<1>3. s \in Shapes
  BY <1>2 DEF PrincipalOK, Known, IInv, TablesOK, IssuedOK
<1>4. s.grants \subseteq Grant /\ \A g \in s.grants : g.kind = "site" => g.target # Root
  BY <1>3, AccessAssumption DEF ShapeOK
<1>5. \/ s.admin
      \/ \E g \in s.grants : Capability(op) \in g.caps /\ Covers(g, d)
  BY <1>2, <1>4 DEF Can, PrincipalOK
<1>6. effect'.token = job[w].token /\ effect'.op = op /\ effect'.site = d
  BY <1>1
<1> QED BY <1>1, <1>5, <1>6 DEF EffectsAreGranted

LEMMA NoEffectIsGranted == NoEffect => EffectsAreGranted'
BY DEF NoEffect, EffectsAreGranted

(* The groups MCP requests are about are strings.                          *)
LEMMA NamedGroups ==
  ASSUME NEW r \in Requests
  PROVE  IsString(GroupNamed(r)) /\ IsString(r.slug)
BY AccessAssumption DEF GroupNamed

(* The ingest API acts on nothing but sites.                               *)
LEMMA IngestSite ==
  ASSUME NEW r \in Requests
  PROVE  (IF r.op = "publish" THEN NewSitePath(r.group, r.slug)
          ELSE ParseSitePath(SiteDir(r.group, r.slug)))
           \in SitePath \union {NoSite}
<1>1. IsString(r.group) /\ IsString(r.slug)
  BY AccessAssumption
<1>2. CASE r.op = "publish"
  BY <1>1, <1>2, NewSite
<1>3. CASE r.op # "publish"
  <2>1. PICK S : r.group \in Seq(S) /\ r.slug \in Seq(S)
    BY <1>1, OneAlphabet
  <2>2. SiteDir(r.group, r.slug) \in Seq(S)
    BY <2>1 DEF SiteDir
  <2> QED BY <1>3, <2>2, ParsedSite
<1> QED BY <1>2, <1>3

(* Every effect is granted: of the ingest API by the names of the site, of *)
(* a tool by the strings it was called with.                               *)
LEMMA EffectStep == IInv /\ EffectsAreGranted /\ [Next]_vars => EffectsAreGranted'
<1> SUFFICES ASSUME IInv, EffectsAreGranted, [Next]_vars
             PROVE  EffectsAreGranted'
  OBVIOUS
<1>1. CASE Manage
  BY <1>1, NoEffectIsGranted
     DEF Manage, CreateKey, IssueToken, DeleteKey, RevokeToken
<1>2. ASSUME NEW w \in Workers, NEW r \in Requests, Ingest(w, r)
      PROVE  EffectsAreGranted'
  <2>1. PICK d : /\ d = IF r.op = "publish" THEN NewSitePath(r.group, r.slug)
                        ELSE ParseSitePath(SiteDir(r.group, r.slug))
                 /\ d # NoSite
                 /\ At(w, "in") /\ Done(w, r.op, d, None)
                 /\ Can(job[w], Capability(r.op), GroupOf(d), SlugOf(d))
    BY <1>2 DEF Ingest, Act

  <2>2. d \in SitePath
    BY <2>1, IngestSite
  <2> QED BY <2>1, <2>2, CoversOwnNames, GrantedToToken
<1>3. ASSUME NEW w \in Workers, NEW d \in SitePath, ListSites(w, d)
      PROVE  EffectsAreGranted'
  <2>1. /\ At(w, "in") /\ Done(w, "read", d, None)
        /\ Can(job[w], Capability("read"), GroupOf(d), SlugOf(d))
    BY <1>3 DEF ListSites, Capability
  <2> QED BY <2>1, CoversOwnNames, GrantedToToken
<1>4. ASSUME NEW w \in Workers, NEW r \in Requests, NEW q, CallTool(w, r, q)
      PROVE  EffectsAreGranted'
  <2> DEFINE group == GroupNamed(r)
             d     == NewSitePath(group, r.slug)
  <2>1. /\ d # NoSite /\ At(w, "in") /\ Done(w, r.op, d, q)
        /\ Can(job[w], Capability(r.op), group, r.slug)
    BY <1>4 DEF CallTool, Admitted, Act, ToolTarget
  <2>2. IsString(group) /\ IsString(r.slug)
    BY NamedGroups
  <2> HIDE DEF group
  <2> QED BY <2>1, <2>2, CoversSpelling, GrantedToToken
<1>5. ASSUME NEW w \in Workers, Serve(w) PROVE EffectsAreGranted'
  BY <1>2, <1>3, <1>4, <1>5, NoEffectIsGranted
     DEF Serve, FindKey, LoadGrants, Leave, VerifyToken, AskPurge
<1>6. CASE UNCHANGED vars
  BY <1>6 DEF vars, EffectsAreGranted
<1>7. CASE Restart \/ \E q \in prompts : Lapse(q)
  BY <1>7, NoEffectIsGranted DEF Restart, Lapse
<1> QED BY <1>1, <1>5, <1>6, <1>7 DEF Next

(* "Confined to each grant's target": whatever grants are issued, however  *)
(* requests spell sites, and whatever becomes of keys while requests are   *)
(* let in, the site a request changes or reads is one that a grant of its  *)
(* token covers, for that capability.                                      *)
THEOREM EffectsAlwaysGranted == Spec => []EffectsAreGranted
<1>1. Init => EffectsAreGranted
  BY DEF Init, EffectsAreGranted
<1> QED BY <1>1, EffectStep, Inductive, PTL DEF Spec

-----------------------------------------------------------------------------
(* Types.                                                                  *)

(* Part of a sequence, and of its two parts around a place.                *)
LEMMA PartOf ==
  ASSUME NEW S, NEW h \in Seq(S), NEW m \in Nat, NEW n \in Int,
         m >= 1, n <= Len(h)
  PROVE  SubSeq(h, m, n) \in Seq(S)
<1>1. \A i \in m..n : h[i] \in S
  OBVIOUS
<1> QED BY ONLY h \in Seq(S), m \in Nat, n \in Int, m >= 1, n <= Len(h),
           <1>1, SubSeqProperties

LEMMA ArchivedType ==
  ASSUME NEW x \in Life!State
  PROVE  /\ Life!Archived(x) \in Seq(Contents)
         /\ Versioning /\ x.online # Nothing => Life!Archived(x) # << >>
<1>1. x.history \in Seq(Contents) /\ x.online \in Contents \union {Nothing}
  BY DEF Life!State
<1>2. ASSUME NEW h \in Seq(Contents)
      PROVE  /\ Life!LastN(h, Keep) \in Seq(Contents)
             /\ h # << >> => Life!LastN(h, Keep) # << >>
  <2>1. Len(h) \in Nat /\ Keep \in Nat
    BY AccessAssumption
  <2>2. CASE Len(h) <= Keep
    BY <2>2 DEF Life!LastN
  <2>3. CASE ~(Len(h) <= Keep)
    <3>1. Len(h) - Keep + 1 \in Nat /\ Len(h) - Keep + 1 >= 1
      BY <2>1, <2>3
    <3>2. SubSeq(h, Len(h) - Keep + 1, Len(h)) \in Seq(Contents)
      BY <2>1, <3>1, PartOf
    <3>3. Len(SubSeq(h, Len(h) - Keep + 1, Len(h))) = Keep
      BY <2>1, <2>3, <3>1
    <3> QED BY <2>1, <2>3, <3>2, <3>3, AccessAssumption DEF Life!LastN
  <2> QED BY <2>2, <2>3
<1>3. x.online # Nothing => /\ Append(x.history, x.online) \in Seq(Contents)
                            /\ Append(x.history, x.online) # << >>
  BY <1>1
<1> QED BY <1>1, <1>2, <1>3 DEF Life!Archived

(* An operation leaves every site in a state a site can be in.             *)
LEMMA OperateType ==
  ASSUME site \in [SitePath -> Life!State], NEW d \in SitePath, NEW op,
         Operate(op, d)
  PROVE  site' \in [SitePath -> Life!State]
<1>1. /\ site[d] \in Life!State
      /\ site[d].history \in Seq(Contents)
      /\ site[d].online \in Contents \union {Nothing}
      /\ site[d].trash \in Contents \union {Nothing}
  BY DEF Life!State
<1>2. ASSUME NEW x \in Life!State, Life!Become(d, x)
      PROVE  site' \in [SitePath -> Life!State]
  BY <1>2 DEF Life!Become
<1>3. Life!Archived(site[d]) \in Seq(Contents)
  BY <1>1, ArchivedType
<1>4. ASSUME NEW c \in Contents, Life!Publish(d, c)
      PROVE  site' \in [SitePath -> Life!State]
  BY <1>2, <1>3, <1>4 DEF Life!Publish, Life!State
<1>5. CASE Life!Unpublish(d)
  BY <1>1, <1>2, <1>5 DEF Life!Unpublish, Life!State
<1>6. CASE Life!Restore(d)
  BY <1>1, <1>2, <1>6 DEF Life!Restore, Life!State
<1>7. CASE Life!Purge(d)
  BY <1>1, <1>2, <1>7 DEF Life!Purge, Life!State
<1>8. Life!Relisted(site[d]) \in {"none", "live", "deleted"}
  BY DEF Life!Relisted
<1>9. ASSUME NEW i \in DOMAIN site[d].history, Life!RollbackTo(d, i)
      PROVE  site' \in [SitePath -> Life!State]
  <2>1. site[d].history[i] \in Contents
    BY <1>1, <1>9
  <2> QED BY <1>2, <1>3, <1>8, <1>9, <2>1 DEF Life!RollbackTo, Life!State
<1>10. CASE Life!Rollback(d)
  <2> DEFINE h == site[d].history
             displaced == Life!Archived(site[d])
             place == IF site[d].online = Nothing THEN Len(displaced)
                                                  ELSE Len(displaced) - 1
             rest == SubSeq(displaced, 1, place - 1) \o
                     SubSeq(displaced, place + 1, Len(displaced))
  <2>1. h \in Seq(Contents) /\ h # << >> => h[Len(h)] \in Contents
    OBVIOUS
  <2>2. rest \in Seq(Contents)
    <3>1. Len(displaced) \in Nat /\ place \in Int /\ place >= Len(displaced) - 1
          /\ place <= Len(displaced) /\ place >= 0
      <4>1. Len(displaced) \in Nat
        BY <1>3
      <4>2. site[d].online # Nothing => Len(displaced) # 0
        BY <1>1, <1>3, <1>10, ArchivedType DEF Life!Rollback
      <4> HIDE DEF displaced
      <4> QED BY <4>1, <4>2
    <3> HIDE DEF displaced, place
    <3>2. displaced \in Seq(Contents)
      BY <1>3 DEF displaced
    <3>3. SubSeq(displaced, 1, place - 1) \in Seq(Contents)
      BY <3>1, <3>2, PartOf
    <3>4. SubSeq(displaced, place + 1, Len(displaced)) \in Seq(Contents)
      <4>1. place + 1 \in Nat /\ place + 1 >= 1
        BY <3>1
      <4> QED BY <3>1, <3>2, <4>1, PartOf
    <3> QED BY <3>3, <3>4
  <2>3. h # << >>
        /\ Life!Become(d, [listed |-> Life!Relisted(site[d]),
                           online |-> h[Len(h)], trash |-> Nothing,
                           history |-> rest])
    BY <1>10 DEF Life!Rollback
  <2> HIDE DEF rest
  <2> QED BY <1>1, <1>2, <1>8, <2>1, <2>2, <2>3 DEF Life!State
<1>11. CASE Life!FailedRollback(d)
  <2>1. Nothing \in Contents \union {Nothing}
    OBVIOUS
  <2> QED BY <1>1, <1>2, <1>3, <1>11, <2>1 DEF Life!FailedRollback, Life!State
<1> QED BY <1>4, <1>5, <1>6, <1>7, <1>9, <1>10, <1>11 DEF Operate

(* The rest of what TypeOK says that IInv does not.                        *)
SitesOK  == site \in [SitePath -> Life!State]
IdsBegin == nextKey >= 1 /\ \A k \in keys : k.id >= 1
EffectIn == effect = None \/ (effect.site \in SitePath /\ effect.op \in Operations)
TypeInv  == SitesOK /\ IdsBegin /\ EffectIn

LEMMA TypeServe ==
  ASSUME IInv, TypeInv, NEW w \in Workers, Serve(w)
  PROVE  TypeInv'
<1>0. ASSUME UNCHANGED tables PROVE IdsBegin'
  BY <1>0 DEF TypeInv, IdsBegin, tables
<1>1. ASSUME NEW op \in Operations, NEW d \in SitePath, NEW answer,
             Act(w, op, d, answer)
      PROVE  TypeInv'
  <2>1. SitesOK'
    BY <1>1, OperateType DEF Act, TypeInv, SitesOK
  <2>2. effect'.site = d /\ effect'.op = op
    BY <1>1 DEF Act, Done
  <2> QED BY <1>0, <1>1, <2>1, <2>2 DEF Act, Done, TypeInv, EffectIn
<1>2. ASSUME NEW r \in Requests, Ingest(w, r) PROVE TypeInv'
  <2>1. r.op \in Operations
    BY AccessAssumption
  <2> QED BY <1>1, <1>2, <2>1, IngestSite DEF Ingest
<1>3. ASSUME NEW r \in Requests, NEW q, CallTool(w, r, q) PROVE TypeInv'
  <2>1. r.op \in Operations
    BY AccessAssumption
  <2>2. ToolTarget(r) \in SitePath \union {NoSite}
    BY NamedGroups, NewSite DEF ToolTarget
  <2> QED BY <1>1, <1>3, <2>1, <2>2 DEF CallTool
<1>4. ASSUME NEW d \in SitePath, ListSites(w, d) PROVE TypeInv'
  <2>1. effect'.site = d /\ effect'.op = "read"
    BY <1>4 DEF ListSites, Done
  <2> QED BY <1>0, <1>4, <2>1
          DEF ListSites, Done, TypeInv, EffectIn, SitesOK, Operations
<1>5. ASSUME NoEffect, UNCHANGED <<tables, site>> PROVE TypeInv'
  BY <1>0, <1>5 DEF NoEffect, TypeInv, SitesOK, EffectIn
<1> QED BY <1>2, <1>3, <1>4, <1>5
        DEF Serve, FindKey, LoadGrants, Leave, VerifyToken, AskPurge

LEMMA TypeStep == IInv /\ TypeInv /\ [Next]_vars => TypeInv'
<1> SUFFICES ASSUME IInv, TypeInv, [Next]_vars PROVE TypeInv'
  OBVIOUS
<1>1. ASSUME NoEffect, UNCHANGED site, IdsBegin' PROVE TypeInv'
  BY <1>1 DEF NoEffect, TypeInv, SitesOK, EffectIn
<1>2. ASSUME NEW t \in Tokens, NEW s \in Shapes, CreateKey(t, s)
      PROVE  TypeInv'
  <2>1. /\ \A k \in keys' : k \in keys \/ k.id = nextKey
        /\ nextKey' = nextKey + 1
    BY <1>2 DEF CreateKey, InsertKey
  <2>2. IdsBegin'
    BY <2>1 DEF TypeInv, IdsBegin, IInv, TablesOK, UniqueIds
  <2> QED BY <1>1, <1>2, <2>2 DEF CreateKey
<1>3. ASSUME keys' \subseteq keys, UNCHANGED nextKey PROVE IdsBegin'
  BY <1>3 DEF TypeInv, IdsBegin
<1>4. ASSUME NEW t \in Tokens, NEW s \in Shapes, IssueToken(t, s)
      PROVE  TypeInv'
  BY <1>1, <1>3, <1>4 DEF IssueToken
<1>5. CASE \E k \in keys : DeleteKey(k)
  BY <1>1, <1>3, <1>5 DEF DeleteKey
<1>6. CASE \E r \in mcpTokens : RevokeToken(r)
  BY <1>1, <1>3, <1>6 DEF RevokeToken
<1>7. CASE Restart \/ \E q \in prompts : Lapse(q)
  BY <1>1, <1>3, <1>7 DEF Restart, Lapse, tables
<1>8. CASE UNCHANGED vars
  BY <1>8 DEF vars, TypeInv, SitesOK, IdsBegin, EffectIn
<1> QED BY <1>2, <1>4, <1>5, <1>6, <1>7, <1>8, TypeServe DEF Next, Manage

(* The types of Access, the constraints of its tables, and every site in a *)
(* state the publisher can leave it in.                                    *)
THEOREM AccessTypeCorrect == Spec => []TypeOK
<1>1. Init => TypeInv
  BY DEF Init, TypeInv, SitesOK, IdsBegin, EffectIn, Life!Init, Life!State,
         Life!Fresh
<1>2. IInv /\ TypeInv => TypeOK
  <2> SUFFICES ASSUME IInv, TypeInv PROVE TypeOK
    OBVIOUS
  <2>1. \A k \in keys : k.id \in 1..(nextKey - 1) /\ k.token \in Tokens
    BY DEF IInv, TablesOK, UniqueIds, KeysAsIssued, Known, TypeInv, IdsBegin
  <2>2. ASSUME NEW t \in Tokens, issued[t] # None
        PROVE  issued[t].grants \subseteq Grant
    BY <2>2, AccessAssumption DEF IInv, TablesOK, IssuedOK, ShapeOK
  <2>3. \A g \in keyGrants : g.grant \in Grant /\ \E k \in keys : k.id = g.key
    BY <2>2 DEF IInv, TablesOK, NoOrphans, KeysAsIssued, Known
  <2>4. \A r \in mcpTokens : r.token \in Tokens /\ r.grants \subseteq Grant
    BY <2>2 DEF IInv, TablesOK, MCPAsIssued, Known
  <2> QED BY <2>1, <2>3, <2>4
          DEF IInv, TablesOK, UniqueIds, IssuedOK, TypeInv, SitesOK, EffectIn,
              TypeOK
<1> QED BY <1>1, <1>2, TypeStep, Inductive, PTL DEF Spec

-----------------------------------------------------------------------------
(* The hosts of a site (module Portal).                                    *)

(* The segments a host under a domain is made of.                         *)
Segs(b) == Labels \union {b[i] : i \in DOMAIN b}

(* A site and a domain as sequences of these.                              *)
LEMMA Domain == ASSUME NEW d \in SitePath, NEW b \in Domains
                PROVE  /\ d \in Seq(Labels) /\ Len(d) \in 1..MaxDepth
                       /\ d \in Seq(Segs(b)) /\ b \in Seq(Segs(b))
<1>1. PICK n \in 1..MaxDepth : d \in [1..n -> Labels]
  BY DEF SitePath
<1>2. d \in Seq(Labels) /\ Len(d) = n
  BY <1>1 DEF MaxDepth
<1>3. b \in Seq({b[i] : i \in DOMAIN b})
  BY SegmentAssumption DEF IsString
<1>4. b \in Seq(Segs(b))
  BY <1>3 DEF Segs
<1>5. d \in Seq(Segs(b))
  BY <1>2 DEF Segs
<1> QED BY <1>2, <1>4, <1>5

(* What the library's Reverse does.                                        *)
LEMMA Reversed ==
  ASSUME NEW S, NEW s \in Seq(S)
  PROVE  /\ Reverse(s) \in Seq(S) /\ Len(Reverse(s)) = Len(s)
         /\ \A i \in 1..Len(s) : Reverse(s)[i] = s[Len(s) - i + 1]
BY DEF Reverse

(* The labels of a host, counted from the left.                            *)
LEMMA Labelled ==
  ASSUME NEW S, NEW d \in Seq(S), NEW b \in Seq(S)
  PROVE  /\ Host(d, b) \in Seq(S) /\ Len(Host(d, b)) = Len(d) + Len(b)
         /\ \A i \in 1..Len(d) : Host(d, b)[i] = d[Len(d) - i + 1]
         /\ \A i \in 1..Len(b) : Host(d, b)[Len(d) + i] = b[i]
<1>1. PICK r \in Seq(S) :
        /\ r = Reverse(d) /\ Len(r) = Len(d)
        /\ \A i \in 1..Len(d) : r[i] = d[Len(d) - i + 1]
  BY Reversed
<1>2. Len(d) \in Nat /\ Len(b) \in Nat /\ Host(d, b) = r \o b
  BY <1>1 DEF Host
<1>3. r \o b \in Seq(S) /\ Len(r \o b) = Len(d) + Len(b)
  <2>1. r \o b \in Seq(S) /\ Len(r \o b) = Len(r) + Len(b)
    BY ONLY r \in Seq(S), b \in Seq(S), ConcatProperties
  <2> QED BY <1>1, <2>1
<1>4. \A i \in 1..Len(d) : (r \o b)[i] = r[i]
  BY <1>1, <1>2
<1>5. ASSUME NEW i \in 1..Len(b) PROVE (r \o b)[Len(d) + i] = b[i]
  BY <1>1, <1>2
<1> QED BY <1>1, <1>2, <1>3, <1>4, <1>5

(* The same of a site and a domain of the instance.                        *)
LEMMA HostLabels ==
  ASSUME NEW d \in SitePath, NEW b \in Domains
  PROVE  /\ Host(d, b) \in Seq(Segs(b)) /\ Len(Host(d, b)) = Len(d) + Len(b)
         /\ \A i \in 1..Len(d) : Host(d, b)[i] = d[Len(d) - i + 1]
         /\ \A i \in 1..Len(b) : Host(d, b)[Len(d) + i] = b[i]
<1> DEFINE S == Segs(b)
<1>1. d \in Seq(S) /\ b \in Seq(S)
  BY Domain
<1> HIDE DEF S
<1>2. Host(d, b) \in Seq(S)
  BY <1>1, Labelled
<1>3. Len(Host(d, b)) = Len(d) + Len(b)
  BY <1>1, Labelled
<1>4. \A i \in 1..Len(d) : Host(d, b)[i] = d[Len(d) - i + 1]
  BY <1>1, Labelled
<1>5. \A i \in 1..Len(b) : Host(d, b)[Len(d) + i] = b[i]
  BY <1>1, Labelled
<1> QED BY <1>2, <1>3, <1>4, <1>5 DEF S

(* "ParseHost maps a request host to a SitePath": the one whose Host it is. *)
THEOREM HostRoundTrip ==
  ASSUME NEW d \in SitePath, NEW b \in Domains
  PROVE  ParseHost(Host(d, b), b) = d
<1> DEFINE h == Host(d, b)
           l == ToLower(h)
           s == SubSeq(l, 1, Len(h) - Len(b))
           r == Reverse(s)
<1>1. /\ d \in Seq(Labels) /\ Len(d) \in 1..MaxDepth /\ Len(b) \in Nat
  BY Domain
<1>2. /\ h \in Seq(Segs(b)) /\ Len(h) = Len(d) + Len(b)
      /\ \A i \in 1..Len(d) : h[i] = d[Len(d) - i + 1]
  BY HostLabels
<1> HIDE DEF h
<1>3. DOMAIN l = 1..Len(h) /\ \A i \in 1..Len(d) : l[i] = h[i]
  <2>1. \A i \in 1..Len(d) : h[i] \in Labels
    BY <1>1, <1>2
  <2> QED BY <1>1, <1>2, <2>1, SegmentAssumption DEF ToLower
<1> HIDE DEF l
<1>4. s = [i \in 1..Len(d) |-> h[i]]
  BY <1>1, <1>2, <1>3
<1>5. Len(s) = Len(d)
  BY <1>1, <1>4
<1>6. r = [i \in 1..Len(d) |-> d[i]]
  BY <1>1, <1>2, <1>4, <1>5 DEF Reverse
<1>7. r = d
  BY <1>1, <1>6
<1>8. Validate(d)
  BY <1>1 DEF Validate
<1> QED BY <1>7, <1>8 DEF ParseHost, h, l

(* A suffix occurs at the end.                                             *)
LEMMA SuffixElements ==
  ASSUME NEW S, NEW s \in Seq(S), NEW t \in Seq(S), IsSuffix(s, t)
  PROVE  /\ Len(s) <= Len(t)
         /\ \A i \in 1..Len(s) : s[i] = t[Len(t) - Len(s) + i]
<1>1. Len(s) \in Nat /\ Len(t) \in Nat
  OBVIOUS
<1>2. Len(Reverse(s)) = Len(s) /\ Len(Reverse(t)) = Len(t)
  BY <1>1 DEF Reverse
<1>3. /\ Reverse(s) \in Seq(S) /\ Reverse(t) \in Seq(S)
      /\ \A j \in 1..Len(s) : Reverse(s)[j] = s[Len(s) - j + 1]
      /\ \A j \in 1..Len(t) : Reverse(t)[j] = t[Len(t) - j + 1]
  BY <1>1 DEF Reverse
<1>4. /\ Len(s) <= Len(t)
      /\ SubSeq(Reverse(s), 1, Len(s)) = SubSeq(Reverse(t), 1, Len(s))
  BY <1>2 DEF IsSuffix, IsPrefix
<1>5. ASSUME NEW j \in 1..Len(s)
      PROVE  s[Len(s) - j + 1] = t[Len(t) - j + 1]
  <2>1. /\ SubSeq(Reverse(s), 1, Len(s))[j] = Reverse(s)[j]
        /\ SubSeq(Reverse(t), 1, Len(s))[j] = Reverse(t)[j]
    BY <1>1, <1>2, <1>3, <1>4
  <2> QED BY <1>1, <1>3, <1>4, <2>1
<1>6. ASSUME NEW i \in 1..Len(s)
      PROVE  s[i] = t[Len(t) - Len(s) + i]
  <2>1. /\ Len(s) - i + 1 \in 1..Len(s)
        /\ Len(s) - (Len(s) - i + 1) + 1 = i
        /\ Len(t) - (Len(s) - i + 1) + 1 = Len(t) - Len(s) + i
    BY <1>1
  <2> QED BY <1>5, <2>1
<1> QED BY <1>4, <1>6

(* And what occurs at the end is a suffix.                                 *)
LEMMA BaseIsSuffix ==
  ASSUME NEW d \in SitePath, NEW b \in Domains
  PROVE  IsSuffix(b, Host(d, b))
<1> DEFINE h == Host(d, b)
<1>1. /\ b \in Seq(Segs(b)) /\ Len(d) \in Nat /\ Len(b) \in Nat
  BY Domain
<1>2. /\ h \in Seq(Segs(b)) /\ Len(h) = Len(d) + Len(b)
      /\ \A i \in 1..Len(b) : h[Len(d) + i] = b[i]
  BY HostLabels
<1> HIDE DEF h
<1>3. /\ Reverse(b) \in Seq(Segs(b)) /\ Len(Reverse(b)) = Len(b)
      /\ Reverse(h) \in Seq(Segs(b)) /\ Len(Reverse(h)) = Len(h)
      /\ \A j \in 1..Len(b) : Reverse(b)[j] = b[Len(b) - j + 1]
      /\ \A j \in 1..Len(h) : Reverse(h)[j] = h[Len(h) - j + 1]
  BY <1>1, <1>2 DEF Reverse
<1>4. ASSUME NEW j \in 1..Len(b) PROVE Reverse(b)[j] = Reverse(h)[j]
  <2>1. /\ Len(b) - j + 1 \in 1..Len(b) /\ j \in 1..Len(h)
        /\ Len(h) - j + 1 = Len(d) + (Len(b) - j + 1)
    BY <1>1, <1>2
  <2> QED BY <1>2, <1>3, <2>1
<1>5. SubSeq(Reverse(b), 1, Len(b)) = SubSeq(Reverse(h), 1, Len(b))
  BY <1>1, <1>2, <1>3, <1>4
<1>6. Len(b) <= Len(h)
  BY <1>1, <1>2
<1> QED BY <1>3, <1>5, <1>6 DEF IsSuffix, IsPrefix, h

(* Of the domains a host lies under no two are of the same length.         *)
LEMMA LongestIsOne ==
  ASSUME NEW d \in SitePath, NEW b \in Domains,
         \A c \in Under(Host(d, b)) : Len(c) <= Len(b)
  PROVE  /\ b \in Under(Host(d, b))
         /\ MatchDomain(Host(d, b)) = b
<1> DEFINE h == Host(d, b)
<1>1. b \in Under(h)
  BY BaseIsSuffix DEF Under
<1>2. ASSUME NEW c \in Under(h), \A e \in Under(h) : Len(e) <= Len(c)
      PROVE  c = b
  <2>1. /\ c \in Domains /\ IsSuffix(c, h)
        /\ c \in Seq(Segs(c)) /\ b \in Seq(Segs(b))
    BY Domain DEF Under
  <2>2. Len(c) = Len(b)
    BY <1>1, <1>2, <2>1
  <2>3. /\ h \in Seq(Segs(b)) /\ Len(h) = Len(d) + Len(b) /\ Len(d) \in Nat
        /\ \A i \in 1..Len(b) : h[Len(d) + i] = b[i]
    BY HostLabels, Domain
  <2> DEFINE S == Segs(b) \union Segs(c)
  <2>4. c \in Seq(S) /\ h \in Seq(S)
    BY <2>1, <2>3
  <2> HIDE DEF h, S
  <2>5. \A i \in 1..Len(c) : c[i] = h[Len(h) - Len(c) + i]
    BY <2>1, <2>4, SuffixElements
  <2>6. \A i \in 1..Len(b) : c[i] = b[i]
    BY <2>1, <2>2, <2>3, <2>5
  <2> QED BY <2>1, <2>2, <2>6
<1> QED BY <1>1, <1>2 DEF MatchDomain

(* Every listed site is served under its host names: the property does not *)
(* depend on how the site came to be listed.                               *)
THEOREM SitesAlwaysReachable == Spec => []SitesReachable
<1>1. SitesReachable
  <2> SUFFICES ASSUME NEW d \in Listed, NEW b \in Domains,
                      \A c \in Under(Host(d, b)) : Len(c) <= Len(b)
               PROVE  Served(Host(d, b)) = d
    BY DEF SitesReachable
  <2>1. d \in SitePath
    BY DEF Listed
  <2> QED BY <2>1, LongestIsOne, HostRoundTrip DEF Served
<1> QED BY <1>1, PTL

-----------------------------------------------------------------------------
(* The tree of groups (module GroupTree).                                  *)

(* The tree once the nodes of P have been gone through.                    *)
Landed(sites, P) ==
  [p \in Nodes(sites) |->
     [sites |-> {d \in sites : Parent(d) = p} \ P,
      site  |-> IF p \in P \intersect sites THEN p ELSE NoSite]]

(* With a group, Prefixes has the group that one is in.                    *)
LEMMA Prefix ==
  ASSUME NEW S, NEW s \in Seq(S), NEW p \in Prefixes(s), p # << >>
  PROVE  Parent(p) \in Prefixes(s) /\ Parent(p) # p
<1>1. PICK l \in 0..Len(s) : p = SubSeq(s, 1, l)
  BY DEF Prefixes
<1>2. p = [i \in 1..l |-> s[i]] /\ Len(p) = l /\ p \in Seq(S)
  BY <1>1
<1>3. l \in 1..Len(s)
  BY <1>2
<1>4. Parent(p) = SubSeq(s, 1, l - 1)
  BY <1>2, <1>3 DEF Parent
<1>5. Len(Parent(p)) = l - 1
  BY <1>3, <1>4
<1>6. l - 1 \in 0..Len(s) /\ l - 1 # l
  BY <1>3
<1>7. Parent(p) \in Prefixes(s)
  BY <1>4, <1>6 DEF Prefixes
<1>8. Parent(p) # p
  BY <1>2, <1>5, <1>6
<1> QED BY <1>7, <1>8

(* The group of a site.                                                    *)
LEMMA SiteParent ==
  ASSUME NEW d \in SitePath
  PROVE  /\ d \in Seq(Labels) /\ d # << >>
         /\ Parent(d) \in Seq(Labels) /\ Parent(d) # d
         /\ Parent(d) \in Prefixes(Parent(d))
<1>1. PICK n \in 1..MaxDepth : d \in [1..n -> Labels]
  BY DEF SitePath
<1>2. d \in Seq(Labels) /\ Len(d) = n /\ n \in Nat /\ n >= 1
  BY <1>1 DEF MaxDepth
<1>3. /\ Parent(d) \in Seq(Labels) /\ Len(Parent(d)) = n - 1
  BY <1>2 DEF Parent
<1>4. SubSeq(Parent(d), 1, Len(Parent(d))) = Parent(d)
  <2> DEFINE q == Parent(d)
  <2>1. q \in Seq(Labels)
    BY <1>3
  <2> HIDE DEF q
  <2>2. SubSeq(q, 1, Len(q)) = q
    BY <2>1
  <2> QED BY <2>2 DEF q
<1>5. Len(Parent(d)) \in 0..Len(Parent(d))
  BY <1>2, <1>3
<1> QED BY <1>2, <1>3, <1>4, <1>5 DEF Prefixes

(* Every group in the tree hangs below another one, and every site has its *)
(* group there.                                                            *)
LEMMA NodeParent ==
  ASSUME NEW sites \in SUBSET SitePath
  PROVE  /\ \A d \in sites : Parent(d) \in Nodes(sites)
         /\ \A p \in Nodes(sites) : p # << >> =>
              Parent(p) \in Nodes(sites) /\ Parent(p) # p
<1>1. ASSUME NEW d \in sites PROVE Parent(d) \in Nodes(sites)
  BY SiteParent DEF Nodes
<1>2. ASSUME NEW p \in Nodes(sites), p # << >>
      PROVE  Parent(p) \in Nodes(sites) /\ Parent(p) # p
  <2>1. PICK d \in sites : p \in Prefixes(Parent(d))
    BY <1>2 DEF Nodes
  <2>2. Parent(d) \in Seq(Labels)
    BY SiteParent
  <2>3. Parent(p) \in Prefixes(Parent(d)) /\ Parent(p) # p
    <3> DEFINE s == Parent(d)
    <3>1. s \in Seq(Labels) /\ p \in Prefixes(s)
      BY <2>1, <2>2
    <3> HIDE DEF s
    <3>2. Parent(p) \in Prefixes(s) /\ Parent(p) # p
      BY <1>2, <3>1, Prefix
    <3> QED BY <3>2 DEF s
  <2> QED BY <2>3 DEF Nodes
<1> QED BY <1>1, <1>2

(* What one round of the pass does.                                        *)
LEMMA LandOne ==
  ASSUME NEW sites \in SUBSET SitePath, NEW P,
         NEW q \in Nodes(sites), q # << >>
  PROVE  Land(Landed(sites, P), q) = Landed(sites, P \union {q})
<1> DEFINE t == Landed(sites, P)
           u == Landed(sites, P \union {q})
           v == Parent(q)
<1>1. v \in Nodes(sites) /\ v # q
  BY NodeParent
<1>2. t[v].sites = {d \in sites : Parent(d) = v} \ P
  BY <1>1 DEF Landed
<1>3. CASE q \in t[v].sites
  <2>1. q \in sites /\ q \notin P
    BY <1>2, <1>3
  <2> DEFINE w == [t EXCEPT ![q].site = q, ![v].sites = @ \ {q}]
  <2>2. ASSUME NEW p \in Nodes(sites) PROVE w[p] = u[p]
    <3>1. CASE p = q
      <4>1. w[q] = [t[q] EXCEPT !.site = q]
        BY <1>1 DEF Landed
      <4>2. t[q].sites = {d \in sites : Parent(d) = q} \ P
        BY DEF Landed
      <4>3. t[q].sites = {d \in sites : Parent(d) = q} \ (P \union {q})
        BY <1>1, <4>2
      <4>4. w[q] = [sites |-> {d \in sites : Parent(d) = q} \ (P \union {q}),
                    site |-> q]
        BY <4>1, <4>3 DEF Landed
      <4> QED BY <2>1, <3>1, <4>4 DEF Landed
    <3>2. CASE p = v
      <4>1. w[v] = [t[v] EXCEPT !.sites = @ \ {q}]
        BY <1>1 DEF Landed
      <4>2. t[v].sites \ {q} = {d \in sites : Parent(d) = v} \ (P \union {q})
        BY <1>2
      <4>3. t[v].site = IF v \in (P \union {q}) \intersect sites
                        THEN v ELSE NoSite
        BY <1>1 DEF Landed
      <4>4. w[v] = [sites |-> {d \in sites : Parent(d) = v} \ (P \union {q}),
                    site |-> IF v \in (P \union {q}) \intersect sites
                             THEN v ELSE NoSite]
        BY <1>1, <4>1, <4>2, <4>3 DEF Landed
      <4> QED BY <1>1, <3>2, <4>4 DEF Landed
    <3>3. CASE p # q /\ p # v
      <4>1. w[p] = t[p]
        BY <3>3 DEF Landed
      <4>2. {d \in sites : Parent(d) = p} \ P
              = {d \in sites : Parent(d) = p} \ (P \union {q})
        BY <3>3
      <4> QED BY <3>3, <4>1, <4>2 DEF Landed
    <3> QED BY <3>1, <3>2, <3>3
  <2>3. w = u
    BY <2>2 DEF Landed
  <2> QED BY <1>3, <2>3 DEF Land
<1>4. CASE q \notin t[v].sites
  <2>1. q \in sites => q \in P
    BY <1>2, <1>4
  <2>2. ASSUME NEW p \in Nodes(sites) PROVE t[p] = u[p]
    BY <2>1 DEF Landed
  <2>3. t = u
    BY <2>2 DEF Landed
  <2> QED BY <1>4, <2>3 DEF Land
<1> QED BY <1>3, <1>4

(* The tree that any list of nodes leads to.                               *)
LEMMA BuiltTree ==
  ASSUME NEW sites \in SUBSET SitePath, NEW n \in Nat,
         NEW order \in [1..n -> Nodes(sites) \ {<< >>}]
  PROVE  BuildTree(sites, order) = Landed(sites, {order[i] : i \in 1..n})
<1> DEFINE D == 1..n
           N == Nodes(sites) \ {<< >>}
           V == {Landed(sites, P) : P \in SUBSET N}
           base == Placed(sites)
           ch == [s \in SUBSET D |-> Max(s)]
           op == [e \in D \X V |-> Land(e[2], order[e[1]])]
           Built(it) ==
             it = [s \in SUBSET D |->
                     IF s = {} THEN base
                     ELSE LET x == Max(s)
                          IN  Land(it[s \ {x}], order[x])]
<1>1. base = Landed(sites, {}) /\ base \in V
  <2>1. \A p \in Nodes(sites) :
          {d \in sites : Parent(d) = p} \ {} = {d \in sites : Parent(d) = p}
    OBVIOUS
  <2>2. \A p \in Nodes(sites) :
          (IF p \in {} \intersect sites THEN p ELSE NoSite) = NoSite
    OBVIOUS
  <2>3. base = Landed(sites, {})
    BY <2>1, <2>2 DEF Placed, Landed
  <2>4. {} \in SUBSET N
    OBVIOUS
  <2> QED BY <2>3, <2>4
<1>2. ASSUME NEW x \in D, NEW P \in SUBSET N
      PROVE  /\ Land(Landed(sites, P), order[x])
                  = Landed(sites, P \union {order[x]})
             /\ P \union {order[x]} \in SUBSET N
  BY LandOne
<1>3. ASSUME NEW x \in D, NEW v \in V
      PROVE  op[<<x, v>>] = Land(v, order[x]) /\ op[<<x, v>>] \in V
  <2>1. op[<<x, v>>] = Land(v, order[x])
    <3> HIDE DEF D, V
    <3> QED OBVIOUS
  <2>2. PICK P \in SUBSET N : v = Landed(sites, P)
    OBVIOUS
  <2>3. Land(v, order[x]) \in V
    BY <1>2, <2>2
  <2> HIDE DEF V, op
  <2> QED BY <2>1, <2>3
<1>4. \A s \in SUBSET D : s # {} => ch[s] \in s /\ ch[s] = Max(s)
  BY LargestIsIn
<1>5. IsFiniteSet(D)
  BY FS_Interval
<1> HIDE DEF base, ch, op, V
<1>6. PICK it \in [SUBSET D -> V] : Recursive(D, base, ch, op, it)
  <2> HIDE DEF D
  <2>1. \A s \in SUBSET D : s # {} => ch[s] \in s
    BY <1>4
  <2>2. \A x \in D, v \in V : op[<<x, v>>] \in V
    BY <1>3
  <2> QED BY <1>1, <1>5, <2>1, <2>2, Recursion
<1>7. ASSUME NEW s \in SUBSET D
      PROVE  it[s] = IF s = {} THEN base
                     ELSE LET x == Max(s)
                          IN  Land(it[s \ {x}], order[x])
  <2>1. CASE s = {}
    BY <1>6, <2>1 DEF Recursive
  <2>2. CASE s # {}
    <3>1. it[s] = op[<<ch[s], it[s \ {ch[s]}]>>]
      BY <1>6, <2>2 DEF Recursive
    <3>2. ch[s] \in D /\ ch[s] = Max(s) /\ it[s \ {ch[s]}] \in V
      BY <1>4, <2>2
    <3> QED BY <1>3, <2>2, <3>1, <3>2
  <2> QED BY <2>1, <2>2
<1>8. Built(it)
  <2>1. it = [s \in SUBSET D |-> it[s]]
    OBVIOUS
  <2> QED BY <1>7, <2>1
<1> DEFINE j == CHOOSE k : Built(k)
<1>9. Built(j)
  BY <1>8
<1>10. BuildTree(sites, order) = j[D]
  <2>1. DOMAIN order = D
    OBVIOUS
  <2> QED BY <2>1 DEF BuildTree, FoldLeft, MapThenFoldSet, base
<1> HIDE DEF j
<1> DEFINE Past(k) == {order[i] : i \in 1..k}
           T == {k \in Nat : k <= n => j[1..k] = Landed(sites, Past(k))}
<1>11. 0 \in T
  <2>1. 1..0 = {} /\ Past(0) = {}
    OBVIOUS
  <2>2. j[{}] = base
    BY <1>9
  <2>3. j[1..0] = Landed(sites, Past(0))
    BY <1>1, <2>1, <2>2
  <2> QED BY <2>3
<1>12. ASSUME NEW k \in T PROVE k + 1 \in T
  <2>1. SUFFICES ASSUME k + 1 <= n
                 PROVE  j[1..(k + 1)] = Landed(sites, Past(k + 1))
    OBVIOUS
  <2>2. j[1..k] = Landed(sites, Past(k))
    BY <2>1
  <2>3. Max(1..(k + 1)) = k + 1 /\ (1..(k + 1)) \ {k + 1} = 1..k
    BY LargestOfRange
  <2>4. 1..(k + 1) \in SUBSET D /\ 1..(k + 1) # {} /\ k + 1 \in D
    <3>1. k \in Nat
      OBVIOUS
    <3>2. k + 1 \in D /\ k + 1 \in 1..(k + 1)
      BY <2>1, <3>1
    <3>3. 1..(k + 1) \subseteq D
      BY <2>1, <3>1
    <3> QED BY <3>2, <3>3
  <2>5. j[1..(k + 1)] = Land(j[1..k], order[k + 1])
    BY <1>9, <2>3, <2>4
  <2>6. Past(k) \in SUBSET N
    BY <2>1
  <2>7. Past(k + 1) = Past(k) \union {order[k + 1]}
    OBVIOUS
  <2> HIDE DEF Past
  <2> QED BY <1>2, <2>2, <2>4, <2>5, <2>6, <2>7
<1>13. T = Nat
  <2> HIDE DEF T
  <2>1. T \in SUBSET Nat
    BY DEF T
  <2> QED BY <1>11, <1>12, <2>1, NumberInduction
<1>14. j[1..n] = Landed(sites, Past(n))
  <2>1. n \in T
    BY <1>13
  <2> HIDE DEF Past
  <2> QED BY <2>1
<1> QED BY <1>10, <1>14

(* Finitely many sites have finitely many groups.                          *)
LEMMA FiniteNodes ==
  ASSUME NEW sites \in SUBSET SitePath, IsFiniteSet(sites)
  PROVE  IsFiniteSet(Nodes(sites))
<1>1. \A d \in sites : IsFiniteSet(Prefixes(Parent(d)))
  <2> SUFFICES ASSUME NEW d \in sites PROVE IsFiniteSet(Prefixes(Parent(d)))
    OBVIOUS
  <2> DEFINE s == Parent(d)
             I == 0..Len(s)
             f == [l \in I |-> SubSeq(s, 1, l)]
  <2>1. Len(s) \in Nat
    BY SiteParent
  <2>2. f \in Surjection(I, Prefixes(s))
    BY DEF Surjection, Prefixes
  <2>3. IsFiniteSet(I)
    <3> HIDE DEF s
    <3> QED BY <2>1, FS_Interval
  <2> HIDE DEF f, I, s
  <2>4. IsFiniteSet(Prefixes(s))
    BY <2>2, <2>3, FS_Surjection
  <2> QED BY <2>4 DEF s
<1> DEFINE F == {Prefixes(Parent(d)) : d \in sites}
           g == [d \in sites |-> Prefixes(Parent(d))]
<1>2. g \in Surjection(sites, F)
  BY DEF Surjection
<1>3. IsFiniteSet(F)
  <2> HIDE DEF g, F
  <2> QED BY <1>2, FS_Surjection
<1>4. IsFiniteSet(UNION F)
  <2>1. \A s \in F : IsFiniteSet(s)
    BY <1>1
  <2> HIDE DEF F
  <2> QED BY <1>3, <2>1, FS_UNION
<1>5. IsFiniteSet({<< >>})
  BY FS_Singleton
<1> QED BY <1>4, <1>5, FS_Union DEF Nodes

(* An order of all nodes leaves out none.                                  *)
LEMMA AllNodes ==
  ASSUME NEW sites \in SUBSET SitePath, IsFiniteSet(sites),
         NEW order \in Orders(sites)
  PROVE  BuildTree(sites, order) = Landed(sites, Nodes(sites) \ {<< >>})
<1> DEFINE N == Nodes(sites) \ {<< >>}
           n == Cardinality(N)
<1>1. IsFiniteSet(N) /\ n \in Nat
  <2>1. IsFiniteSet(N)
    BY FiniteNodes, FS_Subset
  <2> HIDE DEF N
  <2> QED BY <2>1, FS_CardinalityType
<1>2. /\ order \in [1..n -> N]
      /\ \A i, j \in 1..n : i # j => order[i] # order[j]
  BY DEF Orders, SetToSeqs
<1>3. Cardinality(1..n) = n
  <2> HIDE DEF n
  <2> QED BY <1>1, FS_Interval
<1>4. order \in Injection(1..n, N)
  BY <1>2 DEF Injection, IsInjective
<1> HIDE DEF N
<1>5. order \in Surjection(1..n, N)
  BY <1>1, <1>3, <1>4, FS_Injection
<1>6. {order[i] : i \in 1..n} = N
  BY <1>2, <1>5 DEF Surjection
<1> HIDE DEF n
<1>7. BuildTree(sites, order) = Landed(sites, {order[i] : i \in 1..n})
  BY <1>1, <1>2, BuiltTree DEF N
<1> QED BY <1>6, <1>7 DEF N

(* Where a site ends up.                                                   *)
LEMMA ShownOnce ==
  ASSUME NEW sites \in SUBSET SitePath, IsFiniteSet(sites),
         NEW order \in Orders(sites), NEW d \in sites
  PROVE  LET tree == BuildTree(sites, order)
         IN  /\ Appearances(tree, d) = 1
             /\ d \in DOMAIN tree => tree[d].site = d
<1> DEFINE N == Nodes(sites) \ {<< >>}
           tree == Landed(sites, N)
<1>1. d # << >> /\ Parent(d) \in Nodes(sites)
  BY SiteParent, NodeParent
<1>2. DOMAIN tree = Nodes(sites)
  BY DEF Landed
<1>3. Cards(tree, d) = IF d \in Nodes(sites) THEN {} ELSE {Parent(d)}
  BY <1>1, <1>2 DEF Cards, Landed
<1>4. Landings(tree, d) = IF d \in Nodes(sites) THEN {d} ELSE {}
  BY <1>1, <1>2 DEF Landings, Landed, NoSite
<1>5. Appearances(tree, d) = 1
  <2> HIDE DEF tree
  <2>1. Cardinality({}) = 0
    BY FS_EmptySet
  <2>2. \A x : Cardinality({x}) = 1
    BY FS_Singleton
  <2>3. CASE d \in Nodes(sites)
    <3>1. Cards(tree, d) = {} /\ Landings(tree, d) = {d}
      BY <1>3, <1>4, <2>3
    <3> QED BY <2>1, <2>2, <3>1 DEF Appearances
  <2>4. CASE d \notin Nodes(sites)
    <3>1. Cards(tree, d) = {Parent(d)} /\ Landings(tree, d) = {}
      BY <1>3, <1>4, <2>4
    <3>2. Cardinality(Cards(tree, d)) = 1 /\ Cardinality(Landings(tree, d)) = 0
      BY <2>1, <2>2, <3>1
    <3> QED BY <3>2 DEF Appearances
  <2> QED BY <2>3, <2>4
<1>6. d \in DOMAIN tree => tree[d].site = d
  BY <1>1, <1>2 DEF Landed
<1> QED BY <1>5, <1>6, AllNodes

(* One request lists one site at most, so only finitely many are listed.   *)
FewListed == IsFiniteSet(Listed)

(* No operation lists another site than its own.                           *)
LEMMA ListedGrows ==
  ASSUME TypeOK, FewListed, NEW d \in SitePath, NEW op, Operate(op, d)
  PROVE  FewListed'
<1>1. site = [s \in SitePath |-> site[s]]
  BY DEF TypeOK
<1>2. UNCHANGED site \/ \E x : Life!Become(d, x)
  BY DEF Operate, Life!Publish, Life!Unpublish, Life!Restore, Life!Purge,
         Life!Rollback, Life!FailedRollback, Life!RollbackTo
<1>3. Listed' \subseteq Listed \union {d}
  BY <1>1, <1>2 DEF Listed, Life!Become
<1>4. IsFiniteSet(Listed \union {d})
  BY FS_AddElement DEF FewListed
<1> QED BY <1>3, <1>4, FS_Subset DEF FewListed

(* No step does.                                                           *)
LEMMA ListedStep == TypeOK /\ FewListed /\ [Next]_vars => FewListed'
<1> SUFFICES ASSUME TypeOK, FewListed, [Next]_vars PROVE FewListed'
  OBVIOUS
<1>1. ASSUME UNCHANGED site PROVE FewListed'
  BY <1>1 DEF FewListed, Listed
<1>2. ASSUME NEW w \in Workers, NEW r \in Requests, Ingest(w, r)
      PROVE  FewListed'
  BY <1>2, IngestSite, ListedGrows DEF Ingest, Act
<1>3. ASSUME NEW w \in Workers, NEW r \in Requests, NEW q, CallTool(w, r, q)
      PROVE  FewListed'
  <2>1. ToolTarget(r) \in SitePath \union {NoSite}
    BY NamedGroups, NewSite DEF ToolTarget
  <2> QED BY <1>3, <2>1, ListedGrows DEF CallTool, Act
<1>4. ASSUME NEW w \in Workers, Serve(w) PROVE FewListed'
  BY <1>1, <1>2, <1>3, <1>4
     DEF Serve, FindKey, LoadGrants, Leave, VerifyToken, ListSites, AskPurge
<1>5. CASE Manage
  BY <1>1, <1>5 DEF Manage, CreateKey, IssueToken, DeleteKey, RevokeToken
<1>6. CASE Restart \/ \E q \in prompts : Lapse(q)
  BY <1>1, <1>6 DEF Restart, Lapse
<1>7. CASE UNCHANGED vars
  BY <1>1, <1>7 DEF vars
<1> QED BY <1>4, <1>5, <1>6, <1>7 DEF Next

(* "That group's landing site rather than a sibling card": whatever sites  *)
(* requests have published, under whatever labels, whichever of them a     *)
(* query finds, and in whatever order BuildTree goes through its map, each *)
(* is shown once, as the landing site of its own group if there is one.    *)
THEOREM TreeShowsEverySiteOnce == Spec => []TreeShowsEachSiteOnce
<1>1. Init => FewListed
  <2> SUFFICES ASSUME Init PROVE FewListed
    OBVIOUS
  <2>1. Listed = {}
    BY DEF Init, Listed, Life!Init, Life!Fresh
  <2> QED BY <2>1, FS_EmptySet DEF FewListed
<1>2. FewListed => TreeShowsEachSiteOnce
  <2> SUFFICES ASSUME FewListed, NEW found \in SUBSET Listed,
                      NEW order \in Orders(found), NEW d \in found
               PROVE  LET tree == BuildTree(found, order)
                      IN  /\ Appearances(tree, d) = 1
                          /\ d \in DOMAIN tree => tree[d].site = d
    BY DEF TreeShowsEachSiteOnce
  <2>1. found \in SUBSET SitePath /\ IsFiniteSet(found)
    BY FS_Subset DEF FewListed, Listed
  <2> QED BY <2>1, ShownOnce
<1> QED BY <1>1, <1>2, ListedStep, AccessTypeCorrect, PTL DEF Spec
=============================================================================
