-------------------------------- MODULE Access --------------------------------
(***************************************************************************)
(* Who may do what to a site: API keys and the tokens of MCP connections,  *)
(* the grants they carry, and the requests of the ingest API and the MCP   *)
(* tools that act on sites under them (internal/auth, internal/keys,       *)
(* internal/store/keys.go, internal/api/ingest.go, internal/mcpserver).    *)
(*                                                                         *)
(* A key is read in two statements, which revocation may come between, and *)
(* a request acts some time after it was let in. What an operation does to *)
(* a site is that of SiteLifecycle: one atomic change. A request that is   *)
(* refused, or fails, changes nothing and only ends (Leave); that includes *)
(* one whose key or token is past its expiry.                              *)
(***************************************************************************)
EXTENDS SitePaths

CONSTANTS
  Tokens,      \* bearer tokens that may be issued, none of them twice
  Shapes,      \* what a token may be issued with
  Requests,    \* what clients ask for: [op, group, slug]
  Workers,     \* requests being served
  Contents, Nothing,
  Versioning, Keep,
  MCPGroup     \* the group of an MCP request that names none

Operations == {"publish", "unpublish", "restore", "rollback", "patch", "purge",
               "read"}
OnlyMCP    == {"restore", "read"}

(* The capability an operation is checked for.                             *)
Capability(op) == IF op = "restore" THEN "publish" ELSE op
Capabilities   == Operations \ {"restore"}

Grant == [kind   : {"group", "site"}, target : SitePath \union {Root},
          caps   : SUBSET Capabilities]

(* An administrator's key has no grants. user is the key's name, or the    *)
(* user who consented to the connection.                                   *)
ShapeOK(s) ==
  /\ DOMAIN s = {"via", "user", "admin", "grants"}
  /\ s.via \in {"key", "mcp"} /\ s.grants \subseteq Grant
  /\ \A g \in s.grants : g.kind = "site" => g.target # Root
  /\ s.admin = (s.grants = {})
  /\ s.via = "mcp" => ~s.admin

ASSUME AccessAssumption ==
  /\ \A s \in Shapes : ShapeOK(s)
  /\ \A r \in Requests : /\ r.op \in Operations
                          /\ IsString(r.group) /\ IsString(r.slug)
  /\ IsString(MCPGroup)
  /\ Versioning \in BOOLEAN /\ Keep \in Nat \ {0}

VARIABLES
  keys,       \* table api_keys
  keyGrants,  \* table api_key_grants
  nextKey,    \* the AUTOINCREMENT counter of api_keys
  mcpTokens,  \* the access tokens among table oauth_tokens
  prompts,    \* purge confirmations in the hands of clients, and valid
  job,        \* the requests in progress
  site,       \* the sites, as SiteLifecycle has them
  issued,     \* history: what each token was issued with
  effect      \* history: what the last step did to a site, if anything

vars == <<keys, keyGrants, nextKey, mcpTokens, prompts, job, site,
          issued, effect>>
tables == <<keys, keyGrants, nextKey, mcpTokens>>

Life == INSTANCE SiteLifecycle WITH Sites <- SitePath

None     == [none |-> TRUE]
Idle     == [pc |-> "idle"]
At(w, l) == job[w].pc = l
Enter(w, j) == job' = [job EXCEPT ![w] = j]
NoEffect == effect' = None

Init ==
  /\ keys = {} /\ keyGrants = {} /\ nextKey = 1 /\ mcpTokens = {}
  /\ prompts = {}
  /\ job = [w \in Workers |-> Idle]
  /\ issued = [t \in Tokens |-> None]
  /\ effect = None
  /\ Life!Init

-----------------------------------------------------------------------------
(* Grants.                                                                 *)

(* One group path lies within another.                                     *)
GroupAllowed(restriction, target) ==
  restriction = Root \/ IsPrefix(restriction, target)

GrantCovers(g, group, slug) ==
  LET dir == SiteDir(group, slug)
  IN  IF g.kind = "site" THEN dir = g.target
      ELSE \/ GroupAllowed(g.target, group)
           \/ g.target # Root /\ dir = g.target

Can(p, c, group, slug) ==
  \/ p.admin
  \/ \E g \in p.grants : c \in g.caps /\ GrantCovers(g, group, slug)

-----------------------------------------------------------------------------
(* Keys and tokens are issued and revoked.                                 *)

(* Mutant: the lowest free id is given out again.                          *)
InsertKeyReusingIds(t, s) ==
  LET used == {k.id : k \in keys}
      id   == CHOOSE i \in 1..(Cardinality(used) + 1) : i \notin used
  IN  /\ keys' = keys \union {[id |-> id, token |-> t, user |-> s.user,
                               admin |-> s.admin]}
      /\ keyGrants' = keyGrants \union [key : {id}, grant : s.grants]
      /\ UNCHANGED nextKey

(* One transaction: the key and its grants.                                *)
InsertKey(t, s) ==
  /\ keys' = keys \union {[id |-> nextKey, token |-> t, user |-> s.user,
                           admin |-> s.admin]}
  /\ keyGrants' = keyGrants \union [key : {nextKey}, grant : s.grants]
  /\ nextKey' = nextKey + 1

(* handleCreateKey, "gotifacts keys create".                               *)
CreateKey(t, s) ==
  /\ issued[t] = None /\ s.via = "key"
  /\ InsertKey(t, s)
  /\ issued' = [issued EXCEPT ![t] = s]
  /\ NoEffect
  /\ UNCHANGED <<mcpTokens, prompts, job, site>>

(* Mutant: foreign keys are not enforced.                                  *)
DeleteKeyOnly(k) ==
  /\ keys' = keys \ {k}
  /\ NoEffect
  /\ UNCHANGED <<keyGrants, nextKey, mcpTokens, prompts, job, site,
                 issued>>

(* The grants go with the key (ON DELETE CASCADE).                         *)
DeleteKey(k) ==
  /\ keys' = keys \ {k}
  /\ keyGrants' = {g \in keyGrants : g.key # k.id}
  /\ NoEffect
  /\ UNCHANGED <<nextKey, mcpTokens, prompts, job, site, issued>>

(* What OAuth does to the access tokens, as far as they matter here.       *)
IssueToken(t, s) ==
  /\ issued[t] = None /\ s.via = "mcp"
  /\ mcpTokens' = mcpTokens \union {[token |-> t, user |-> s.user,
                                     grants |-> s.grants]}
  /\ issued' = [issued EXCEPT ![t] = s]
  /\ NoEffect
  /\ UNCHANGED <<keys, keyGrants, nextKey, prompts, job, site>>
RevokeToken(r) ==
  /\ mcpTokens' = mcpTokens \ {r}
  /\ NoEffect
  /\ UNCHANGED <<keys, keyGrants, nextKey, prompts, job, site, issued>>

-----------------------------------------------------------------------------
(* A request is let in.                                                    *)

(* The first statement of FindKeyByHash: the row of the key.               *)
FindKey(w, k) ==
  /\ At(w, "idle")
  /\ Enter(w, [pc |-> "grants", token |-> k.token, id |-> k.id,
               user |-> k.user, admin |-> k.admin])
  /\ NoEffect
  /\ UNCHANGED <<tables, prompts, site, issued>>

(* The second, loadGrants. That the key is gone is not noticed: it has no  *)
(* grants then. late is history.                                           *)
LoadGrants(w) ==
  /\ At(w, "grants")
  /\ Enter(w, [pc |-> "in", token |-> job[w].token, via |-> "key",
               user |-> job[w].user, admin |-> job[w].admin,
               grants |-> {g.grant : g \in
                           {h \in keyGrants : h.key = job[w].id}},
               late |-> \A k \in keys : k.token # job[w].token])
  /\ NoEffect
  /\ UNCHANGED <<tables, prompts, site, issued>>

(* verifyToken: one statement.                                             *)
VerifyToken(w, r) ==
  /\ At(w, "idle")
  /\ Enter(w, [pc |-> "in", token |-> r.token, via |-> "mcp",
               user |-> r.user, admin |-> FALSE, grants |-> r.grants,
               late |-> FALSE])
  /\ NoEffect
  /\ UNCHANGED <<tables, prompts, site, issued>>

(* The request ends without an effect: refused, failed, or given up.       *)
Leave(w) ==
  /\ ~At(w, "idle")
  /\ Enter(w, Idle)
  /\ NoEffect
  /\ UNCHANGED <<tables, prompts, site, issued>>

-----------------------------------------------------------------------------
(* A request acts.                                                         *)

(* authorizeRead, once the names are in order: a row and a directory.      *)
Readable(d) == site[d].listed = "live" /\ site[d].online # Nothing

(* The operation of the publisher; a patch needs a site that is listed.    *)
Operate(op, d) ==
  \/ op = "publish"   /\ \E c \in Contents : Life!Publish(d, c)
  \/ op = "unpublish" /\ Life!Unpublish(d)
  \/ op = "restore"   /\ Life!Restore(d)
  \/ op = "purge"     /\ Life!Purge(d)
  \/ op = "rollback"  /\ \/ Life!Rollback(d) \/ Life!FailedRollback(d)
                         \/ \E i \in DOMAIN site[d].history :
                              Life!RollbackTo(d, i)
  \/ op = "patch"     /\ site[d].listed = "live" /\ UNCHANGED site
  \/ op = "read"      /\ Readable(d) /\ UNCHANGED site

Done(w, op, d, answer) ==
  /\ effect' = [token |-> job[w].token, op |-> op, site |-> d,
                late |-> job[w].late, answer |-> answer]
  /\ Enter(w, Idle)
  /\ UNCHANGED <<tables, prompts, issued>>

Act(w, op, d, answer) == Operate(op, d) /\ Done(w, op, d, answer)

(* The ingest API: the path is put in order before the grants are asked.   *)
Ingest(w, r) ==
  LET d == IF r.op = "publish" THEN NewSitePath(r.group, r.slug)
           ELSE ParseSitePath(SiteDir(r.group, r.slug))
  IN  /\ At(w, "in") /\ job[w].via = "key" /\ r.op \notin OnlyMCP
      /\ d # NoSite
      /\ Can(job[w], Capability(r.op), GroupOf(d), SlugOf(d))
      /\ Act(w, r.op, d, None)

GroupNamed(r) == IF r.group = Root THEN MCPGroup ELSE r.group

(* Every tool first: the strings are compared with the grants as they are. *)
Admitted(w, r) ==
  /\ At(w, "in") /\ job[w].via = "mcp"
  /\ Can(job[w], Capability(r.op), GroupNamed(r), r.slug)

Prompt(w, r) == [user |-> job[w].user, group |-> GroupNamed(r), slug |-> r.slug]

(* confirmPurge, first round, for a client that can ask its user.          *)
AskPurge(w, r) ==
  /\ r.op = "purge" /\ Admitted(w, r)
  /\ prompts' = prompts \union {Prompt(w, r)}
  /\ Enter(w, Idle)
  /\ NoEffect
  /\ UNCHANGED <<tables, site, issued>>

(* Mutant: the confirmation is not bound to the site.                      *)
PurgeTokenOfUser(w, r, q) == q \in prompts /\ q.user = job[w].user

(* The client may echo any confirmation it holds.                          *)
PurgeTokenValid(w, r, q) == q \in prompts /\ q = Prompt(w, r)

(* The site a tool acts on: publish, rollback and the reading tools        *)
(* (authorizeRead) put the strings in order, the others hand them on to    *)
(* the registry, where a spelling that is not the site's own finds no row. *)
ToolTarget(r) ==
  LET d == NewSitePath(GroupNamed(r), r.slug)
  IN  IF \/ r.op \in {"publish", "rollback", "read"}
         \/ SiteDir(GroupNamed(r), r.slug) = d /\ Len(r.slug) = 1
      THEN d ELSE NoSite

(* A tool that acts. answer is None for a client that cannot ask its user; *)
(* one that can has the user's consent.                                    *)
CallTool(w, r, answer) ==
  LET d == ToolTarget(r)
  IN  /\ Admitted(w, r)
      /\ d # NoSite
      /\ answer # None => r.op = "purge" /\ PurgeTokenValid(w, r, answer)
      /\ Act(w, r.op, d, answer)

(* list_sites goes through the listed sites, and tells of one if its own   *)
(* names are covered.                                                      *)
ListSites(w, d) ==
  /\ At(w, "in") /\ job[w].via = "mcp"
  /\ site[d].listed = "live" /\ Can(job[w], "read", GroupOf(d), SlugOf(d))
  /\ Done(w, "read", d, None) /\ UNCHANGED site

(* Five minutes have passed.                                               *)
Lapse(q) ==
  /\ prompts' = prompts \ {q}
  /\ NoEffect
  /\ UNCHANGED <<tables, job, site, issued>>

(* The key that authenticates confirmations is drawn anew.                 *)
Restart ==
  /\ job' = [w \in Workers |-> Idle] /\ prompts' = {}
  /\ NoEffect
  /\ UNCHANGED <<tables, site, issued>>

Manage ==
  \/ \E t \in Tokens, s \in Shapes : CreateKey(t, s) \/ IssueToken(t, s)
  \/ \E k \in keys : DeleteKey(k)
  \/ \E r \in mcpTokens : RevokeToken(r)

Serve(w) ==
  \/ \E k \in keys : FindKey(w, k)
  \/ LoadGrants(w) \/ Leave(w)
  \/ \E r \in mcpTokens : VerifyToken(w, r)
  \/ \E d \in SitePath : ListSites(w, d)
  \/ \E r \in Requests :
       \/ Ingest(w, r) \/ AskPurge(w, r)
       \/ \E q \in prompts \union {None} : CallTool(w, r, q)

Next == Manage \/ (\E w \in Workers : Serve(w)) \/ (\E q \in prompts : Lapse(q))
        \/ Restart

Spec == Init /\ [][Next]_vars

-----------------------------------------------------------------------------
(* Properties.                                                             *)

(* Every variable stays within its type, and the tables keep their         *)
(* constraints: ids are unique, and grants belong to a key that exists.    *)
TypeOK ==
  /\ \A k \in keys : k.id \in 1..(nextKey - 1) /\ k.token \in Tokens
  /\ \A k, l \in keys : k.id = l.id => k = l
  /\ \A g \in keyGrants : g.grant \in Grant /\ \E k \in keys : k.id = g.key
  /\ \A r \in mcpTokens : r.token \in Tokens /\ r.grants \subseteq Grant
  /\ issued \in [Tokens -> Shapes \union {None}]
  /\ site \in [SitePath -> Life!State]
  /\ effect = None \/ (effect.site \in SitePath /\ effect.op \in Operations)

(* What the permissions page says a grant covers: a group owns its own     *)
(* subdomain and everything beneath it, a site grant exactly one site.     *)
Covers(g, d) ==
  IF g.kind = "site" THEN d = g.target
                     ELSE g.target = Root \/ IsPrefix(g.target, d)

(* "Confined to each grant's target": however a request spells its site,   *)
(* and whatever happens to keys between reading the row of one and its     *)
(* grants, the site it changes is one that the grants its token was issued *)
(* with cover, for that capability.                                        *)
EffectsAreGranted ==
  effect # None =>
    LET s == issued[effect.token]
    IN  s.admin \/ \E g \in s.grants : /\ Capability(effect.op) \in g.caps
                                       /\ Covers(g, effect.site)

(* A key revoked between the two statements that read it is good for       *)
(* nothing, unless it is an administrator's.                               *)
RevocationFailsClosed ==
  effect # None /\ effect.late => issued[effect.token].admin

(* "An answer cannot be replayed against a different site": a purge that   *)
(* was confirmed destroys the very site its own user was asked about.      *)
PurgeAnswersItsQuestion ==
  effect # None /\ effect.answer # None =>
    /\ effect.answer.user = issued[effect.token].user
    /\ NewSitePath(effect.answer.group, effect.answer.slug) = effect.site
=============================================================================
