# gotifacts in TLA+

gotifacts is a self-hosted server for static sites: a client uploads an archive,
the server unpacks it, swaps it into a directory on its data volume and serves it
under a host name of its own. This directory holds TLA+ models of that program,
TLC configurations that check them on small instances, and proofs TLAPS checks
for every instance. Names in the models are those of the Go code; `PROJECT.json`
maps each definition to the lines it stands for.

## 1. The system

| part | state it keeps | operations | talks to |
|---|---|---|---|
| publisher (`internal/ingest`) | none of its own: the trees `sites/`, `.deleted/`, `.versions/`, `.tmp/` | Publish, RollbackTo, Rollback, Unpublish, Restore, Purge, PurgeDeleted, BackfillSizes, BackfillFavicons, ListRevisions, RevisionDir | registry (one statement per call), file system |
| site registry (`internal/store/sites.go`) | table `sites`: metadata, `deleted_at`, `size_bytes`, favicon | UpsertSite, UpsertSiteTouch, PatchSite, SoftDeleteSite, RestoreSite, DeleteSite, PurgeDeletedSite, SetSiteSize, SetSiteFavicon, lists | SQLite |
| startup and purge loop (`cmd/gotifacts/serve.go`) | a ticker | size backfill, hourly PurgeDeleted | publisher |
| HTTP API (`internal/api`) | none | one handler per site, key and file operation | publisher, registry, keys |
| MCP server (`internal/mcpserver`) | rate-limiter windows | site tools, reading tools, two-round purge confirmation | publisher, registry |
| MCP OAuth and consent | tables of clients, codes, connections and tokens | register, authorize, exchange, refresh, revoke | registry |
| API keys, authorisation (`internal/auth`, `internal/keys`, `store/keys.go`) | tables of keys and grants | create, revoke, `Can` | registry |
| host routing (`internal/router`) | none | Host, ParseHost, SitePath | - |
| archive extraction (`internal/archive`) | none | extract under byte and entry limits | file system |
| site server (`internal/portal/sites.go`) | none | serve a file of the live directory | file system only |
| group tree (`internal/api/tree.go`) | none | BuildTree | - |
| layout migration, backfill commands (`cmd/gotifacts`) | none | one-off CLI processes on the same volume | publisher, file system |
| configuration, database opening, logging, portal front end | - | parsing, schema migrations, output, static assets | - |

HTTP handlers, MCP tool calls, the purge loop and CLI commands are goroutines or
processes that share the SQLite file and the data volume. **Nothing locks a
site.** SQLite makes each statement atomic, the file system each rename;
everything in between interleaves. The site server does not consult the registry:
what the live directory holds is what visitors get, whatever the row says.

What makes this hard, and is rarely met by a test:

* *Interleaving.* Two publishes both find a live directory; a prune works from a
  listing another process has changed; the purge loop works through a snapshot of
  rows while requests restore or republish them.
* *Partial failure and crashes.* An operation is six to ten calls on two stores;
  a full disk, a cancelled request context or a restart can end it between any
  two. `RemoveAll` is not atomic either.
* *Boundaries.* `GOTIFACTS_VERSIONING_KEEP=1` is legal, versioning is off by
  default, a site may be nested under another one's path.
* *Progress.* Requests must end although others keep changing the history under
  them; expired sites must be purged although the loop ignores errors.
* Elsewhere: refresh-token rotation and revocation as separate statements, a key
  read in two statements, names compared with grants before they are normalised,
  confirmations that the client carries, read-modify-write of metadata, an
  interrupted layout migration.

What makes each part correct:

* publisher + registry: row and files agree between operations; visitors never
  see half a site; content on display is moved, never destroyed; the newest `Keep`
  versions survive; a listed site stays online through a swap, and keeps files
  through crashes; the trash is purged, and only the trash; requests end.
* OAuth: a code or refresh token yields at most one pair of tokens; a revoked
  connection has none. Keys: what a key may do is what its grants cover at one
  moment. Routing: ParseHost inverts Host. Extraction: the limits hold over the
  whole archive. Tree: each site appears once, whatever the map order. Migration:
  an interrupted run and its re-run equal one full run.

`PROJECT.json` lists the hazards line by line, with the properties that cover them.

## 2. Modules

| module | what it is |
|---|---|
| `Publisher` | the publisher over the registry, call by call |
| `SiteLifecycle` | what the publisher promises: one atomic change of a site per operation |
| `PublisherSerial` | refinement mapping from `Publisher` to `SiteLifecycle` |
| `MCPublisher` | constants of the TLC instances |
| `PublisherProofs` | types, control flow, what keeps a site's files while publishes race, the history of versions, and where displayed content goes |
| `PublisherSerialProofs` | what holds when operations run one at a time, and the refinement of `SiteLifecycle` |
| `OAuth` | the MCP connector's authorization server, statement by statement |
| `MCOAuth` | symmetry of the TLC instances |
| `OAuthProofs` | its safety properties, proved |
| `SitePaths` | how a site is named: in a request, on disk, as a host (pure operators) |
| `GroupTree` | the portal's tree of groups (pure operators) |
| `Access` | API keys, grants, the ingest API and the MCP tools over `SiteLifecycle` |
| `Portal` | what visitors and the portal make of the sites `Access` has published |
| `AccessProofs` | what is proved of these four |
| `MCAccess` | constants of the TLC instance of `Access` and `Portal` |
| `Migrate` | the `migrate-layout` command on the three trees of the volume, rename by rename |
| `MigrateProofs` | its safety properties, proved, and what `Volume` promises of an upgrade and after it |
| `Upload` | how an upload is unpacked and put online, entry by entry |
| `UploadProofs` | its properties, proved |
| `ReadFile` | the MCP tool `read_file`, page by page, while uploads replace the site |
| `ReadFileProofs` | its properties, proved |
| `Volume` | the three of them: the upgrade of a volume, then its daily use |
| `MCVolume` | constants of the TLC instance of `Volume` |
| `Folding` | lemmas about the folds of the community modules, for the proofs |

`Access` composes: its sites are an instance of `SiteLifecycle`, the specification
`Publisher` is shown to implement, and its MCP tokens are what `OAuth` leaves in the
token table. `Portal` adds the readers of its result. `ReadFile` extends `Upload`, whose live
directory it reads; `Volume` puts `Migrate` before both. Planned modules are in section 6.

### Publisher and the code

State. `reg`, `expired`, `size`, `icon` are the columns of a row that the pipeline
writes. `live`, `quar`, `vers` are the `@site` directories under `sites/`,
`.deleted/` and `.versions/`; `stamp` is the clock that names versions. `job[p]`
is the control point and the locals of a process; `todo` is the slice of sites
`PurgeDeleted` ranges over.

Actions. Each is one call that others can observe:

| actions | code |
|---|---|
| `BeginPublish`, `BeginRollbackTo`, `BeginRollback` | the operation up to its first visible call; extraction and copying go to a private directory under `.tmp` |
| `Stat`, `TakeStamp`, `Archive`, `Prune`, `Drop`, `Clear`, `SwapIn` | `swap`, `archiveVersion` (`time.Now` and the rename are separate steps), `pruneVersions` (the listing, then one `RemoveAll` at a time) |
| `RollbackIn` | the rename of the chosen version out of the history |
| `MeasureLive`, `Upsert`, `Touch`, `Reread`, `Resize`, `Detect`, `Compare`, `SetIcon` | `dirSize`, `UpsertSite`, `UpsertSiteTouch` and the `GetSite` both end with, `SetSiteSize`, favicon |
| `BeginUnpublish`, `QStat`, `QClear`, `QMove` | `Unpublish` |
| `BeginRestore`, `QCheck`, `Clear`, `RestoreIn` | `Restore` |
| `BeginPurge`, `Wipe` | `Purge` |
| `BeginReap`, `Wipe`, `DeleteSite` | `PurgeDeleted`, run by `runPurgeLoop` |
| `BeginFavicons`, ... | one site of `backfill-favicons` |
| `Restart`, `BackfillSizes` | the process stops and `runServe` starts again |
| `Expire`, `Tear` | the TTL runs out; a `RemoveAll` is half-way |
| `Fail`: `Aborted` | a call fails and the operation ends there, with the error, or, where the last call's error is dropped (`SetSiteFavicon` in `Publish`), as if it had succeeded |
| `Fail`: `Overlooked` | a call fails and the operation goes on: an `os.Stat` that fails counts as "nothing there", a `RemoveAll` in `Restore`, `Unpublish` and the purge loop as done, `dirSize` returns what it has counted so far (`PartSize`), `detectFavicon` no icon or a less preferred one (`PartIcon`) |
| `Fail` at `DeleteSite` | the purge loop goes on to the next site |

With `Serial` an operation starts only when no other runs, which isolates what one
operation does from what overlapping ones do. With `Faults` any call may fail and
the process may die at any step. `missed` in a job is history: which of the two best-effort
reads, size and icon, has failed. No guard reads it, `PublishSettles` does.

Abstractions. A directory is the content it was filled from plus whether some of
its files are gone; the size is *which* directories were counted, so two different
contents never have equal sizes by chance, and the icon is the content it was taken
from. Parent directories (`MkdirAll`, `pruneEmptyDirs`), leftovers in `.tmp`, titles
and other metadata are not tracked. Version names are unique and grow with the
clock (nanosecond names, no clock set back), but two processes may use theirs out
of order. The retention TTL is an event (`Expire`). The copy `RollbackTo` stages is
atomic with its start. `BackfillSizes` is one step and precedes the listener, as in
`runServe`; it skips the sites it fails to walk. A size read in part is that of a torn
directory: which of the files were counted is left out, and so is which of a content's icons
was found.

### SiteLifecycle and the refinement

`SiteLifecycle` has no rows, directories or intermediate steps: `Publish`,
`Unpublish`, `Restore`, `Purge`, `Rollback`, `RollbackTo` each change what is
listed, what is online, what the trash holds and the retained history.
`PublisherSerial` maps a state of `Publisher` to it, placing the effect of a running
operation at the call that commits it; `Implements` is checked by TLC in run
`serial` for operations that do not overlap and do not fail, with `Keep = 2`, and proved
for any `Keep >= 2` and any number of sites (section 5). It
does not hold when operations overlap, nor with `Keep = 1`. There a rollback of a site that is
online fails (finding 3), which `SiteLifecycle` has as `FailedRollback`: the history is what
archiving has left of it, and nothing is online. But a site listed with nothing online is one
that `Unpublish` marks as trashed without replacing its quarantine: publish c1, unpublish,
publish c2, publish c3, roll back, unpublish, and the trash holds c1, where `SiteLifecycle`
has the trash replaced by what was online.

### OAuth and the code

State. `clients`, `codes` and `tokens` are the three tables of `0003_mcp.sql`; `job[w]` is a
request in progress at the token endpoint, with the parameters `issueTokens` carries from
statement to statement; `next` draws the random identifiers, which therefore never collide.
`approved`, `revoked`, `doubled` and the field `code` of an owner are history: no guard
reads them, the properties do.

| actions | code |
|---|---|
| `Register` | `handleRegister` |
| `Approve` | `HandleConsentSubmit` with "approve", `issueCode` |
| `Exchange`, `Begin` | `grantAuthorizationCode`: `ConsumeAuthCode` commits before anything is compared, so a request that does not fit spends the code |
| `Refresh` | `grantRefreshToken` up to `FindToken` |
| `Rotate` | its `DeleteToken`, whose error is ignored and which cannot tell that the row was gone |
| `MintAccess`, `MintRefresh` | the two `CreateToken` of `issueTokens` |
| `Fail` | one of these three statements returns an error, or the client hangs up |
| `Revoke` | `handleRevokeConnection`, `gotifacts mcp revoke` |
| `Restart` | the process ends; only the tables survive |

Abstractions. A request that is refused changes nothing and is no step. Whether the code has
expired, and whether the redirect URI, the PKCE verifier and the client's secret are the right
ones, is the free choice `fits` of the request, or the request is not made: any outcome of
these comparisons is explored, and nothing is shown of the comparisons themselves. A token's
expiry only removes requests, so the model allows every request it would. The rate limiter
of registration, `last_used_at` and the listing of connections are not modelled.

### Access and the code

State. `keys` and `keyGrants` are the tables `api_keys` and `api_key_grants`, with their
constraints (`AUTOINCREMENT`, and the foreign key with `ON DELETE CASCADE`); `nextKey` is
the counter of the first. `mcpTokens` is what matters of `oauth_tokens`. `prompts` is the
set of purge confirmations that clients hold and that have not expired: the server keeps
none, it recomputes an HMAC. `job[w]` is a request: the key it found, or the principal it
acts as. `issued` and `effect` are history, read only by the properties and by the rule
that no token is issued twice.

| actions | code |
|---|---|
| `CreateKey`, `InsertKey`, `DeleteKey` | `handleCreateKey`, `gotifacts keys create`, the store's `CreateKey` (one transaction) and `DeleteKey` |
| `IssueToken`, `RevokeToken` | the net effect of `OAuth` on access tokens |
| `FindKey`, `LoadGrants` | the two statements of `FindKeyByHash` |
| `VerifyToken` | `verifyToken`, one statement |
| `Ingest` | the handlers of the ingest API: `parseSitePath` or `NewSitePath`, then `Can`, then the operation |
| `CallTool` | the tools: `Can` on the strings as given, then the operation, which normalises them (publish, rollback) or looks them up as they are |
| `AskPurge`, `Lapse` | the first round of `confirmPurge`; the five minutes pass |
| `ListSites` | `handleListSites`: `authorizeRead` for each site that has files |
| `Leave` | the request is refused, fails, or its client hangs up |
| `Restart` | requests end, and the HMAC key is drawn anew |

Abstractions. An operation on a site is one atomic change, that of `SiteLifecycle` (with one
version kept, as in run `access`, a rollback of a site that is online is its `FailedRollback`);
what happens inside it is `Publisher`'s subject. A string with separators is the sequence of its
segments, so `a//b` and `A/b` are `<<a, e, b>>` and `<<A, b>>`; characters within a
label, ports, and blanks around a name are left out. Expiry is one of the refusals.
Of the reading tools only what they may read is here: one site ("read", which stands for
`read_file`, `list_files` and `search_site`) or all of them (`list_sites`).
`last_used_at`, the listing of keys, and the administrators of the management API, whose
identity comes from the reverse proxy, are not modelled.
`BuildTree` ranges over a Go map, so `GroupTree` takes the order as a parameter and the
property quantifies over all of them.

### Migrate and the code

State. `vol` is the data volume as a set of files, each with the tree it is in (`sites/`,
`versions/`, `deleted/`), its path and its bytes; directories are those the paths imply.
`run`, `todo`, `site`, `tree` and `loose` are the control point and the locals of
`migrateLayout` and `migrateSiteDir`. `before` is history: the volume as the upgrade found it.

| actions | code |
|---|---|
| `StartMigration`, `TakeSite` | the registry is listed once, live sites and trash; one site after another, in any order |
| `ReadDir`, `Move`, `NextTree` | `migrateSiteDir` for each of the three trees: `os.ReadDir`, the choice of entries, one `os.Rename` each |
| `FinishMigration`, `MigrationFails` | the command ends; a call fails or the process dies, after which it may be run again |

`os.Rename` is modelled by what it does where its target exists: a file replaces a file, and
anything else is an error. What belongs where is defined apart from the command, by the
deepest registered site above a file (`Owner`, `Placed`). Left out: `--dry-run`, which changes
nothing; empty directories; rows whose path does not parse, which the command skips with a
warning; the order of names within a directory, any of which the model allows.

### Upload and the code

State. `up` is the extraction in progress: the entries still to come, the directory it fills,
the bytes written, and whether an index page was found. `live` is the directory online, a
function from paths to bytes. `up.upload` and `up.copy` are history.

| actions | code |
|---|---|
| `Begin` | the call of `Publish` with an archive, a page or the files of a tool call (`buildBundle`); for a zip, `singleRootPrefix` |
| `Reject`, `Skip`, `MakeDir`, `WriteFile` | one entry of `extractTarGz` or `extractZip`: the refusals in their order, `safeJoin`, `os.MkdirAll`, `writeFile` with its limit |
| `Check` | the end of the archive; there must be an index page |
| `Swap`, `Cleanup` | `swap` (in one step: its interior is `Publisher`'s), the deferred `RemoveAll` of the private directory |
| `Abort`, `Die` | a damaged archive or a failing call; the process ends |
| `TakeOffline`, `Republish` | the site goes away; its zip (`revisionArchive`) is downloaded and published again |

A name is the sequence of what its slashes separate, so `..`, `.`, a leading slash and a
trailing one are all there; other characters are not. Left out: compression, file modes and
times, and the order in which a download lists files (any).

### ReadFile and the code

State. `ses` is a client that follows `next_offset`: the latest page's offsets, and as history
the text so far, what the file held when it began, and whether it held the same on each page.
The server keeps nothing between calls, and opens whatever is live by then.

| actions | code |
|---|---|
| `Open` | the first call: `resolveReadPath`, `clampLimit`, `readChunk` |
| `NextPage` | the call with the offset the last page gave |
| `Close` | the client stops, at the end or before |

A byte is what it is to UTF-8 (the lead of a rune of some width, a continuation, never legal)
or to `http.DetectContentType` (a control character). Left out: which continuations are legal
after a particular lead, the signatures by which `DetectContentType` knows HTML, images and
archives before it looks for control characters, and symbolic links, which extraction refuses.

### Volume and the code

`Maintain` is the command, with the server stopped; `StartServer` is the start of the server
after a run that ended without an error; `Serve` is a step of `ReadFile`. `ContentDir` is
where `router.ContentDir` says a site's files are. `VolumeAssumption` says of the volumes an
upgrade may find what every file system does: names are neither empty nor `.` or `..`, and no
file has another one below it.

## 3. Runs

| run | instance | shows |
|---|---|---|
| `serial` | 1 site, 2 contents, all operations, one at a time, no failures, versioning on, Keep 2 | row and files agree between operations (`SerialConsistency`); no torn site is served; displayed content is only moved; the refinement `Implements` |
| `serial_faults` | the same with failing calls and crashes | types; pruning keeps the newest versions; listed rows are not dropped; a publish that reports success has the new files online and listed whatever came before, and their size and icon but for what it failed itself to read or write (`PublishSettles`) |
| `publishers` | 3 processes publish and roll back to revisions of one site, Keep 1 | no content overwritten, the site is online or about to be and keeps files on display or in its history, which exceeds Keep only by the processes still pruning |
| `concurrent` | 2 processes publish, unpublish and roll back beside the purge loop, fair scheduling | expired sites are purged, every request ends |
| `oauth` | 2 clients, 2 users with grants, 2 requests at the token endpoint, failing statements and restarts | tokens stay within a consent that was given, a consent opens one connection, rotation leaves one refresh token unless it is disturbed, revoking an idle connection is final |
| `access` | 2 tokens of 5 kinds (administrator, group and site keys, MCP tokens of two users), 1 request at a time, 3 sites above each other, 2 overlapping domains, names with capitals, empty segments, slashes and invalid labels | no request changes or reads a site that its token's grants do not cover (`EffectsAreGranted`), a key revoked while it is read is good for nothing, a confirmed purge destroys what its user was asked about; each listed site is reached by its host names and shown once in the tree |
| `volume` | 5 volumes an upgrade may find (all to be moved, with a site of the trash nested in a live one; a site already published anew; one with a directory in the way; one with a file named `@site`; a site without an index), 16 uploads of all kinds, 11 ways to read | however often the migration dies, files are neither lost nor misplaced, and what is served afterwards is what was there before; an upload goes online as a whole and within the limits, or had something to be refused for; the zip of a site with an index publishes the same site; the pages of a file tile it, and every one moves on |
| `purge_race`, `half_written`, `rollback_keep1`, `nested_sizes`, `revoke_race` | the findings below | one violated property each |

Bounds. `MaxStamp` limits how many archiving operations start (an operation that
would archive does not begin at the bound, none is cut short), so four or five
versions come into being with Keep 1 or 2: enough to fill the history, prune it, and
roll back into and past it. One site suffices where sites do not interact; only
`BackfillSizes` relates two, and `nested_sizes` has a parent and a child. Two
contents tell "the same files" from "other files". Two workers are needed for every
race we know of here, three for two prunes against one rename. Symmetry is used only
in runs without liveness properties. In `oauth`, `MaxConsents = 2` and `MaxIds = 8` admit both
consents exchanged in full at the same time, or one exchange followed by two rotations; a
request that began within the bound always runs to its end. In `access` two tokens are
enough for one key to be revoked and another created while a request holds the first one's
id; requests share only the tables and the confirmations, each of which changes in one step,
so a second request at the same time adds no behaviour that a token issued or revoked in
between does not; Keep is 1 and there is one content, as no property there looks at either.
In `volume` the limits are as small as they can be with both sides of each reached: 15 bytes
and 3 entries per extraction, 11 bytes per tool call, with uploads that meet each limit
exactly and uploads one beyond it. `SniffLen`, `DefaultLimit` and `MaxLimit` are 3, 6 and 7, so that
the first bytes of a file and its pages end inside runes of every width; offsets lie before,
at, inside and after runes and beyond the file.
`serial_faults` has the crashes of an operation alone; those of publishes and rollbacks that
overlap are in no run, as the theorem `FilesAlwaysSurvive` covers them for every instance.
Deadlock is checked everywhere: `Restart` of an
idle server is always possible, so a stuck operation shows up as a failure of
`RequestsFinish` instead.

Every property of a passing run has a mutant in `PROJECT.json`: a plausible slip in
the code (a forgotten `SetSiteSize`, an off-by-one or a wrong sort order in the
pruning, a `DELETE` without its condition) that makes it fail.

Fairness. `FairSpec` assumes weak fairness of each worker's next step and of the
purge loop: the Go scheduler runs every runnable goroutine, system calls return, and
the ticker of `runPurgeLoop` keeps firing. Nothing is assumed about clients, `Expire`,
`Tear`, `Fail` or `Restart`; an idle restart may happen at any time and does not stop the
purge loop for good. `concurrent` has no faults: with them a process may die for
ever before its next step, and its instance is beyond TLC's reach for liveness. That the loop
makes up for the errors it ignores is therefore not shown.

## 4. Findings

1. `purge_race` (`ingest.go:302`): `PurgeDeleted` deletes rows from a snapshot with an
   unconditional `DELETE`. A site restored after the list loses its row, though
   `DeleteSite` says it is used "only ... after the retention TTL has elapsed".
2. `half_written` (`ingest.go:168`): with versioning off, the default, `swap` removes
   the live directory file by file before the rename, where the architecture page says
   a site is "never served half-written".
3. `rollback_keep1` (`ingest.go:392`): with Keep 1, `Rollback` archives the live content,
   which prunes the version it has just chosen; the rename fails and the site is listed
   with nothing online.
4. `nested_sizes` (`ingest.go:322`): `BackfillSizes` measures `Dir()` instead of
   `ContentDir()`, so a parent's size includes its nested sites after each start.

5. `revoke_race` (`store/oauth.go:261`): `DeleteConnection` deletes the tokens that exist. A
   request between its `ConsumeAuthCode` or `FindToken` and its second `CreateToken` still
   creates tokens, with the same connection id, so a connector can come out of a revocation
   with tokens although the handler says it "immediately loses access". The revocation holds
   when no request of the connection is in progress (`QuietRevocationHolds`).

Also seen while modelling: with `Rollback` among three racing clients and Keep 1,
`FilesSurvive` fails, because a version archived late under an early stamp is pruned as
the oldest; and `RollbackTo` leaves the favicon of the content it replaced. Neither
contradicts a documented promise, so they are hazards here and not runs. Of the migration: a
site published under the new layout before it runs has its new files replaced by the old ones
of the same name, or stops the command when one of the two is a directory (the properties
exempt these volumes by `Unambiguous`); a file in a directory that leads to a nested site is
neither moved nor served afterwards; and archived versions of a nested site that has been
purged become part of a version of its parent. The pages `read_file` returns do not say which
revision they are from, so a client cannot tell that a publish came between two of them. The
download of a revision (`files.go:237`) ignores the errors of its walk and may be incomplete.
The zip of a site that has lost its index and has all its files in one folder (a publish always
asks for an index, a `RemoveAll` cut short does not keep it) is unwrapped by `singleRootPrefix`
when it is published again, so that every path in it changes: `DownloadRepublishes` is
about sites with an index, as the proof showed it has to be.

## 5. Proofs

`PublisherProofs!TypeCorrect`: `TypeOK` is inductive; one lemma per group of actions.
No assumption beyond those `Publisher` states about its constants.

`PublisherProofs!SiteStaysOnline`: `SwapKeepsSiteOnline` for any number of sites,
contents and processes and any `Keep`, when clients publish, roll back to revisions or
refresh favicons and no call fails, with or without versioning. The property is not
inductive: a step at `movein` could find its staged directory missing or belong to another
operation. `SwapInv` adds that no row is in the trash and no process at a trash step
(`NoTrash`), that a process before its move-in holds a staged directory (`Staged`), and
that no process runs `Rollback` (`NoRollback`). The key case is two processes in
`movein`: the one that loses its rename finds the live directory filled by the other.

`PublisherProofs!FilesAlwaysSurvive`: `FilesSurvive` with versioning on, the same
clients, and failures and crashes anywhere. Here the strengthening is
`DoomedNotLast`: every version a process has still to remove has a newer one in the
history. An archive only adds versions, and a removal never takes the newest one, because
that one would need a newer one itself; so pruning never empties the history, and
`ListedHasFiles` (a site that is listed or about to be has files) is then
preserved by every move.

The second part of `PublisherProofs` holds for any number of processes. All of it rests on `StampInv`:
stamps are unique within a site and below the clock, and the stamp a process has drawn and not
yet used is in no history and on no list to be pruned (`OwnStamp`). The history is reasoned
about through its stamps, since a removal under way changes a version and not its stamp.

- `PruningKeepsNewest` (`PruneKeepsNewest`, any call failing). Inductive with
  `DoomedOutdated`: whatever a process still has to remove has `Keep` newer stamps in the
  history *now*. Others only add newer stamps, and a removal takes the oldest of a list first,
  so what is newer than a listed version survives. Its hypothesis, that
  rolling back to the newest version is unused or serial, is needed: such a rollback takes a
  version out of the history that another process has counted.
- `HistoryBounded` (`VersionsBounded`, no call failing). The bound itself is not
  inductive: a process that finishes must have removed what it listed. `SparedBounded` says it
  for every set of processes that have listed: what all of them leave exceeds `Keep` by no more
  than the processes outside the set that are still to prune.
- `DisplayedIsKept` (`NothingOverwritten`, with versioning, without Restore) and
  `PublishersServeWhole` (`NeverServedTorn`, without rollbacks either): every way a live
  directory changes is one of five (`LiveSteps`), and of those only `Clear` deletes files in
  place. With rollbacks a torn version could come online: a removal cut short leaves one.

`PublisherSerialProofs` is about operations run one at a time. `ListedRowStays` and
`PublishesSettle` allow calls to fail and the process to die anywhere: the sites the purge loop
has listed are still in the trash when it gets to them (`JanitorList`), and what a publish
has achieved at each of its calls (`PublishPhase`) depends on nothing an earlier failure left.
The size it carries is that of its own files or, if `missed` has it, of a part of them
(`SizeRead`), the icon likewise (`IconRead`); a failing call leaves this so or ends the operation
(`PublishFails`). So a size or icon out of step after a reported success is due to this very
publish: the code promises no more, as it drops those errors, and the next publish repairs it.
`OperationsKeepConsistency` (`SerialConsistency`) needs the full invariant, `SerialInv`: every
operation keeps to its calls (`OnRoute`); at each of them it can rely on its `Phase`; every
site it is not on is consistent (`Elsewhere`); a version or a live directory is torn only while
the process removing it is at it (`WholeVersions`, `WholeLive`), which is why neither a rollback
nor an archive can pick up half of one; and a rollback never prunes its own choice (`Sources`).
The last one needs `Keep >= 2`. `SoloDeployment` collects the hypotheses (serial, no failing
call, no nested sites, `Keep >= 2` where rollbacks are used). None can be dropped:
`purge_race`, `nested_sizes` and `rollback_keep1` show what becomes of a site without the
first, the third and the fourth, and a call that fails leaves its operation half done.
`RollbackKeepsSiteOnline`, `SerialServesWhole` and `SerialKeepsDisplayed` follow from
the same invariant.

`PublisherSerialProofs!OperationsAreAtomic` is the refinement: under `SoloDeployment`
every step of `Publisher` is an operation of `SiteLifecycle` or changes nothing in it
(`Implements`, safety only: `SiteLifecycle` states no fairness). It has three parts.

- *Histories.* `Publisher` keeps a set of stamped versions, `SiteLifecycle` a sequence. A
  version stands at the place of its stamp among the stamps (`PlacesInOrder`, `PlacesFilled`,
  `OrderedAt`), so archiving appends, pruning drops a prefix and rolling back takes one
  element out; no induction is needed.
- *Invariant.* `LifeInv` adds to `SerialInv` that an idle process keeps no job (`Rested`), that
  the revision a rollback was given is still in the history (`Targets`), that a stamp drawn is
  newer than the history it will join (`Latest`), and that a history holds nothing superfluous
  but what a process is about to remove (`Trimmed`): those versions are out of the abstract
  history since the archiving, and their removal is not seen.
- *Steps.* With one operation at a time the abstract state of a site is a function of the one
  job, the row and the three directories (`View`, `ReadingHolds`). `Publish` and the rollbacks
  take effect when they archive what is online, when they find that nothing is, or, without
  versioning, when they clear the live directory; `Unpublish`, `Restore` and `Purge` at their
  statement in the registry. One lemma per call (`...Shows`) shows that or that the view stays.
  The purge loop purges a site at the step that wipes its quarantine.

`OAuthProofs` proves all five properties of run `oauth` for any number of clients, grants and
requests, with failures and restarts. `OAuthTypeCorrect`, `TokensWithinConsent`,
`ConsentOpensOneConnection` and `QuietRevocationIsFinal` share the invariant `IInv`. It treats
the owner a request carries like the owner of a token: identifiers in use are below `next`
(`Drawn`), codes differ (`DistinctCodes`), owners come from consents (`Consented`), their code
is gone from the table (`Spent`), two owners with one code or one connection are the same owner
(`OneOwner`), and no owner's connection was revoked quietly (`NoneRevoked`). Without the
requests the invariant is not inductive: a token may be created long after the code it rests
on. `RotationKeepsOneToken` adds `RotationInv`: an undisturbed connection is `Orderly`, that
is, at most one request mints for it, it has at most one refresh token, and if both exist
the request is about to delete that very token.

`AccessProofs`, for any tokens, grants, requests and workers. The invariant says of the
tables that ids are unique and below the counter, that no grant is without its key, and that
rows hold what their token was issued with; and of a request between the two statements of
`FindKeyByHash` that its id belongs to no key but its own, if to any. So what `loadGrants`
finds are the token's grants or none, and none if the key is gone, which is what
`RevokedKeysAreGoodForNothing` and `NoRightsBeyondTheToken` need. It rests on
`AUTOINCREMENT` and on `ON DELETE CASCADE`: without either TLC finds a counterexample (the
mutants of run `access`). `ConfirmedPurgesAsAsked` adds to that invariant that rows and
requests carry the user their token was issued to (`UsersOK`): a confirmation that is accepted
names that user and the strings the tool was called with, from which the site is made.
`EffectsAlwaysGranted` (`EffectsAreGranted`) is about names: `Can` compares a grant with the
strings of the request, and the operation then acts on what these spell. A grant whose target
is a path of labels and a prefix of the strings is a prefix of the path (`CoversSpelling`):
labels are already in lower case, and dropping the empty segments leaves the labels
in front of the first of them where they were (`KeptInFront`). A grant can therefore be missed
because a name is spelled oddly, but never gained. `AccessTypeCorrect` adds that what
an operation makes of a site is a state of `SiteLifecycle` (`OperateType`).

Of `Portal`, for any labels and domains: `HostRoundTrip` (ParseHost inverts Host) element by
element, and `SitesAlwaysReachable`, for which two suffixes of one host that have the same
length must be equal, so that the longest match is the site's own domain.
`TreeShowsEverySiteOnce` says what the pass over the map has made of the tree once it has been
through a set of nodes (`Landed`): this depends on the set and not on the order, since each
round moves a site no other one does (`LandOne`). That the fold gets there is an induction
over the order (`BuiltTree`); that the order has every node rests on there being finitely many
(`FewListed`, an invariant: a request lists one site at most).

`MigrateProofs`, for any registry and any volumes: `MigrationLosesNothing`,
`FullRunCompletes` and `MigratedFilesStay`, the three properties of `Migrate`. The invariant
says that the names still to move are those a listing of the directory would give now
(`LooseInv`), that every file of a site and tree the run has finished with is in its place
(`VisitedInv`), and `NothingLost`. Its core is that a rename moves exactly the files of one site:
what lies below an entry that leads to no registered site has the same owner as the entry.
Paths of sites have at most three labels (`MaxDepth`, from `router`): the deepest site above a
file is found by cases, where a general bound would need an induction.
`UpgradeIsInvisible` (`MigratedSiteReads` of `Volume`) goes on to the server: after a run that
succeeded, what lies below the `@site` directory of a site are exactly the files it had, those in
directories that lead to nested sites apart (`OwnFiles`, `FinishedInFull`), and no two at one place, as `Unambiguous` implies; until the site is
published anew, that is what `live` was read from (`ServedInv`).

`ReadFileProofs`, for any uploads, files, offsets and limits: `PagesAlwaysAdvance` and
`PagesAlwaysReadTheFile`. The argument is about boundaries between runes. In a valid text a
continuation byte has its lead among the three bytes before it (`LeadOf`); hence what lies
between two boundaries is valid (`ValidBetween`), cutting off an incomplete rune ends at a
boundary (`TrimmedSlice`), and at most three bytes have to be skipped to reach one
(`SkipToBoundary`). So the page of a text file is a stretch between boundaries (`ChunkReads`),
the next page begins where it ends, and the two join (`Joined`). Pages move on, in files that
are no text as well, because a page is read with at least four bytes of room and trimming
leaves one of them (`ChunkMoves`). Beside the invariant of the reading (`SessionOK`) they need
of the uploads only that files hold bytes.

`UploadProofs`, for any uploads and any limits, of `UploadSpec`. `UploadsStayWithinCap`
(`StagedWithinCap`) is about sums: writing a file of n bytes adds at most n to the size of the
directory, less if it replaces one (`SizeAfterWrite`), so the counter of the extraction bounds
that size; the counter may exceed the cap by one byte, and only on the way to a refusal
(`CapInv`).

`UploadsTakenAsAWhole` (`UploadTakenAsAWhole`) compares an extraction that sees one entry at a time
with what the upload means as a whole. The invariant says what the first k entries have come
to (`Progress`): the files are those of the last entry of each name among them, the directories
those above files and those asked for, no entry was to be refused, none is in another one's way, and
the counter is the sum of what was kept. Three things are needed for it to go on:

- the entry is judged the same from the directory so far as from the whole upload: it is blocked
  if and only if it conflicts with one of the first k (`BlockedFile`, `BlockedDir`,
  `Conflicts`), for clean names are folded segment by segment and their prefixes are clean;
- `singleRootPrefix` unwraps when `Unwrapped` says so (`RootFound`), a fold over all names;
- a bundle written by a tool call is unpacked to the entries it was made of.

At the end k is all of them (`AllIsMeaning`, `AllIsAcceptable`); on the way out there is a reason
(`RefusalHasReason`, `ConflictHasReason`). `DownloadsRepublish` (`DownloadRepublishes`) then has
to look only at what the download of a directory means (`DownloadMeans`): every path of it once,
already clean, no file below a file, and with the index at the top it is not unwrapped.
That what is online is such a directory is part of the invariant (`LiveOK`): it
was the meaning of an accepted upload (`MeaningIsDirectory`).

Two things were wrong with the model, and the proofs found both. The cases of
`SingleRootPrefix` overlapped, so that which one TLC took depended on their order; and
`DownloadRepublishes` held of sites without an index only because no volume had one.

The lemma `UploadsAlone` carries these theorems over to `ContentSpec`, where clients read and
leave the uploads alone. `UpgradedVolumesServe` states all properties of run `volume` for
`VolumeSpec` itself, where the server starts on a volume that was migrated. For this the
volume has to remain what a file system can hold (`MoveKeepsTree`: a rename into the leaf makes
no file of a directory, thanks to the checks before it), and then what lies below the leaf of the
site is a directory as `LiveOK` has it (`ServedDirectory`). Nothing is assumed of its index.

`Folding` has what `TreeShowsEverySiteOnce` and the theorems of `UploadProofs` need of
`FoldLeft` and `SumFunctionOnSet`: the library defines them by choosing a recursive function over
the subsets of a set, and `Recursion` shows that there is one if the set is finite. The
induction is stated of sets of numbers (`NumberInduction`), for no lemma can take an operator.

Only model-checked: liveness (`TrashIsPurged`, `RequestsFinish`), which is out of the prover's
reach. Every safety property of a passing run has a theorem; what a theorem assumes beyond the
assumptions on the constants (the operations in use, that they run one at a time, that no call
fails) is in its statement, and holds in that run.

## 6. Not modelled, and the plan

Concurrency of `Restore` and `Purge` with other requests is in the model, but no passing run
claims anything of it (`purge_race` shows why). The remaining parts, in the order planned:

1. `Registry`: `PatchSite` as a read-modify-write beside `UpsertSite` and other patches, where
   `sites.go:74` says "Missing fields keep their prior values"; metadata of a publish against
   its files.
2. `Publisher`: the identity of a trash period (republish and unpublish inside a purge cycle),
   the quarantine a publish over a trashed site leaves behind, versions that outlive a purge.
3. The fixed window of the rate limiter.
4. `Access` over `OAuth` itself, so that a tool call races a refresh and a revocation; the
   administrators of the management API.

Worth deciding by the project: a purge confirmation may be used again within its five minutes,
on a site recreated meanwhile, and is bound to the user, where the connection guide speaks of
the connection; and `DELETE /api/sites/deleted/x` is the route of a purge even if there is a
group named `deleted`.

Left out for good: SQLite's own recovery (assumed atomic per statement), schema migrations
(one transaction each at startup), logging, the portal's front end (a client of the HTTP API),
configuration parsing.
