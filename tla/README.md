# TLA+ models of the programs in the Kubernetes documentation repository

The repository is the Hugo site of the Kubernetes documentation. Most of it is
prose, generated reference pages and vendored code; the programs of its own are
few and small, but several of them are stateful, concurrent, or live with
crashes: worker programs and a replicated database that readers deploy, the
importer that writes generated pages into the site, and the scripts that run in
the reader's browser. This directory holds TLA+ modules for them, TLC
configurations that check small instances, and TLAPS proofs for all values of
the constants. Paths below are relative to the repository's `src/`.

`PROJECT.json` lists the components, runs, hazards, theorems, and for every
definition the lines of code it stands for. To use it: `tlc -config RedisWQ.cfg
MCRedisWQ` checks a run, `tlapm RedisWQProofs.tla` checks the proofs of a
module.

## Inventory

### Programs that are modelled

**Redis work queue**
(`content/en/docs/tasks/job/fine-parallel-processing-work-queue/`: `rediswq.py`,
`worker.py`, `job.yaml`). State: the Redis lists `job2` and `job2:processing`,
one lease key per leased item, the local variables of each worker. Operations:
`empty` (two LLENs), `lease` (BRPOPLPUSH, then SETEX), `complete` (LREM, then
DEL). The pods of a Job share the store and are restarted by `restartPolicy:
OnFailure`. Hard: every operation is several commands among which other workers'
commands fall; a container may die between any two; leases expire while their
holder still works. Correct when no worker leaves early, no item is lost or
worked on twice, nobody deletes another's lease, and the Job ends.

**Replicated MySQL**
(`content/en/docs/tasks/run-application/mysql-statefulset.yaml`). State per pod:
its init containers, the server, the `xtrabackup` sidecar's shell script, the
files under `/var/lib/mysql`, what the tables contain; the master's binary log.
Operations: create a pod (in order), pick the configuration, clone from the
neighbour, prepare, start the server, derive the replication coordinates from
the files, start replication, serve backups; client writes and replication.
Hard: crashes anywhere with files half done, volumes that outlive pods, files as
the only memory between incarnations, cloning from a server that is itself
behind. Correct when a slave holds a prefix of the master's log that matches its
position, replication is set up once, a pod does not lose what it served, and
every slave catches up.

**Glossary page** (`static/js/glossary.js`, the glossary layout). State: the
`activeTags` object, the tags' marks, per-term show counts and visibility, the
address and its history. Operations: toggle a tag, select or deselect all,
follow a term's permalink, load an address, go back. Hard: a count per term kept
by increments, an address that mirrors the tags, parameters nobody chose, a
fragment in the address. Correct when exactly the terms with an active tag are
visible and the address, opened again, shows the same.

**Importer** (`update-imported-docs/update-imported-docs.go` and its YAML
configurations). State: the clones, the pages of the site, the position in the
configuration, a title block and the content in memory. Operations per file:
read the title block of the page, open, write title, write the processed source.
Hard: it may fail or be killed between any two writes, a later file or
repository may fail after earlier ones were written, two entries may name one
page, pages change between runs. Correct when a page keeps its title block and
every page the run passed holds what was imported.

**Scripts of every page** (`static/js/script.js` and the partials for header,
footer and side menu). The *accordion* of the side menu: an open/closed class
and a height per item, one `moving` flag, delayed steps of an animation. The
*navigation*: the header menu, the push menu, the table of contents, with
listeners added and removed after delays. Hard: clicks, scrolling and resizing
among several pending timeouts that read state set before and after them.
Correct when no order of them leaves the page dead, locked or showing what is
closed. The *making of the push menus* from elements spread over the page,
correct when each menu has all of its items, in order; the *video player*, whose
fades are queued while its click handlers multiply, correct when no video goes
on unseen and the page scrolls when the player is gone.

**Reference pages**
(`static/docs/reference/generated/kubernetes-api/v1.10/scroll.js`,
`tabvisibility.js`, and identical copies for kubectl). State: the lists unfolded
and the link marked in the sidebar, the section and subsection last active,
timeouts that scroll the sidebar, the code tab. Operations: scroll, hashchange,
timeout, click on a tab. Hard: two independent scans of the page, tokens that
are kept when there is nothing new, a target computed 200 ms before its use,
tabs that move the headings without an event. Correct when one path is unfolded,
with the marked link in it, and both are the reader's.

**User journeys of the docs portal** (`static/js/user-journeys/home.js`,
`layouts/docs/docsportal_home.html`). State: the parameters path, persona,
level; the URL and the browser's history; the card, button, level and links
displayed. Operations: click on a path, a persona, a level; back, forward,
reload. Hard: the stored choice, the URL and what is displayed are updated by
handlers that call each other, each from its own reading. Correct when they
agree.

**Small scripts.** `content/en/docs/update-user-guide-links.py` rewrites links
to pages that moved, one `sed` over all files for each page: destinations that
moved themselves, any order of files, a run that stops.
`static/js/user-journeys/toc.js` replaces the headings of a page, takes over
their ids and scrolls to them; `static/js/redirects.js` replaces the page's
address until nothing of the old site's names is left in it;
`content/en/includes/partner-script.js` sorts partners into boxes and ends at
the first whose container is missing.

### Programs that are not modelled, and why

| Part | Reason |
|---|---|
| `copyCode`, footer type, page dressing in `script.js` | each a function of one measurement, no state between calls |
| Hello server (`.../access-application-cluster/hello/main.go`) | what a signal does is decided in a package outside the repository |
| `custom-jekyll/tags.js`, `static/_redirects` | a text swapped on enter and leave; data for the hosting service |
| `tutorials/server.js`, coarse queue `worker.py`, `memory-available.sh`, `verify-docs-format.sh` | straight-line code |
| `test/examples_test.go` | decodes and validates with packages outside the repository |
| `policy.rego` | a pure policy evaluated by an external engine |
| Hugo layouts, Makefile, Dockerfile, `start.sh` | templates and calls of external tools |

The parts hardly interact: the workers and MySQL are programs for readers'
clusters, the importer writes files that Hugo reads, the link rewriting is run
by hand over the sources, and the browser scripts meet only in the page:
`AutoBurger` makes the push menus that `SiteNav` opens. Accordion and navigation
both live on `setTimeout`, which is the module both extend.

## Modules

| Module | Models | Extended or used by |
|---|---|---|
| `FiniteWorkQueue` | what a work queue promises: items are taken once, finished once | instanced by `RedisWQ` |
| `RedisWQ`, `MCRedisWQ`, `RedisWQProofs` | library, worker and Job, command by command | |
| `MySQLReplication`, `MCMySQLReplication`, `MySQLReplicationProofs` | the StatefulSet, script step by script step | |
| `Glossary`, `MCGlossary`, `GlossaryProofs` | the glossary page | |
| `ImportDocs`, `MCImportDocs` | the importer, write by write | `MCContentTools` |
| `LinkRewrite` | the link rewriting | `MCContentTools` |
| `MCContentTools` | the importer or the link rewriting, one in each behaviour | |
| `ContentToolsProofs` | proofs about both | |
| `Timeouts` | the browser's `setTimeout`: pending timeouts ordered by when they are due | `Accordion`, `SiteNav` |
| `SequenceLemmas` | lemmas about sequences and pending timeouts | `PageScriptsProofs`, `NavigationProofs` |
| `SiteNav` | header menu, push menu, table of contents | `MCNavigation` |
| `ScrollNav` | the sidebar of a reference page and its code tabs | `MCNavigation` |
| `MCNavigation` | `SiteNav` or `ScrollNav`, one in each behaviour | |
| `NavigationProofs` | proofs about both | |
| `Accordion`, `MCAccordion` | the side menu's accordion | `MCPageScripts` |
| `AutoBurger`, `VideoPlayer` | the making of the push menus; the video player | `MCPageScripts` |
| `PartnerBoxes`, `Redirects`, `JourneyToc` | the scripts of the partners page, of old addresses, of journey pages | `MCPageScripts` |
| `MCPageScripts` | the accordion or one of the five modules above, one in each behaviour | |
| `PageScriptsProofs` | proofs about all six | |
| `UserJourney`, `MCUserJourney`, `UserJourneyProofs` | the docs portal | |

Each module has one action per command, handler or script step. The operators
introduced by "Faulty variant" are slips such code could have; each makes one
property fail when it takes the place of the action it resembles, which shows
that the property says something about the code. The specifications do not use
them.

### RedisWQ

`pc[w]` is the worker's next Redis command; `main_q` and `processing_q` are the
lists, `lease` the keys. `LLenMain` and `LLenProcessing` are `empty()`,
`BRPopLPush` and `SetEx` are `lease()`, `LRem` and `DeleteLease` are
`complete()`, `Work` is the body of the loop in `worker.py`. `Crash` may come at
any command; `Restart` starts the program again with a new session id;
`LeaseExpires` is Redis's own expiry. `worked` is a history variable.

Abstractions: items are distinct and not empty (the task pushes distinct words);
the processing list is the set of its members, as only LREM by value and a
length compared with zero read it; `lease(block=False)`, which `worker.py` does
not use, and the loss of the Redis pod itself (it has no volume, and nothing in
the code reacts) are left out. Note that RPUSH and BRPOPLPUSH work at the same
end of the list: the newest item is taken first.

### MySQLReplication

Per pod: `init` and `sidecar` are the program counters of the init containers
and of the sidecar script, `file` holds the coordinate files
(`xtrabackup_slave_info`, `xtrabackup_binlog_info`, `change_master_to.sql.in`
and `.orig`), `dir` how far `/var/lib/mysql` exists, `rows` and `sound` what the
tables hold and whether they are a consistent snapshot, `pos` and `slave` the
replication. Writes are numbered, so the master's log is `1..written`. Faults
are `InterruptClone`, `KillMysqld`, `KillSidecar`, `DeletePod` and `LoseVolume`.

Abstractions: a clone copies the source's tables as they are when it ends, in one
step (what xtrabackup arranges, so that a commit during a backup counts as one
before it); a stream cut before the directory `mysql` exists counts as
nothing received; slaves write no binary log, as `slave.cnf` configures none; an
empty `.in` file after a crash is as useless as one whose statement did not get
through; `attempts` saturates at 2.

### Glossary

An address is the set of parameters in its query, whether it has a question mark
in front of any fragment, and whether it has a fragment (`Addresses`); a document
is opened with any of them (`Init`). `ClickTag`, `SelectAll`, `DeselectAll` are
the click handlers, with the push of the address (`Push`, `WithParams`) and the
show counts updated term by term (`Activate`, `Deactivate`); `FollowPermalink`
puts a fragment into the address, `Reload` loads the present address in a fresh
document, and `Back` only changes the address. The several pushes of one load
count once. `opened` is a history variable: the query of the present document.

`ClicksAreBookmarked` says that a change of the tags which leaves one active
makes an address that shows these tags, whatever Back, permalinks and earlier
loads have left in the address before. It excepts what the code does otherwise
and no document denies:

- a click that switches the last tag off writes an address without parameters,
  which opens with the default tag;
- a document loaded with `all`, with an unknown key, or with tags beside `none`
  keeps a key in `activeTags` that stands for other tags than the active ones;
- where the address has a fragment and no question mark before it (`Anchored`;
  a permalink followed in a page opened without parameters, whose load has
  pushed the default tag, is not such an address, but a link to
  `glossary/#term-pod` is), `updateParams` appends the parameters to the
  fragment, and a reload shows the default tag.

Not modelled: forward in the history, parameters without a value (`?all` is then
an unknown key), queries that cannot be decoded, the expanders of definitions.

### ImportDocs

A document is a sequence of blocks: titles, headings, links, texts. `Processed`
is the rewriting of relative links, `Overlay` what a write at an offset does to
a file opened without O_TRUNC. `Start`, `Clone`, `Generate`, `Read`,
`WriteTitle`, `WriteContent` are the program's steps over the configuration,
`Exit` every error path, `CutShort` the program killed in a write, `Publish` and
`EditTitle` what others do to sources and pages. Assumed: blocks of equal
length, and no source name in two repositories. Observed: importing a page whose
source has a front matter of its own doubles it.

### Timeouts, Accordion and SiteNav

Time passes in `Tick` by one unit while no timeout is due; a due timeout runs
before anything else (timeouts are punctual). Clicks come at any time between.
`Accordion` counts in 25 ms, the script's CSS_BROWSER_HACK_DELAY: 300 ms of
animation are 12, the 500 ms of `yah` are 20. `SiteNav` counts in 10 ms: 100 ms
for the table of contents, 10 and 300 ms for the push menu, 300 ms for the CSS
transition of the header. In `SiteNav` the page is one record and each handler a
function from page to page, because handlers call each other and a click bubbles
from one to the next.

`Accordion` takes the nesting of the items as the function `Within`: `SetYAH`
opens every container around a link to the current page, at every depth, and
`CollapseBox` gives every container a wrapper. `SiteNav` has the layers of the
page as well: `HighestZ` is the script's loop over all elements, which raises
its result past each z-index in turn (header 8888, 9999 with the menu open;
cellophane 9998; in a docs page below 1025 pixels the side menu 999999 and its
button 99999); at equal values the menu is in front, as it comes last in the document.
A window is `narrow` below 800 pixels, where `toggleMenu` shows the push menu
instead of the header menu, `wide` from 1025 pixels on, where the style sheet
shows the whole navigation and hides its buttons, and `medium` between: there
the header menu and the table of contents open and close beside each other.
The header's transition is the field `transition`, which counts down with time
and starts anew at every change of height; while it runs, a measurement of the
header sees a height in between.

Not modelled: the `data-single` branch that no page uses, the classes set from
one measurement (`fixed`, `flip-nav`). Observed: a push menu closed and reopened
within 300 ms is hidden by the first timeout; a click within 100 ms of closing
the table of contents opens it again; with the menu open in a window that is
then narrowed, every scroll shows the push menu; a header measured in its
transition keeps that height.

### ScrollNav

Headings are numbered in document order, and `Parent` gives the tree of
`navData.toc`; 0 stands for a token that is undefined or null. `navData` lists
every level from the end of the page to its beginning, so that the first heading
that the loop finds is the last one reached (`CheckNodePositions`).
`ScrollActions` unfolds lists, `CheckActiveElement` marks a link; `Refreshed` is
both, as every listener calls them. `OnScroll`, `OnHashChange`, `ScrollToNav`
are the listeners and the delayed scrolling of the sidebar; `SetDefautTab` and
`ClickTab` are the tabs, which move every heading (`Top` depends on the tab) and
may move the window. Observed, and excepted by the properties: in a section
without subsections the token of the second level is that of an earlier section,
to which a hashchange then scrolls the sidebar; a click on a tab leaves the
sidebar as it is until the next scroll. Left out: a resize of the window, which
moves the headings without an event as a tab does, and the global variable that
`collectNodes` leaks, which nothing reads.

### The small scripts

`AutoBurger`: `Collect` is one round of the loop over `data-auto-burger`
elements, `Wrap` one of the loop that makes the menus. `VideoPlayer`: `fades` is
jQuery's queue of effects of the player; a call of `showVideo` adds a click
handler that is never removed, so a click queues as many fade-outs. Observed:
shown again during a fade-out, by a key on the button that kept the focus, the
player loses its source when that fade-out ends. `PartnerBoxes`: equal names
come in any order; the page of the site that includes the script has none of the
five containers, so there the first partner ends it. `Redirects`: a URL is a
sequence of the tokens that the patterns consist of; the table of forwarding
rules is empty and no layout loads the script. `JourneyToc`: a scroll asked for
while another runs is queued after it. `LinkRewrite`: `FindDocuments` reads all
moved pages, `Sed` passes one file for the first pair, `Stop` may come between
any two files. Observed: one run may leave links to pages that moved, when the
pairs of a chain come in the wrong order; since the links below the notices are
rewritten too, every complete run doubles how far a link is carried, so that two
runs mend chains of up to three moves and n runs any of less than 2^n.

### UserJourney

`params` is `paramHash`; `history` and `at` are the browser's entries for the
page. `ClickPath`, `ClickPersona`, `ClickLevel` are the handlers with every call
they make: `PushParams` are the calls of `set` in order, `SetInfoData` the
links. `Move` is back and forward, to which the page does not listen; `Reload`
starts anew, since `main` calls neither `init` nor `setupCardState`. A URL has a
query and a number of anchors, which tells apart a fragment before and after the
query. Not modelled: HTML, analytics, scrolling, and the hover text: `.cards >
div` is `display: none` in the style sheet and the script only sets its
visibility, so it never appears.

## Runs

| Run | Instance | Checks |
|---|---|---|
| `redis_workers` | 2 pods, 3 items, 2 crashes per pod | `TypeOK`, `ExitMeansDone`, `WorkedAtMostOnce`, `NothingLost`, `DeletesOwnLease`, refinement `QueueSpec`, liveness `DrainsOrOrphans` |
| `redis_reclaim` | same program, smaller | `ExpiredLeaseIsReclaimed` is violated |
| `mysql_replication` | 3 pods, 2 writes, 3 faults | `TypeOK`, `ReplicaIsPrefix`, `AttemptedAtMostOnce`, `NeverGoesBack`, liveness `ConvergesOrNeedsRepair` |
| `mysql_consistent` | same | `ServesConsistentData` is violated |
| `glossary` | 3 tags, 4 terms, 2 history entries, opened with any parameters, with or without a fragment | `TypeOK`, `VisibleIffActive`, `ClicksAreBookmarked` |
| `content_tools` | importer: 2 repositories, 3 files, 2 with one target, 3 outside events; or link rewriting: 3 pages that may have moved, a fourth, 2 complete runs, 1 stopped | `TypeOK`, `PassedAreImported`, `TitleKept`; `LinksFollowMoves` |
| `import_replaces` | the importer alone | `ImportReplaces` is violated |
| `page_scripts` | accordion: 2 nested containers, 2 links, 3 clicks; push menus: up to 3 elements of 2 names; partners: up to 3; redirects: up to 5 tokens; journey page: up to 3 headings, 3 links followed; video: 4 calls, 3 clicks | `TypeOK`, `SettlesUnlessEarly`, liveness `MovingEnds`; `MenusComplete`; `PartnersPlaced`; `RedirectsEnd`; `StandsAtSection`; `VideoSettles` |
| `accordion_height` | the accordion alone | `ClosedHasNoHeight` is violated |
| `navigation` | page of the site: 3 widths of the window, 4 events; or reference page: 7 headings in 3 levels, 2 tabs, 4 moves | `NavTypeOK`, `MenuNeverStuck`, `ListensWhileOpen`, `HeaderReturns`; `TypeOK`, `OneUnfolded`, `MarkedIsVisible`, `FollowsUnlessShifted`, `SidebarFollows` |
| `user_journey` | 2 paths with personas, 1 without, 2 levels, 6 events | `TypeOK`, `PageShowsChoice`, `FailsOnlyBeforePath`, `ClickPushesParams` |
| `journey_url` | same, no initial query | `UpdatesUrl` is violated |

`page_scripts`, `navigation` and `content_tools` each hold several
specifications that share no variable. A variable that never changes says which
of them the behaviour is about; the others stay in a state in which their
properties hold. So a run checks the same as a run of each would, and no
property is weakened by it.

Why the bounds are enough. *Redis*: the hazards are between two workers on one
item, or one worker and its own earlier life; three items let one be waiting,
one held and one done, and two crashes let a pod crash again after a restart.
*MySQL*: three pods give the master, a slave cloned from the master and a slave
cloned from a slave; two writes separate "none", "some" and "all" of the log;
three faults allow an interruption, a second one in the recovery from it and one
elsewhere. *Glossary*: terms with none, one, two and all of three tags; two entries of
history let a load push, a click follow, and Back reach what either left.
*Import*: two entries of one repository with one target, behind a repository
that may fail or not. *Accordion*: a container in a container, a link in each
and three clicks open, close and open or mix items. *SiteNav*: four events are
enough to open, close and reopen a menu with a second one between; all timeouts
overlap. *ScrollNav*: a section with a third level, one without subsections and
one with a single subsection; four moves leave a section, come back and change
the tab between two hashchanges. *Push menus*: two elements of one name with
another between. *Video*: a call while an earlier fade-out has not ended, with
two handlers, and one after it. *Redirects*: a suffix that occurs twice and the
page for an address that does not exist. *Partners*: all types, equal names, one
container missing. *Journey page*: three queued scrolls, and a heading whose id
is that of an anchor. *LinkRewrite*: chains of three moves and circles.
*UserJourney*: a path, a persona, a level, another path, the prompt and a step
back.

Bounded by constants in guards: `MaxCrashes`, `MaxWrites`, `MaxFaults`,
`MaxHistory`, `MaxEvents`, `MaxClicks`, `MaxMoves`, `MaxShows`, `MaxDismissals`,
`MaxLinks`, `MaxComplete`, `MaxStops`. Deadlock checking is off where the
program or its reader may stop.

### What the violated properties show

1. `redis_reclaim`: an item whose worker crashed is never taken again, since
   nothing moves items back from the processing list; `rediswq.py:84-86` says others may
   pick it up.
2. `mysql_consistent`: `mysql-statefulset.yaml:49` skips the clone when
   `/var/lib/mysql/mysql` exists, as it does after an interrupted clone, and serves
   an unprepared copy; `run-replicated-stateful-application.md:187-188` says the
   local state is consistent enough.
3. `import_replaces`: `update-imported-docs.go:161` opens the page without
   O_TRUNC, so the end of a longer old page remains.
4. `accordion_height`: two clicks in the first 500 ms leave a closed item at its
   full height (`script.js:318`), against the comment on heights at
   `script.js:289-290`. Its content is faded out (`styles.css:335`), so that a
   blank gap stays below the title.
5. `journey_url`: with an anchor and no query, `home.js:61` puts the parameters
   into the fragment and doubles it with each choice, against `home.js:32-33` and 53.

### Fairness

`RedisWQ`: weak fairness of each live worker's next command (a worker that runs
goes on), of restarts (the kubelet restarts failed containers) and of lease
expiry (Redis expires keys). Crashes have none. `DrainsOrOrphans` says that the
Job ends or an item is orphaned by a crash, as the code guarantees no more.
`MySQLReplication`: weak fairness of creating pods, of the containers' steps, of
clones and replication; none of faults or writes. `ConvergesOrNeedsRepair` says
that each slave catches up or is stranded in one of two named ways. `Accordion`:
weak fairness of time and callbacks, which a browser gives, together, since only
one of the two can happen at a time; none of clicks. The other specifications
state no liveness: a reader may stop.

## Proofs

Proved by TLAPS for all values of the constants that satisfy the named
assumptions, from `Init` and every action:

- `RedisWQProofs`: `TypeCorrect`, `ExitIsTruthful`, `AtMostOnce`, `CrashSafe`,
  `OwnLease`, and `Implements` (the refinement of `FiniteWorkQueue`). The
  properties are not inductive: that an exit is justified rests on what each of
  the two LLENs saw staying true (`Sighted`), that in turn on each item being in
  one place (`Places`, `Holders`, `Alone`), and deleting one's own lease on
  whose lease it can be (`LeaseOfHolder`). The refinement maps an item to
  queued, claimed, worked or retired.
- `MySQLReplicationProofs`: `TypeCorrect`, `PrefixOfLog` (`ReplicaIsPrefix`),
  `AtMostOnce` (`AttemptedAtMostOnce`), `NeverBack` (`NeverGoesBack`), for any
  number of pods and so for chains of clones of clones. Even the type needs the
  whole invariant: that `CHANGE MASTER` has coordinates to read follows from
  their being in one place at a time, in one of three files or in the sidecar's
  memory, and in none once they were used (`Once`). Wherever they are they
  belong to the tables (`Coordinates`), which a clone inherits from its source;
  a clone is only received into an empty directory, which has none (`Fresh`);
  and pod 0 alone has a log (`Master`). One lemma per action shows what it does
  to its own pod, and `SameLemma` that the other pods do not notice.
- `GlossaryProofs`: `TypeCorrect`, `FilterIsExact`, `Bookmarks`. The invariant
  adds how keys and marks are in step in a document that was loaded with a clean
  query (`InStep`); show counts are handled through the cardinality of the
  active tags of a term, and the address of a click through `WithParamsLemma`.
- `ContentToolsProofs`, importer: `TypeCorrect`, `TitleIsKept`,
  `PassedIsImported`. The invariant is that between reading and writing the block held in memory is the
  page's (`TitleRead`). That everything passed holds what was imported needs
  that a repository is cloned before any of its files is written (`AtFirst`) and
  that no other repository has its sources (`SourcesAssumption`); the file just
  finished is then the last of those passed for its target, and what is written
  behind a title begins the page.
- `ContentToolsProofs`, link rewriting: `LinksDoFollow` (`LinksFollowMoves`), for
  any pages and moves, any order of the files, and any stops. Links follow moves
  because what a page leads to (`Ways`, the least set closed under moves) contains
  what any page in it leads to. That runs come to an end of the chains needs a
  measure: `Rank`, the number of moved pages a page leads to, falls at every move
  if there is no circle. After c complete runs a rewrite leads 2^c moves on, or
  to the end; within a run each link has either come as far again or its rewrite
  is still to come (`Pending`), and a file that sed has passed for the first
  rewrite has no link left that it would change (`Progress`).
- `UserJourneyProofs`: `TypeCorrect`, `ShowsChoice`, `FailsOnlyEarly`,
  `UrlFollows`. The invariant is that the card displayed is that of the path, a
  special path hides the sections, and a persona has a path, so that every
  lookup of `setInfoData` succeeds; the URL follows from the last entry of a
  sequence of pushes.
- `NavigationProofs`, reference pages: `TypeCorrect`, `OneListUnfolded`,
  `MarkIsVisible`, `Follows`, `SidebarIsSeen`, for any tree of three levels, any tabs and any
  layouts that keep the order of the headings. The two scans are shown to agree
  (`Consistent`): the last section reached is that of the last heading reached,
  since a heading comes after its parent and before what follows its parent's;
  and a timeout that was set while the reader kept still has the target that the
  sidebar would be given now (`TargetIsFresh`).
- `NavigationProofs`, header and menus: `NavTypes`, `MenuNotStuck`, `Listens`,
  `HeaderIsBar`, for all delays, so that the results do not rest on which of two
  timeouts is due first. Each handler keeps `Sound`, and all but a resize keep
  `StaysInFront`, that a menu which stays was opened in a narrow window, as
  this one is, and lies above all its layers; a resize always sets the timeout that
  hides the menu, which makes up for it. That the header returns rests on its
  never being measured while the menu is open.
- `PageScriptsProofs`, for any page, any delays and any number of clicks.
  *Accordion* (`AccordionTypes`, `AccordionSettles`): while `yah` holds and no
  early click came, its end is the only callback; later there is one exactly
  while something moves (`Calm`), and it explains every item that does not show
  what its class says (`Explained`). *Push menus* (`MenusAreComplete`): between
  two elements each menu holds exactly the items of the elements of its name so
  far, in document order, wherever moving it in the body has put it; what a set
  of places in order is, is proved once for all finite sets. *Video*
  (`VideoSettled`): the fades still queued decide what the player will be, and a
  fade-out that an opening overtook leaves `again` behind. *Partners*
  (`PartnersArePlaced`): a container's length counts the partners of its type so
  far. *Journey page* (`StandsWhereAsked`): ids of headings and banners stay
  apart as the headings are replaced one by one, so that an id finds its own
  heading; the last scroll queued leads to the one wanted. *Redirects*
  (`RedirectsDoEnd`): a replacement puts a slash for the first occurrence of a
  pattern, so that each suffix only ever becomes rarer, the patterns `.html` and
  `.md` take one of each from every URL that has one, and the name of the page
  for an address that does not exist cannot come about; a run that has left what
  the browser loads as it was has found none of its patterns there (`Looked`).
- `SequenceLemmas`: what all of these need of sequences (removing, inserting, the
  first place of a search, sets in order) and of pending timeouts, whichever is
  due (`SetTimeoutLemma`, `WithoutDueLemma`, `ElapseLemma`).

The assumptions on the constants say what the data of a page, a site or a
config is (`PagesAssumption`, `TablesAssumption`, `ContentsAssumption`,
`UrlsAssumption`, `LinkAssumption` and those named above): sequences of records
or strings of any length and content. Two say more: the ids of a page's headings
differ and the ids of the banners suffice for them (`ContentsAssumption`), and
the page `index`, which has a link to every place, is not one of the places
(`LinkAssumption`).

Only model-checked is liveness (`DrainsOrOrphans`, `ConvergesOrNeedsRepair`,
`MovingEnds`): fairness is outside TLAPS. Every invariant and every action
property of the passing runs is proved. Some of them were put so that
they can be: places and numbers of elements are sets and cardinalities rather than
the result of `SelectSeq`, which is defined by recursion.

## Left out of the modelled programs

- Redis loses both lists when its pod restarts, as it has no volume: every
  worker then sees an empty queue and the Job completes. Nothing in the code
  reacts to it, and no property could hold across it.
- The glossary's expanders and tooltips, the portal's analytics and scrolling,
  and the importer's checks of its arguments, as above.
- What a signal does to the hello server, and all that Hugo, Jekyll, Docker,
  MySQL, xtrabackup, Redis and the browser do beyond what the code relies on.
