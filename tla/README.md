# Pi darts scorekeeper: specification and verification

A TLA+ development kept beside the code of the darts scorekeeper: a Raspberry
Pi runs a FastAPI server over one SQLite file, phones on the LAN show a
scoreboard and enter darts, and a handful of shell scripts deploy the box and
pull its backups. The modules model the parts whose correctness is a matter of
sequences of events; TLC checks them on small instances, and TLAPS proves what
matters most of the engine, of the match life cycle and the rows kept beside it,
of the reads, of the phones' writes, of the players and of the box that is
deployed to, for every instance. Paths below are relative to the
repository root (`backend/` is `src/backend/` in the map of PROJECT.json).

## 1. The system

| Component | Where | State | Operations |
|---|---|---|---|
| Scoring engine | `backend/darts/engine/` | none: pure functions | apply a dart or a visit (x01, cricket), replay a leg, replay a match, rotation |
| Checkout table | `engine/checkout*.py` | a generated table | is a score finishable, suggest paths, was a dart an attempt |
| Play service | `services/play.py`, `derive.py` | the rows of a match: legs, visits, darts, effects, awards, caches, winners | throw, undo, rebuild caches, read the state, read the history |
| Repositories | `repo/` | the SQLite tables | single-statement reads and writes; create and abandon a match; players |
| Verification pass | `services/verify.py` | none | compare every stored conclusion with a replay |
| Hints | `services/hints.py` | none | suggest the paths for the next dart, or say why there are none |
| Set-up | `repo/players.py`, `repo/matches.py`, `services/setup.py` | the tables `players`, `matches` | add, rename, colour, archive; make a match, list matches by page |
| Statistics and exports | `stats/`, `services/stats.py`, `export.py`, `db/views.sql` | none: SQL over the rows | reports on a player or a match, the leaderboard, two CSV files |
| Maintenance | `services/admin.py` | none | sweep all legs rebuilding caches; snapshot |
| Boot recovery | `db/recovery.py`, `durability.py`, `migrate.py` | the database file, its sidecars, quarantined copies | check at boot, quarantine, restore the newest valid backup, migrate |
| Backups | `db/backup.py`, `services/auto_backup.py`, `snapshot.py` | the backup directory | create, publish, prune; a scheduler thread; a downloadable snapshot |
| API | `api/` | none beyond the application's life span | routes, error envelope, health, static files |
| Play screen | `frontend/src/routes/Play.tsx`, `CricketBoard.tsx`, `play/`, `api/` | the query cache, two mutations, the multiplier latch, the open sheet | tap a dart, undo, try again, refetch, dismiss a sheet |
| Players screen | `frontend/src/routes/Players.tsx`, `players/` | the open sheet with its colour | add and edit players |
| Other screens | `frontend/src/routes`, `setup/`, `matches/`, `stats/` | drafts, filters | set a match up, browse history and statistics |
| Service worker | `frontend/src/sw/` | the asset cache | precache, activate |
| Deployment | `scripts/*.sh`, `deploy/` | releases on disk, the running container | deploy, roll back, health check, bootstrap, make a certificate |
| Off-box pull | `scripts/backup-pull*.sh` | copies on another machine | fetch the newest backup, verify, keep or discard |

How they interact:

- A tap on the board posts a dart with a `client_dart_id` the phone minted. The
  route opens one connection for the request; `play.throw` runs in one
  `BEGIN IMMEDIATE` transaction (`db/connection.py`), replays the stored darts
  and the longer record, writes the dart and everything derived from it, brings
  leg and match into line, and answers with the state projected from the
  database. `undo` deletes the last dart of a leg and does the same backwards.
- Darts are the truth. Everything else (visit scores, flags, cricket effects,
  caches, winners, the next leg and its starter) is a conclusion the service
  stores beside them and rewrites incrementally. `verify.py` says what
  agreement means; nothing enforces it but the writes themselves.
- The phone patches nothing locally. The answer to a write replaces the query
  cache; a refetch on focus, reconnect or mount replaces it too.
- The backup thread copies the live database while the server writes to it;
  recovery runs once, before the server accepts requests; deployment restarts
  all of it.

What is hard in each:

- *Engine*: a bust voids darts already thrown and closes a team again; an
  in-rule discards darts without busting; a cricket dart can change any team's
  points; visits have between one and three darts, so all later turns shift.
- *Play service*: undo must invert throw across visit, leg and match
  boundaries with incremental writes; the leg list is reconciled, never
  rebuilt; several phones address different legs at once.
- *State reads and the sweep*: many statements outside a transaction, and a
  list of legs that is stale by the time a leg is reached.
- *Statistics*: the same fact (a checkout, a point, a mark) counted by several
  queries, over rows that busts and undos have rewritten.
- *Set-up*: names and colours that must stay apart under edits from several
  phones, of which each suggests a colour from the list it has; pages cut by
  offset out of a list that changes.
- *Phones*: an answer may be lost after the write took effect, a request may
  take effect after the phone gave up on it, an older answer may arrive last,
  and the screen may be left with a write under way.
- *Files*: power cuts between file operations, a clock that is wrong until NTP
  answers, two writers in one backup directory; a script that takes a query
  that failed for an answer.

What makes each component correct: the engine's replay agrees with the rules of
the games; the service's rows agree with the replay and its undo inverts its
throw; an answer is one state of the match; a report is what the darts did; a
phone never records more than was tapped and comes to show the truth;
recovery never loses a valid backup nor serves an empty database as healthy;
retention keeps what it promises; a deployment ends on a working release.

PROJECT.json lists the hazards, line by line, with the properties aimed at each.

## 2. Modules

| Module | Models | Composes |
|---|---|---|
| `Throws` | one dart: legality and value (`engine/throws.py`) | |
| `X01` | in- and out-rules, bust, visit (`engine/x01.py`) | `Throws` |
| `Cricket` | marks, surplus, awards, win (`engine/cricket.py`) | `Throws` |
| `Rotation` | thrower and starting team (`engine/rotation.py`) | |
| `Replay` | a leg from its darts (`engine/replay.py`) | `X01`, `Cricket`, `Rotation` |
| `Checkout` | the generator of the checkout table, its ranking, the table and the look-ups (`engine/checkout*.py`) | `X01` |
| `Hints` | what is suggested to the next thrower, or why nothing is (`services/hints.py`) | `Replay`, `Checkout` |
| `LegPlay` | a leg thrown and undone on the engine alone | `Hints` |
| `PlayService` | the match life cycle: legs, winners, abandonment (`services/play.py`) | `Rotation`; the game is a parameter |
| `MatchLedger` | the abstract promise: a list of darts per leg, read by `replay_match` | `Rotation` |
| `MatchRefinement` | `PlayService` implements `MatchLedger` | both |
| `PlayServiceProofs` | the theorems about `PlayService` and its refinement | `MatchRefinement`, `Induction` |
| `PlayRows` | visits, flags, effects, awards and caches, written with each throw and undo | `PlayService`, `Replay`, `Checkout` |
| `Verify` | the recomputation of every stored conclusion (`services/verify.py`) | `PlayRows` |
| `Statistics` | the reports, the leaderboard and the exports over the stored rows (`stats/`, `db/views.sql`) | `Verify` |
| `StateRead` | every answer of the play endpoints, read statement by statement beside other phones' commits (`api/play.py`, `services/play.py`) | `Verify`, `Hints` |
| `CacheSweep` | the sweep over all legs' caches (`services/admin.py`) | `StateRead` |
| `MatchSetup` | players and the sheet they are added in, matches, and a reader paging through the history (`repo/`, `players/PlayerForm.tsx`, `matches/history.ts`) | |
| `MatchSetupProofs` | the theorems about `MatchSetup` | `MatchSetup`, TLAPS |
| `PlayClient` | phones, their writes and refetches, the network, the dart endpoints | |
| `PlayClientProofs` | the theorems about `PlayClient` | `PlayClient`, TLAPS |
| `Retention` | which backups are kept, and how they are named (`db/backup.py`) | |
| `Storage` | the database file, its sidecar and backups: boot check and repair, migrations, the backup thread, power cuts | `Retention` |
| `ImageTags` | the image to go back to, the images to delete (`scripts/deploy-lib.sh`) | |
| `Deploy` | `deploy.sh` and `rollback.sh` command by command, over a box that goes on | `Storage`, `ImageTags` |
| `DeployProofs` | the theorems about `Storage` and `Deploy` | `Deploy`, TLAPS |
| `Induction` | finite induction, and sums and counts over finite sets, for the proofs | TLAPS |
| `ReplayProofs` | what the replay of one dart more changes, whose turn it is, what the scores add up to, what the checkout table holds and which throw each dart of a replay was, for every game | `Replay`, `Checkout`, `Induction` |
| `LegPlayProofs` | the theorems about `LegPlay` | `LegPlay`, `ReplayProofs` |
| `RowsProofs` | the theorems about `PlayRows`, `Verify`, `StateRead`, `CacheSweep` and `Statistics` | `CacheSweep`, `Statistics`, `PlayServiceProofs`, `ReplayProofs` |
| `MC...` | the constants of the runs | |

**State and code.** In `PlayService`, `legs` is the table `legs` joined with
`darts`, in `leg_index` order; `winner` is `matches.winner_team_id`;
`abandoned` is `abandoned_at IS NOT NULL`. `Throw`, `Undo` and `Abandon` are
the three write operations, each with all its effects: `Advanced` is
`_advance`, with `Settled`, `Champion`, `Trimmed` and `Extended` its four
blocks in order. They may address any leg of the match, as a request may. The
engine appears as the constant operator `LegVerdict`, which answers a team, no
team, or that it raises; the MC modules bind it to `Replay` (`EngineVerdict`).
`client_dart_id` is not in `PlayService` (a repeated key changes nothing); it
is what `PlayClient` is about.

`PlayRows` adds `rows`, one record per leg with the visit rows, the judgement
columns of each dart, its cricket rows and the cache rows. `RecordedRows` is
`_record` followed by `_write_caches`; `UndoneRows` is the body of `undo` with
`_restore_visit`; `AdvancedRows` is what the deletion of a leg cascades to. The
stored darts are not repeated: they are `legs[k].darts`. `Verify` and
`Statistics` have no state: `verify.py` and the reports each read inside one
transaction, so they are operators on a state. An average is kept as a sum and
a count, and is `<<>>` where the code answers null.

`StateRead` adds `req`, the one request being followed: what its statements
have returned so far (`got`), the answer, and the boards there were while it
was made (`seen`, which only the properties read). A throw or an undo projects
its state inside its own transaction and so in its own step; a GET, and the
second read behind the answer to a winning dart, take a step for each
statement, and `Overtaken` is another phone's commit in between. `CacheSweep`
follows a sweep in the same variable: a statement for each cache table before a
leg's rebuild, the rebuild, and again after it.

`MatchSetup` keeps `players` and `matches` by id, and in `forms` the sheet open
on each phone: whom it is for, the colour it shows, whether somebody `tapped`
that colour, and whether the players' colours have changed since it was opened
(`stale`). A sheet sends the colour it shows whether tapped or not, as
`PlayerForm.tsx` does; `CreatePlayer` and `UpdatePlayer` are the server's side
of it, and may also be asked by a request that leaves the colour out, which no
screen makes. `picked` holds the players whose colour somebody chose, `outdated`
those whose colour a stale sheet offered, and `crowded` says whether the palette
was ever overrun: what is promised about colours depends on them. `reader` is
one phone on the history screen: its filter, its offset, and the matches that
it has been shown since it opened that list.

`PlayClient` keeps, per phone, what the screen knows of its two mutations
(`screen`: idle, pending on a call, or failed and retryable) and the answer in
its query cache (`painted`). `calls` holds the fetches: `sent` until the server
handles it, `answered` until the phone takes the answer; `live` is false once
the phone has given up and the request may still be handled. Leaving the screen
forgets the mutations and not the fetches.

In `Storage` a file is what it holds: a set of matches, the number of its
migrations, whether it is damaged. `db` is the database, `wal` the matches that
are only in its sidecar, `kept` those in files moved aside, `backups` the
backup directory. `app` is the server: `off` (told to stop), `down`, then the
stages of a boot (`sidecar` and `choose` after the renames of a quarantine,
`publish` before the restored file is renamed into place, `prepare` while
migrating), `up`. `job` is the backup run under way. `Deploy` adds the image
tags, what `darts:latest` is, and the script, whose `at` names the next command
and whose other fields are the shell variables it goes on with (`SHA`,
`RUNNING_SHA`, `REMOTE_TAGS`, `ROLLBACK_TAG`). A migration or a backup that a
script runs is a step of the same kind as the server's. The queries of a script
discard their errors (`deploy-remote.sh:38-40`), so one that fails looks like an
answer: `Listings` may lack tags and be in any order, `Heard` may be nobody, and
`SkipBackup` goes past the backup whether there is a database or not.

**Mutants.** Beside some definitions stands a variant with a slip such code
could have (a check forgotten, a row not reset). No specification uses them;
each is there so that a property can be seen to fail when the code would be
wrong in that way.

## 3. Runs

| Run | Expect | What it shows |
|---|---|---|
| `Legs` | pass | Two-team legs under nine pairs of x01 rules and three cricket variants, with undo anywhere. Rotation; settled visits; x01 scores and openings, and cricket marks and points, by definitions that replay nothing; a won position has a winner; a hint is offered exactly when the thrower can win with the darts left, and every path offered wins. |
| `LegCutthroatThree` | violation | With three teams a cut-throat position can be won by somebody who is not throwing; see findings. |
| `Matches` | pass | Best of three among three teams, loser starts, on legs the engine decides. The invariants of `PlayService`; the service implements `MatchLedger` and agrees with `replay_match`; `verify.py` finds nothing after any throws and undos, and would report any single stale conclusion; what it does not look at holds too; the constraints of the tables of darts and what is derived from them refuse no row; every report agrees with the darts and with every other. |
| `Reads` | pass | Best of three of standard cricket, read and swept while another phone writes. The answer of a write is the board it left; an undisturbed GET is the board, an undisturbed history too; not-found only after an undo; the sweep changes nothing and its report is explained; effects, awards and the cricket reports add up, and the constraints of their tables refuse none of them. |
| `Clients` | pass | Two phones, two dart ids, one undo tap, requests lost, delayed or handled after the phone gave up. One phone stays on its screen and refetches nothing: its answers are painted in order. The other may leave and enter the screen at any moment and refetches: it converges. No dart is doubled, and keypads come back. |
| `UndoTwice` | violation | See findings. |
| `Deploys` | pass | A box with a match, deployed to and rolled back (two scripts, a third build with a new migration), under one power cut or rotted file: no match in a database file is lost, the schema served is the build's, a backup that a deploy took is of what it migrates, retention respects its windows, no needed image goes, the box comes back up. |
| `UnansweredQuery` | violation | See findings. |
| `PowerCutInRepair` | violation | See findings. |
| `RollbackAcrossMigration` | violation | See findings. |
| `Setup` | pass | Names that differ in case only, a palette of two, a sheet that others overtake, pages of one match, a clock that repeats and steps back: active names differ, a colour is shared only where somebody picked it or the sheet's list had changed, and turning the pages to the last skips nothing that was there at the first. |
| `ColoursRace` | violation | See findings. |

**Bounds.** `MaxDarts` bounds the darts of a leg and `MaxTotal`, in an action
constraint, those of a match.

- `Legs`: from 6 with five darts, so that both teams have thrown under every
  pair of rules and every kind of bust (below zero, one left, wrong finish) and
  the opening dart of a visit that then busts occur; cricket on two targets with
  six darts, in which a team closes both and scores surplus while the other is
  open, closed or part-closed. The throws are the smallest set with a miss or
  non-target, a single, a double and a triple that matter at those scores; the
  engine treats segments alike but for their value. The table is built for
  scores up to `TopScore`, as high as a leg begins.
- `Matches`: three teams of one, two and one players, double in and double out
  from 4. A D2 wins at once, a D1 opens and then wins or busts, a single waits
  or busts. Seven darts win, undo and win legs across the longest match (four
  legs, each team winning all but its last needed one), with busts and whole
  visits between them; a leg itself may have six. `FirstDarts` is 2, so that
  players throw more than what "first nine" takes.
- `Reads`: one target, so that a T20 wins a leg at once; four darts reach a
  third leg. One commit within a request (`MaxOvertakes`) is enough for each
  statement to fall on either side of it, for the leg being read to be deleted
  under it, and for the answer's second leg to go.
- `Setup`: at most four rows, three of them players, and three matches make
  three pages. Two players at most are active at once, as many as there are
  colours; a third comes when one has been archived. Players stop changing once
  there is a match, since a listing does not depend on them, and there is no
  match while a sheet is used. One sheet beside requests of others at every
  moment is enough to be overtaken; the theorem is for any number of sheets.
  `ColoursRace` has two sheets, and writes only while both are open.
- `Clients`: two ids, one undo, two requests under way at once (`TwoAtOnce`)
  and one late request give two writes of different kinds or of different phones
  in flight, a write beside a refetch, a retry after a lost answer and a request
  overtaken by its own retry (`MaxCommits`, `MaxUndoTaps`, `MaxLate`).
- `Deploys`: stamps are hours and days at once, with one hourly and two daily
  backups kept, the smallest windows that overlap without being equal. One
  match, two scripts and one fault give a deploy over another's leftovers, a
  rollback by hand and a file rotted between any two commands; the third build
  alone ships a new migration, and with one tag kept the oldest image must go.
  `TagsAreListed`, an action constraint, has the first script of a box without
  matches be told any part of the tags in any order, and the others the tags as
  they are; the theorem is for any. The violation runs on the box need no more
  than one stamp and three faults.

Deadlock checking is off for the box (a stopped box with no script left does
nothing) and for the phones (one that has spent its taps does nothing more).

**Fairness.** `Deploys` assumes `WF(Boot)`: the container runtime restarts a
container that was not told to stop (`restart: unless-stopped`), and a boot is
one sequential program that ends. Scripts, backups and faults have none.
`PlayClient` states the rest. `Settle(n)`: a fetch is either answered or
rejected by the browser, which is what `fetch` does; it does not say which, and
the server owes nothing. `ReadFairness`, of the phone that refetches: somebody
keeps looking at its screen (refetch on focus, reconnect and mount), and a read
is served and delivered without a server error again and again. Writes, taps
and retries have no fairness, and nothing else needs any: the server's
operations answer in the step, or the few steps, of one request.

## 4. Proofs

`PlayServiceProofs` proves, for every number of teams, length of match, start
rule, starting team, set of darts and bound, and for every engine that answers
and gives nobody an empty leg (`MatchAssumption`, `VerdictAssumption`):

| Theorem | Property |
|---|---|
| `RowsAreTyped` | `TypeOK` |
| `StoredWinnersFollow` | `WinnersFollowDarts` |
| `OneLegIsOpen` | `OneOpenLegAndItIsLast` |
| `ChampionIsSole` | `ChampionByTally` |
| `StartersFollow` | `StarterChain` |
| `AbandonedStaysUndecided` | `AbandonedIsUndecided`, which no run checks: `MatchLedger`, which the service implements, has it too |
| `WinningDartIsLast` | `NothingAfterTheWin`, which no run checks by itself |
| `UndoTakesBackTheThrow` | `UndoRevertsThrow` |
| `RowsAgreeTheorem` | `RowsAgreeWithReplayMatch` |
| `ServiceImplementsLedger` | `ImplementsLedger` |

All but the last two follow from `InductiveInvariant`. None of the properties
is inductive alone: that the last leg is the open one needs the champion to be
the tally's (an undecided match has an open leg only because `_advance` opens
one), the tally needs every earlier leg to have a winner, and a starter is in
range only because the winner before it is a team. `Inductive` is their
conjunction. A step changes one leg `k`. For a throw, `k` is the last leg,
since it is the only open one; for an undo, `k` is the last leg thrown into, so
it is the last or the one before an empty last leg. Lemmas say what `Settled`,
`Trimmed` and `Extended` return in each of these cases and how the tally of one
team moves when one leg's winner does; each conjunct is then re-established
from them. The cardinality argument behind `ChampionByTally` (only the winner
of the last leg can reach the target) rests on the library's theorems on finite
sets. That undo inverts throw is a fact about one state in which `Inductive`
holds: the leg opened by a winning dart is empty, so taking the dart back trims
it again.

The last two compare the legs with `replay_match`, a recursive function over the
legs of the record. It is unrolled for each number of legs (`Unrolled`), and an
induction over that number shows that the replay retraces the stored legs: the
starters, winners and tally of `Inductive` are what it computes (`Retraced`). So
the refinement mapping (the darts of each leg, without an open leg that has
none) sends every state to a state of the ledger, and `ThrowShape` and
`UndoStep`, which say which leg a write changes and how, send every step to one
of the ledger's.

`ReplayProofs` is about the engine, which has no state. A leg is replayed visit
by visit (`LegReplay`, whose stages are an unrolled function again); `StagesAreOK`
says of each stage that the darts used so far are those of its visits, that
every visit but the last is complete, and where the replay stops. The rest
compares two replays, of some darts and of one dart more, stage by stage
(`Abreast`): they are equal until the last visit of the shorter; if that one is
complete the dart opens a visit (`Opened`), and if not the dart goes on with it
(`Continued`), when the visit has the darts it had and one more, only the flag
`counted` of the earlier ones taken back if that one busts. `LegPlayProofs` draws
from it, for every game, number of teams and size of each (`LegPlay`'s
assumptions):

| Theorem | Property |
|---|---|
| `VisitsGoRound` | `RotationIsRoundRobin` |
| `CompleteVisitsStay` | `CompleteVisitsAreSettled` |
| `ScoresAddUp` | `X01ByDefinition` |
| `MarksAddUp` | `CricketByDefinition` |
| `RecordsAreAccepted` | `Accepted`, which the guard of a throw asserts and an undo might have broken |
| `WonPositionsAreWon` | `WonPositionHasWinner`, of every leg but cut-throat's of three teams or more |
| `HintsAreTrue` | `HintsFinish` |

The third is an induction over the stages with another over the darts of each
visit (`X01Inv`, `StagesKeepScores`): a visit that busts has uncounted all its darts
and put back the score, one that does not has counted its darts from the
opening one on, so the score has come down by the total of what counted. The
sums of the property run over a set of pairs, visit and dart; `Induction` has
what is needed to sum such a set row by row (`TotalRows`) and one number more
at a time (`TotalNext`). It assumes that throws are legal
(`engine/throws.py:50-62`) and a score to start from is a number
(`engine/x01.py:30-32`); the code refuses others, and a cricket variant is one
of an enumeration (`engine/cricket.py:74`).

The fourth compares the replay with sums over the darts of the record, in which
visits do not occur. `Defined` says that a position is the one that the first
`k` darts define. One dart takes `Defined` from `k` to `k + 1` (`DartMoves`):
what it marks is what the cap at three leaves of it, its surplus the rest, and
the teams the engine pays are those the definition names, since nobody's marks
have changed but the thrower's. That the engine's thrower is the definition's
needs the rotation and that every visit before the last has three darts
(`DefinedLeg`), and that the replay gets to the last dart needs that the record
is not refused. That is the fifth: a record that is accepted is accepted
without its last dart, because the two replays go abreast until then.

The sixth says exactly where the engine's habit of looking for a win in the
thrower's position alone is harmless: when no dart changes a position for the
better but the thrower's own (`OnlyOwnDartsWin`). An x01 dart leaves the other
scores alone, a standard cricket dart pays its thrower, and a cut-throat dart of
two teams pays the only opponent there is, who is then further from leading.
With three teams a dart thrown at one of them can lift another past it, which is
the finding of `LegCutthroatThree`; that is why the theorem has a hypothesis
and the run `Legs`, of two teams, has none. It assumes that the targets of a
game of cricket are fixed and that there are some (`engine/cricket.py:61-62`).

The seventh has four parts. *The table*: an entry is some of the paths there
are for its score, and is empty only if there are none (`SuggestLists`). The
ranking plays no part in it but that it chooses: ranks of one length are
ordered strictly, so of a finite set of paths some is outranked by none
(`SomeFirst`). *The rules*: whether a position can be won, dart by dart, is
whether there is a path for it, by an induction over the darts left
(`TableKnows`). The one score the two could disagree on is 1, which busts
unless the out-rule is straight and for which no path ends otherwise
(`OneIsLeft`); above the table's top nothing can be won with three darts
(`WinBounds`). *The throw*: a path is thrown one dart at a time, and after each
but the last the thrower is still up, with the score the path expects and a
dart fewer (`NextDartDoes`, from the lemma of one dart more in `ReplayProofs`,
`X01OneMore`), so the last checks out (`PathsWin`). *The hint*: it is empty
unless the leg goes on and the thrower is open (`HintsOffered`); who is up then
has a score above zero and one to three darts (`X01OnTurn`). It assumes that a
game starts above zero (`engine/x01.py:42-45`) and that the table reaches
either the start or 180, the most that three darts score, beyond which the
code's table has no entry either (`engine/checkout_gen.py:235-236`).

`RowsProofs` proves, for every game, match, set of darts and bound, when the
service asks the engine of `Replay` (`EngineAssumption`, which is what
`services/play.py` does):

| Theorem | Property |
|---|---|
| `NothingToFind` | `VerifyFindsNothing` |
| `NothingMissed` | `VerifyMissesNothing` |
| `RowsSitRight` | `RowsSitWithTheirThrowers` |
| `FoundUnlessUndone` | `NotFoundOnlyAfterAnUndo` |
| `SweepIsExplained` | `SweepReportIsExplained` |
| `AnswersAreTrue` | `AnswersAreOfTheirBoard` |
| `SweepIsIdle` | `SweepChangesNothing` |
| `ConstraintsAlwaysHold` | `ConstraintsHold` |
| `CricketRowsAlwaysAddUp` | `CricketRowsAddUp` |
| `ReportsAreTrue` | `ReportsFollowPlay` |

The first three rest on `RowsInv`: beside `Inductive`, the rows of each leg are,
column by column, those that the replay of its darts would leave (`RowRight`),
and so are its caches (`CachesAgree`). That is stronger than what `verify.py`
compares, and has to be: a throw writes only the rows of the last visit and its
new dart, an undo only takes a row away and judges the last visit again, so a
row they leave alone must be right for the longer or shorter leg as well. That
it is, is the lemma of one dart more; `Lies` says which visit a dart falls in,
by the sum of the lengths of the earlier ones. `verify.py` finds nothing because
everything it recomputes is a function of those columns, and misses nothing
because each of its comparisons is an equality with them.

`NotFoundOnlyAfterAnUndo` and the two about sweeps rest on `ReadInv`: what a request has read so
far is a part of one of the boards that there were while it was made, and a leg
it knows of and does not find was had by an earlier board and not by a later
one, so an undo took it; a sweep that was not overtaken finds in each cache
table what its rebuild leaves there. Any number of writes may overtake it. `AnswersAreTrue` is about the answers
themselves, with all that is in them. What is read of one database in one go is
what the darts of that database say (`SaysTruly`): the legs and visits by the
columns of `RowRight`, the standings by the caches, the history because its
lines, sorted by row, are the darts of their visits one by one. What a request
holds of a board is carried along step by step (`TrueReq`). The first half of a
write's answer is read before the write ends (`WriteIsTrue`) and stays true
whoever writes next; the parts read after that, and all of a GET's, are of the
first board as long as no write has overtaken the request, and once one has,
nothing is claimed of them, which is all that the code promises.

The two about the tables follow from `RowsInv` and what a replay can look like.
A row that repeats a visit of a replay satisfies the constraints because the
visit does (`VisitsAllowed`), and two rows of a team differ in number because
the rotation comes round once. The effect of a cricket dart fits its row since
its marks and its surplus share what the throw marks, two of a bull at most, and
it is wasted only with surplus (`CricketAllowed`); the caches are the replay's
positions, none of which is below zero or above three marks (`CachesAllowed`).
That the cricket rows add up needs the replay's
position to be the total of its visits' effects (`ReplayKeepsMarks`), and the
rows, which are numbered by dart, to be those effects in one-to-one order
(`DartByDart`).

The reports count and sum the same rows in different ways: by dart, by visit, by
leg, by player and by target. That they agree is a bijection each time, between
what a query ranges over and what the replays have there (`OneToOne`), under
which a count or a sum may be taken on either side (`ImageCount`, `TotalImage`),
and a sorting of one set by another where a query groups (`TotalBy`). The first
of them is that each dart of the match is seen once by `v_darts`, in the visit of
the replay it lies in (`AllAreSeen`, `KeyIsSeen`); the others are parts of it: a
player's darts (`ThrownAre`), those of a visit in their order (`VisitDartsAre`),
the first few of each leg (`FirstAreSeen`), those on a target (`LandedAre`). What
a visit's darts are worth is what it took off the score because the replay keeps
the scores (`VisitTakesOff`, from `X01Inv`). A checkout is the last dart of a leg
because a visit leaves nothing and is its winner's exactly when it is the last of
a leg that is won (`LastVisitWins`), so the report's darts and the leaderboard's
visits are both one for each such leg (`WinningAre`, `WonVisitsAre`). That dart
finished from a score it could be meant for, or opened the leg it won
(`WinningIsTried`, from `X01WonByDart` and `FinishIsAttempt`), which bounds the
checkouts. It assumes (`StatisticsAssumption`) that each side has a player, that
a game starts above zero under one of the engine's rules, and that the table
reaches the start or 60, the most one dart scores.

`PlayClientProofs` proves, for every set of phones and of ids, whether they are
watched or not, and without a bound on losses:

| Theorem | Property |
|---|---|
| `TapsAreRecordedOnce` | `OneDartPerTap` |
| `ScreensGoForward` | `PaintsForward` |

The first rests on `IInv`: every id in a request, on a failed mutation or on a
recorded dart was minted by a tap, and an id is recorded at most once at any
moment, so the darts are counted by an injection into the taps. The second
rests on `FInv`: a phone that neither leaves nor refetches has at most one live
fetch, whose answer is at least as new as what it shows.

`MatchSetupProofs` proves, for every set of spellings and way of folding them
and for every width of the palette (`SetupAssumption`):

| Theorem | Property |
|---|---|
| `NamesStayApart` | `ActiveNamesDiffer` |
| `SharedColoursHaveAReason` | `SharedColoursAreExplained` |
| `PagesShowEverything` | `NothingIsSkipped` |

The second is a pigeonhole argument: while there are fewer active players than
colours, some colour is held by nobody, and the lowest of the least held is
such a one. `CInv` strengthens it by counting the active players, and
`FormsAreFresh` says of a sheet that is not stale that the colour it shows is
still the one that would be offered now. The stronger claim of the comments,
that only a picked colour is shared, is false (`ColoursRace`). The third
follows from `HInv`: as long as none has left the listing, every match that was
there when the reader began and has not been shown is below the page on the
screen. An addition moves no match up, wherever the clock sorts it.

`DeployProofs` proves, for every set of builds with their migrations, width of
the two windows, length of the hour and the day, number of image tags kept, and
without any bound on matches, time, faults or scripts (`RetentionAssumption`,
`StorageAssumption`, `DeployAssumption`):

| Theorem | Property |
|---|---|
| `ServedSchema` | `ServedSchemaIsTheBuilds` |
| `NothingIsDeleted` | `NothingFiledIsDeleted` |
| `DeletionsAreOutlived` | `DeletionsRespectTheWindows` |
| `BackupsAreOfWhatMigrates` | `BackupIsOfWhatMigrates` |
| `ImagesStay` | `NeededImagesStay` |

The first three follow from `BoxInv`: the state has its shape (`Shaped`), a
missing file holds nothing and what is about to be published is a file
(`Filed`), and the stages of the boot and of the script agree with the file
they work on (`Attended`). The last is what makes it inductive: that the schema
served stays the build's needs the container to be off while a script migrates,
and that nothing is lost when a restored backup replaces the database needs the
database to be missing by then. Retention is a lemma about sets of names: a
name that is not retained has a later one in its bucket, or too many later
buckets, because two names are always ordered and a set of buckets is finite.

A backup that a deploy took is of what it migrates because of `HatchInv`: while
the script is between its backup and its migration nothing files a match, and
the backup is still there, of those matches, or later names have outlived it in
both windows, which takes a clock that stood behind them (the first of the
smaller findings below).
That there is a backup at all is not promised: the script may skip it
(`UnansweredQuery`). Images stay because of `TagsInv`: those the script listed,
whichever they are, stay until it has chosen where to go back to, that is never the image it deploys (`ScriptKnows`), and once it has switched
`darts:latest` it is known which of the two a container runs (`Switched`).

**Data.** The library's induction theorems take a predicate as a parameter,
which the provers cannot instantiate. `Induction` states the principle for sets
instead: a set that has 0, and i + 1 whenever it has i, has every number up to
n; a fact is then proved of the set of the i that have it. Recursive functions
are reached through their unrolling up to n, of which such an induction shows
that there is one. `SelectSeq`, `SortSeq` and `SetToSortSeq`, as well as
operators that take an operator, are opaque to the provers, so what is computed
with them cannot be proved about.

**Model-checked only.** Liveness (`KeypadComesBack`, `ScreensConverge`,
`ComesBackUp`), which needs ENABLED. Every invariant and action property of the
passing runs is proved; `WonPositionHasWinner` without cut-throat of three.

## 5. Findings

- **Cut-throat with three teams can get stuck** (`LegCutthroatThree`). A win is
  looked for only in the thrower's position (`engine/cricket.py:376`). Let A
  close everything but trail on points, and let B and C then be paid past it by
  each other's darts: A is in a won position, nobody is told, and A's next dart
  raises "the leg is already won". The table in the module's docstring gives
  the win without regard to who throws. Reproduced on the engine itself.
- **Trying an undo again may take two darts** (`UndoTwice`). `Play.tsx:190`
  re-sends a failed undo. An undo has no id, so if only its answer was lost the
  second takes another dart. `api/play.ts:16-21` gives the reason a dart is safe
  to send again, and it does not hold of an undo.
- **A power cut in a repair hides the backups** (`PowerCutInRepair`).
  `quarantine` moves the damaged database away before `restore` publishes the
  backup. Cut between the two, the next boot finds no database and creates an
  empty one, reported healthy (`recovery.py:78-81`), though the docstring makes
  an empty database *and a degraded report* the worst case. The good backup
  stays where it was; nobody is told to restore it.
- **A deploy may migrate without a backup** (`UnansweredQuery`).
  `backup_database` takes every failure of its query for "no database on the
  target yet" (`deploy.sh:448-450`), and the query is an ssh whose errors are
  discarded (`deploy-remote.sh:38-40`). A connection that fails for that one
  command makes the deploy skip the backup of a box full of matches and migrate
  it, while `deploy.sh:54-55` calls that backup the escape hatch.
- **No rollback survives a migration** (`RollbackAcrossMigration`).
  `deploy.sh:50-53` expects an older image to serve a newer schema; the boot
  refuses it (`migrate.py:87-88`) and the container restarts for ever.
- **Two phones may give two players one colour** (`ColoursRace`).
  `setup.py:19-20` and `accents.ts:11-13` have the server choose, inside its
  transaction, so that this cannot happen. But the sheet opens on a suggestion
  from the list the phone has (`PlayerForm.tsx:39`) and sends it with every
  create (`PlayerForm.tsx:57-61`); the server chooses only for a request without
  a colour (`players.py:199`), which the screen never makes.

Smaller ones, without a run of their own:

- Retention orders backups by the stamp in their names (`backup.py:194`). With
  the clock behind an older backup of the same hour, `create` publishes a backup
  and prunes it in the same call, although `backup.py:188` says that the newest
  backup is always kept: it means the newest by name. The backup a deploy takes
  before it migrates may go like that, and `BackupIsOfWhatMigrates` allows for
  it. Reproduced on `darts.db.backup` itself.
- A refetch answered before a write and delivered after it paints the older
  score, which `Play.tsx:155-157` says the busy flag prevents;
  `ScreensConverge` shows that a later refetch heals it.
- `api/play.py:3-8` has every response be the same complete state. A GET that a
  commit falls into mixes two (a tally of after with darts of before), because
  its statements share no transaction; hence the condition in
  `AnswersAreOfTheirBoard`. So may the second leg in the answer to a winning
  dart, and that answer is a 404 when another phone has taken the leg back,
  although the dart was recorded (`NotFoundOnlyAfterAnUndo`).
- A sweep is documented as safe while a leg is played, and takes nothing from
  it; but it ends in an error, with the legs behind not looked at, when an undo
  deletes a leg it has listed.
- With an in-rule, the dart that opens a leg and checks it out is recorded as
  no attempt (`derive.py:163`), where `stats/sql/checkout.sql:3-6` counts one:
  a player may have more checkouts than attempts. `ReportsFollowPlay` bounds the
  excess by exactly those legs.
- The legs won before a match was given up stay in its players' figures, while
  the comment at `views.sql:157-160` says a leg in an abandoned match has no
  winner.
- `verify.py` says it recomputes everything derived; it does not look at the
  team and player of a visit, its number within the team, or which visit a dart
  belongs to. `RowsSitWithTheirThrowers` does.
- A hint for an abandoned game of cricket names a next thrower, since the game
  is asked for before the abandonment (`hints.py:96-99`).

## 6. What is abstracted or left out

- SQLite's transactions are taken as atomic and isolated, as
  `BEGIN IMMEDIATE` makes the writes; a crash inside one is then no step at
  all. A statement outside a transaction sees the last commit.
- A leg's identity is its index. The table has no AUTOINCREMENT, so a leg
  deleted and opened again usually gets its id back.
- `StateRead` follows one request at a time among commits of others; two reads
  do not disturb each other. Giving a match up is answered from the match and
  not from its state.
- `PlayClient` has one leg that never ends, a refetch that the query library
  retries counts as one fetch, the second read behind a response cannot fail,
  and a mutation paused while the browser believes itself offline is not told
  from one whose fetch fails.
- Reports are about one match. The filters and the window of `last_matches`
  choose whole matches and are left out, as are the bands and the segment
  frequencies, further counts over the same rows.
- The writes of players are one transaction each, so two requests for one name
  are two steps in some order and do not interleave.
- `NothingFiledIsDeleted` speaks of matches in database files. Those that are
  only in a sidecar whose database was moved aside by a repair that was then cut
  short are lost (`durability.py:150`); no property claims otherwise.
- A screen that refetches may show an older board for a moment, so
  `PaintsForward` is about phones that neither refetch nor leave, and
  `ScreensConverge` is what holds of the others.
- The snapshot republished in the background after a decided match
  (`api/play.py:385-399`) is left out with the other snapshots.
- In the history each page turned to is read anew. One read in the last five
  seconds comes out of the phone's cache; after an addition in between, such a
  page may hide a row that moved to the page before.
- Labels, wording, layout and logging.

**Not modelled**, and why:

- The pull of backups to another machine (`scripts/backup-pull*.sh`): it shares
  nothing with the box but the published files.
- darts-restore by hand, the downloadable snapshot and the manifests: operator
  tools over a stopped box or a copy, which no other part reads. A backup by
  hand beside a running server, whose name could be chosen by both within one
  second, and the empty backup that darts-backup publishes from an empty
  database, belong here too.
- The completion sheets, set-up forms and presentation of statistics: what they
  hold is a form's fields or an answer the server computed. The service worker
  caches assets and never touches the API.
- `unarchive_player`, which nothing calls, and short names (a length and a
  trim).
- `bootstrap-pi.sh`, `make-cert.sh`: they prepare a host once.
