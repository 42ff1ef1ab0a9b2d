------------------------------ MODULE MatchSetup ------------------------------
(***************************************************************************)
(* What is there before and around play: the players and the matches       *)
(* (backend/darts/repo/players.py, repo/matches.py, services/setup.py,     *)
(* api/players.py, api/matches.py), the sheet a phone adds and edits a     *)
(* player in (frontend/src/players/PlayerForm.tsx, accents.ts), and        *)
(* somebody paging through the history (frontend/src/matches/history.ts,   *)
(* routes/History.tsx).                                                    *)
(*                                                                         *)
(* Every write is one transaction; a page and its total are read in one.   *)
(* A phone reads the players when it opens its sheet: a list read earlier  *)
(* is a sheet opened earlier.  Names are members of Spelling, already      *)
(* trimmed and not blank, and Fold gives the form two of them are compared *)
(* in.  A match is its teams, its created_at and its status: its legs are  *)
(* PlayService's, which also decides it and takes the decision back.       *)
(* Short names are left out.                                               *)
(***************************************************************************)
EXTENDS Integers, Sequences, FiniteSets, SequencesExt

CONSTANTS
    Spelling, Fold,     \* the names that may be typed, and their case folded form
    AccentCount,        \* the width of the palette
    PageSize,           \* the limit the history asks with
    Clock,              \* readings of the wall clock, which may repeat or step back
    Lineups,            \* the sequences of teams that may be asked for
    Phone               \* the phones with the player list on the screen

ASSUME SetupAssumption ==
    /\ Spelling \subseteq DOMAIN Fold
    /\ AccentCount \in Nat \ {0} /\ PageSize \in Nat \ {0} /\ Clock \subseteq Nat

Accent == 1..AccentCount

NoAccent == 0           \* NULL in the column

Unset == -1             \* the field was not in the request

VARIABLES
    players,            \* by id, in the order they were added
    matches,            \* by id
    forms,              \* by phone, the sheet that is open on it
    picked,             \* the players whose colour somebody has chosen
    outdated,           \* those whose colour a sheet offered, off a list that had changed
    crowded,            \* whether there ever were more active players than colours
    reader              \* the pages of the history turned so far

playerVars == <<players, forms, picked, outdated, crowded>>

vars == <<players, forms, picked, outdated, crowded, matches, reader>>

ActivePlayers(ps) == {p \in DOMAIN ps : ~ps[p].archived}

RejectExact(name, excluded) ==          \* mutant: names compared as typed
    \E p \in ActivePlayers(players) : p # excluded /\ players[p].name = name

(* _reject_duplicate: archived players do not hold on to their names.      *)
RejectDuplicate(name, excluded) ==
    \E p \in ActivePlayers(players) :
        p # excluded /\ Fold[players[p].name] = Fold[name]

HeldBy(accent, excluded) ==
    {p \in ActivePlayers(players) : p # excluded /\ players[p].accent = accent}

LeastHeldInTurn(excluded) == (Len(players) % AccentCount) + 1  \* mutant: dealt out in turn

(* The lowest of the colours that the fewest active players hold: the rule *)
(* of next_accent_index, and of suggest on the phone.                      *)
LeastHeld(excluded) ==
    CHOOSE a \in Accent : \A b \in Accent :
        \/ Cardinality(HeldBy(a, excluded)) < Cardinality(HeldBy(b, excluded))
        \/ Cardinality(HeldBy(a, excluded)) = Cardinality(HeldBy(b, excluded)) /\ a <= b

Overflows(ps) == Cardinality(ActivePlayers(ps)) > AccentCount

(* What the colours on offer depend on.                                    *)
Colours(ps) == [p \in DOMAIN ps |-> [accent |-> ps[p].accent, archived |-> ps[p].archived]]

(* The sheets that are open were offered their colour before this write.   *)
LeaveFormsBehind ==
    LET behind(form) == form.open /\ Colours(players') # Colours(players)
    IN  forms' = [f \in Phone |-> [forms[f] EXCEPT !.stale = (@ \/ behind(forms[f]))]]

(* How p came by the colour it now has.                                    *)
Recolour(p, chosen, late) ==
    /\ picked' = IF chosen THEN picked \cup {p} ELSE picked \ {p}
    /\ outdated' = IF late THEN outdated \cup {p} ELSE outdated \ {p}

CreatePlayer(name, accent, chosen, late) ==
    /\ ~RejectDuplicate(name, 0)
    /\ players' = Append(players, [name     |-> name,
                                   accent   |-> IF accent = Unset THEN LeastHeld(0) ELSE accent,
                                   archived |-> FALSE])
    /\ Recolour(Len(players) + 1, chosen, late)
    /\ crowded' = (crowded \/ Overflows(players'))
    /\ LeaveFormsBehind
    /\ UNCHANGED <<matches, reader>>

(* A PATCH: a colour left out stays, null clears it.  The name is checked  *)
(* for an archived player too.                                             *)
UpdatePlayer(p, name, accent, chosen, late) ==
    /\ ~RejectDuplicate(name, p)
    /\ players' = [players EXCEPT ![p].name = name,
                                  ![p].accent = IF accent = Unset THEN @ ELSE accent]
    /\ \/ players'[p].accent # players[p].accent /\ Recolour(p, chosen, late)
       \/ players'[p].accent = players[p].accent /\ UNCHANGED <<picked, outdated>>
    /\ LeaveFormsBehind
    /\ UNCHANGED <<matches, crowded, reader>>

ArchivePlayer(p) ==
    /\ players' = [players EXCEPT ![p].archived = TRUE]
    /\ LeaveFormsBehind
    /\ UNCHANGED <<matches, picked, outdated, crowded, reader>>
-----------------------------------------------------------------------------
NoForm == [open |-> FALSE, player |-> 0, accent |-> NoAccent, tapped |-> FALSE, stale |-> FALSE]

(* The colour a sheet opens on: the player's own, else a suggestion.       *)
Offered(p) ==
    IF p # 0 /\ players[p].accent # NoAccent THEN players[p].accent ELSE LeastHeld(p)

(* The sheet is mounted for a player of the list, or for a new one (0).    *)
OpenForm(f, p) ==
    /\ forms' = [forms EXCEPT ![f] = [open  |-> TRUE, player |-> p, accent |-> Offered(p),
                                      tapped |-> FALSE, stale |-> FALSE]]
    /\ UNCHANGED <<players, picked, outdated, crowded, matches, reader>>

PickAccent(f, accent) ==
    /\ forms[f].open
    /\ forms' = [forms EXCEPT ![f].accent = accent, ![f].tapped = TRUE]
    /\ UNCHANGED <<players, picked, outdated, crowded, matches, reader>>

(* submit: what the sheet shows is sent, its colour always with it.  The   *)
(* sheet stays until the answer is there, or for good when that is lost or *)
(* a refusal.                                                              *)
SubmitForm(f, name) ==
    LET form == forms[f]
        late == form.stale /\ ~form.tapped
    IN  /\ form.open
        /\ \/ form.player = 0 /\ CreatePlayer(name, form.accent, form.tapped, late)
           \/ form.player # 0 /\ UpdatePlayer(form.player, name, form.accent, form.tapped, late)

(* onClose: the answer is there, or somebody puts the sheet away.          *)
CloseForm(f) ==
    /\ forms[f].open
    /\ forms' = [forms EXCEPT ![f] = NoForm]
    /\ UNCHANGED <<players, picked, outdated, crowded, matches, reader>>
-----------------------------------------------------------------------------
(* validate_composition and _validate_teams.                               *)
ValidTeams(teams) ==
    /\ teams # <<>>
    /\ \A t \in DOMAIN teams : teams[t] # <<>>
    /\ IsInjective(FlattenSeq(teams))
    /\ Range(FlattenSeq(teams)) \subseteq ActivePlayers(players)

(* The teams, their members and leg 0 are written with the match.          *)
CreateMatch(teams, at) ==
    /\ ValidTeams(teams)
    /\ matches' = Append(matches, [teams |-> teams, at |-> at, status |-> "in_progress"])
    /\ UNCHANGED <<playerVars, reader>>

AnyStatus == "any"            \* no status asked for

(* _STATUS_WHERE, on a match's status.                                     *)
StatusWhere(wanted, status) == wanted \in {AnyStatus, status}

(* list_matches: the matches of a status, newest first, the id breaking    *)
(* ties of the clock.                                                      *)
Listing(wanted) == {m \in DOMAIN matches : StatusWhere(wanted, matches[m].status)}

Newer(m, n) ==
    \/ matches[m].at > matches[n].at
    \/ matches[m].at = matches[n].at /\ m > n

Above(wanted, m) == Cardinality({n \in Listing(wanted) : Newer(n, m)})

PageOffByOne(wanted, offset) ==         \* mutant: the first row is skipped
    {m \in Listing(wanted) : Above(wanted, m) \in offset + 1..offset + PageSize}

Page(wanted, offset) ==
    {m \in Listing(wanted) : Above(wanted, m) \in offset..offset + PageSize - 1}

(* The match has a new status; the reader's listing may have lost it.      *)
SetStatus(m, status) ==
    /\ matches' = [matches EXCEPT ![m].status = status]
    /\ reader' = [reader EXCEPT !.lost = @ \/ /\ StatusWhere(reader.wanted, matches[m].status)
                                              /\ ~StatusWhere(reader.wanted, status)]
    /\ UNCHANGED playerVars

(* abandon_match: once; a completed match is refused.                      *)
AbandonMatch(m) == matches[m].status # "complete" /\ SetStatus(m, "abandoned")

(* set_match_winner, as the play service calls it.                         *)
DecideMatch(m) == matches[m].status = "in_progress" /\ SetStatus(m, "complete")

ReopenMatch(m) == matches[m].status = "complete" /\ SetStatus(m, "in_progress")
-----------------------------------------------------------------------------
(* pageInfo: whether there is a page after the one at this offset.         *)
HasNext(wanted, offset) == offset + PageSize < Cardinality(Listing(wanted))

(* One page is on the screen: what it adds to what has been shown, and     *)
(* whether there are rows for the pager to stand under.                    *)
ShowPage(wanted, offset, began, seen, lost) ==
    reader' = [wanted |-> wanted, offset |-> offset, began |-> began,
               seen   |-> seen \cup Page(wanted, offset),
               pager  |-> Page(wanted, offset) # {},
               more   |-> HasNext(wanted, offset), lost |-> lost]

(* onFilter: another listing is read from its first page.                  *)
OpenHistory(wanted) ==
    /\ ShowPage(wanted, 0, Listing(wanted), {}, FALSE)
    /\ UNCHANGED <<matches, playerVars>>

NextPage ==
    /\ reader.more
    /\ ShowPage(reader.wanted, reader.offset + PageSize, reader.began, reader.seen, reader.lost)
    /\ UNCHANGED <<matches, playerVars>>

(* The window has the focus again.                                         *)
RefetchPage ==
    /\ ShowPage(reader.wanted, reader.offset, reader.began, reader.seen, reader.lost)
    /\ UNCHANGED <<matches, playerVars>>

PrevOffset == IF reader.offset > PageSize THEN reader.offset - PageSize ELSE 0

PrevPage ==
    /\ reader.pager /\ reader.offset > 0
    /\ ShowPage(reader.wanted, PrevOffset, reader.began, reader.seen, reader.lost)
    /\ UNCHANGED <<matches, playerVars>>

Init ==
    /\ players = <<>> /\ matches = <<>>
    /\ forms = [f \in Phone |-> NoForm]
    /\ picked = {} /\ outdated = {} /\ crowded = FALSE
    /\ reader = [wanted |-> AnyStatus, offset |-> 0, began |-> {}, seen |-> {},
                 pager |-> FALSE, more |-> FALSE, lost |-> FALSE]

Next ==
    \/ \E name \in Spelling, accent \in Accent \cup {Unset} :
          CreatePlayer(name, accent, accent # Unset, FALSE)
    \/ \E p \in DOMAIN players, name \in Spelling, accent \in Accent \cup {NoAccent, Unset} :
          UpdatePlayer(p, name, accent, TRUE, FALSE)
    \/ \E p \in DOMAIN players : ArchivePlayer(p)
    \/ \E f \in Phone, p \in {0} \cup DOMAIN players : OpenForm(f, p)
    \/ \E f \in Phone, accent \in Accent : PickAccent(f, accent)
    \/ \E f \in Phone, name \in Spelling : SubmitForm(f, name)
    \/ \E f \in Phone : CloseForm(f)
    \/ \E teams \in Lineups, at \in Clock : CreateMatch(teams, at)
    \/ \E m \in DOMAIN matches : AbandonMatch(m)
    \/ \E m \in DOMAIN matches : DecideMatch(m)
    \/ \E m \in DOMAIN matches : ReopenMatch(m)
    \/ \E wanted \in {AnyStatus, "complete", "abandoned"} : OpenHistory(wanted)
    \/ NextPage
    \/ PrevPage
    \/ RefetchPage

Spec == Init /\ [][Next]_vars
-----------------------------------------------------------------------------
Player == [name : Spelling, accent : Accent \cup {NoAccent}, archived : BOOLEAN]

Form == [open : BOOLEAN, player : {0} \cup DOMAIN players, accent : Accent \cup {NoAccent},
         tapped : BOOLEAN, stale : BOOLEAN]

TypeOK ==
    /\ players \in Seq(Player)
    /\ forms \in [Phone -> Form]
    /\ picked \subseteq DOMAIN players /\ outdated \subseteq DOMAIN players
    /\ crowded \in BOOLEAN

(* No two players of the pickers have the same name, whatever its case,    *)
(* after any sequence of additions, renames and archivings: archiving      *)
(* releases a name, and renaming an archived player does not take it back. *)
ActiveNamesDiffer ==
    \A p, q \in ActivePlayers(players) :
        Fold[players[p].name] = Fold[players[q].name] => p = q

(* Two players of the pickers who have the same colour.                    *)
SameColour(p, q) ==
    /\ p # q /\ {p, q} \subseteq ActivePlayers(players)
    /\ players[p].accent = players[q].accent /\ players[p].accent # NoAccent

(* A colour is shared only by choice, or because a sheet went out of date: *)
(* as long as there never were more active players than colours, one of    *)
(* two who share had it picked by somebody, or offered by a sheet whose    *)
(* list of players had changed by the time it was sent.  Colours dealt by  *)
(* the server, and those of sheets still up to date, never clash.          *)
SharedColoursAreExplained ==
    ~crowded => \A p, q \in DOMAIN players :
        SameColour(p, q) => {p, q} \cap (picked \cup outdated) # {}

(* What setup.py and accents.ts say: two phones adding a player at the     *)
(* same moment are not handed the same colour, and players share one only  *)
(* where somebody picks a taken one.                                       *)
SharedColoursWerePicked ==
    ~crowded => \A p, q \in DOMAIN players : SameColour(p, q) => {p, q} \cap picked # {}

(* Pages are cut by offset from a listing that changes under the reader,   *)
(* and by a clock that may step back.  Turning them to the last shows      *)
(* every match that was there at the first, unless one left the listing.   *)
(* Each page turned to is read anew: one read within the last five seconds *)
(* comes out of the cache of the phone, which no reader here is as quick   *)
(* as.                                                                     *)
NothingIsSkipped ==
    ~reader.more /\ ~reader.lost => reader.began \subseteq reader.seen
=============================================================================
