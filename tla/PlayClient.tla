------------------------------ MODULE PlayClient ------------------------------
(***************************************************************************)
(* Phones at one leg: the play screen's taps, its two writes and its       *)
(* refetch (frontend/src/routes/Play.tsx, CricketBoard.tsx, api/play.ts,   *)
(* api/client.ts), over a network that loses and delays, against the dart  *)
(* endpoints (backend/darts/api/play.py over services/play.py).            *)
(*                                                                         *)
(* A dart is its client_dart_id: which throw it is does not matter here,   *)
(* nor does the leg's end, which PlayService models.  A fetch that fails   *)
(* tells the phone nothing of whether its request was, or will yet be,     *)
(* handled.                                                                *)
(***************************************************************************)
EXTENDS Naturals, Sequences, FiniteSets, Functions

CONSTANTS
    Phone,
    Key,                \* the ids taps may mint
    Watched,            \* the phones somebody keeps coming back to: they leave the play
                        \* screen and enter it again, and refetch the state when they do
    MaxUndoTaps,        \* bound on the taps of Undo
    MaxCommits,         \* bound on the writes that change the leg
    MaxLate             \* bound on the requests handled after their phone gave up

ASSUME ClientAssumption ==
    /\ Watched \subseteq Phone
    /\ MaxUndoTaps \in Nat /\ MaxCommits \in Nat /\ MaxLate \in Nat

NoKey == "none"

VARIABLES
    darts,              \* the leg's recorded darts, as their keys
    commits,            \* how many writes have changed it
    calls,              \* the fetches under way, and the requests nobody waits for
    screen,             \* of each phone: idle, a write pending, or a write failed
    painted,            \* of each phone: the answer in its query cache
    taps,               \* darts tapped so far
    minted,             \* keys used so far
    undoTaps,           \* undos tapped so far
    removed             \* darts deleted so far

vars == <<darts, commits, calls, screen, painted, taps, minted, undoTaps, removed>>

Idle == [stage |-> "idle", kind |-> "none", key |-> NoKey, call |-> 0]

Answer == [version |-> commits, darts |-> darts]

Refusal == [version |-> 0, darts |-> <<"refused">>]        \* a 4xx

Unavailable == [version |-> 0, darts |-> <<"unavailable">>] \* a 5xx

LiveCalls(p) == {c \in calls : c.phone = p /\ c.live}

FreshId == CHOOSE n \in 1..Cardinality(calls) + 1 : \A c \in calls : c.id # n

Request(p, kind, key) ==
    [id |-> FreshId, phone |-> p, kind |-> kind, key |-> key,
     stage |-> "sent", live |-> TRUE, reply |-> Refusal]

FreshKey == CHOOSE k \in Key : k \notin minted      \* crypto.randomUUID

(* mutate(): the screen is busy until this call settles.                   *)
Mutate(p, kind, key) ==
    /\ calls' = calls \cup {Request(p, kind, key)}
    /\ screen' = [screen EXCEPT ![p] = [stage |-> "pending", kind |-> kind,
                                        key |-> key, call |-> FreshId]]

NeverBusy(p) == FALSE                   \* mutant: writes overlap

Busy(p) == screen[p].stage = "pending"

Init ==
    /\ darts = <<>> /\ commits = 0 /\ calls = {}
    /\ screen = [p \in Phone |-> Idle]
    /\ painted = [p \in Phone |-> Answer]
    /\ taps = 0 /\ minted = {} /\ undoTaps = 0 /\ removed = 0

(* onKey: a fresh id for the tap, the errors of earlier writes dropped.    *)
TapDart(p) ==
    /\ ~Busy(p)
    /\ Key \ minted # {}
    /\ Mutate(p, "dart", FreshKey)
    /\ taps' = taps + 1 /\ minted' = minted \cup {FreshKey}
    /\ UNCHANGED <<darts, commits, painted, undoTaps, removed>>

(* onUndo: the button is there while the board painted shows a dart.       *)
TapUndo(p) ==
    /\ ~Busy(p)
    /\ painted[p].darts # <<>>
    /\ undoTaps < MaxUndoTaps
    /\ Mutate(p, "undo", NoKey)
    /\ undoTaps' = undoTaps + 1
    /\ UNCHANGED <<darts, commits, painted, taps, minted, removed>>

(* "Try again": the write that failed is sent again as it was.             *)
Retry(p) ==
    /\ screen[p].stage = "failed"
    /\ Mutate(p, screen[p].kind, screen[p].key)
    /\ UNCHANGED <<darts, commits, painted, taps, minted, undoTaps, removed>>

(* The screen is unmounted and mounted again: its mutations are forgotten, *)
(* their fetches are not.                                                  *)
Leave(p) ==
    /\ p \in Watched
    /\ screen[p] # Idle
    /\ screen' = [screen EXCEPT ![p] = Idle]
    /\ UNCHANGED <<darts, commits, calls, painted, taps, minted, undoTaps, removed>>

Refetch(p) ==
    /\ p \in Watched
    /\ \A c \in LiveCalls(p) : c.kind # "read"
    /\ calls' = calls \cup {Request(p, "read", NoKey)}
    /\ UNCHANGED <<darts, commits, screen, painted, taps, minted, undoTaps, removed>>

(* The request is answered, if anybody still waits for the answer.         *)
Reply(c, reply) ==
    calls' = (calls \ {c}) \cup
             (IF c.live THEN {[c EXCEPT !.stage = "answered", !.reply = reply]} ELSE {})

ServeDartAgain(c) ==                    \* mutant: the key is not looked up
    /\ c.stage = "sent" /\ c.kind = "dart" /\ commits < MaxCommits
    /\ darts' = Append(darts, c.key) /\ commits' = commits + 1
    /\ Reply(c, [version |-> commits + 1, darts |-> Append(darts, c.key)])
    /\ UNCHANGED <<screen, painted, taps, minted, undoTaps, removed>>

(* play.throw: a key the leg already holds records nothing.                *)
ServeDart(c) ==
    /\ c.stage = "sent" /\ c.kind = "dart"
    /\ IF c.key \in Range(darts)
       THEN Reply(c, Answer) /\ UNCHANGED <<darts, commits>>
       ELSE /\ commits < MaxCommits
            /\ darts' = Append(darts, c.key) /\ commits' = commits + 1
            /\ Reply(c, [version |-> commits + 1, darts |-> Append(darts, c.key)])
    /\ UNCHANGED <<screen, painted, taps, minted, undoTaps, removed>>

(* play.undo: the last dart goes, whosever it is.                          *)
ServeUndo(c) ==
    /\ c.stage = "sent" /\ c.kind = "undo"
    /\ IF darts = <<>>
       THEN Reply(c, Refusal) /\ UNCHANGED <<darts, commits, removed>>
       ELSE /\ commits < MaxCommits
            /\ darts' = SubSeq(darts, 1, Len(darts) - 1) /\ commits' = commits + 1
            /\ removed' = removed + 1
            /\ Reply(c, [version |-> commits + 1, darts |-> SubSeq(darts, 1, Len(darts) - 1)])
    /\ UNCHANGED <<screen, painted, taps, minted, undoTaps>>

ServeRead(c) ==
    /\ c.stage = "sent" /\ c.kind = "read"
    /\ Reply(c, Answer)
    /\ UNCHANGED <<darts, commits, screen, painted, taps, minted, undoTaps, removed>>

(* The database stayed locked, or the server failed: nothing was written.  *)
ServeNothing(c) ==
    /\ c.stage = "sent"
    /\ Reply(c, Unavailable)
    /\ UNCHANGED <<darts, commits, screen, painted, taps, minted, undoTaps, removed>>

SettleSuccess(c, after) ==              \* mutant: a failure leaves the screen busy
    IF after = Idle THEN [screen EXCEPT ![c.phone] = Idle] ELSE screen

(* The write a screen is waiting for has ended.                            *)
SettleAs(c, after) ==
    IF Busy(c.phone) /\ screen[c.phone].call = c.id
    THEN [screen EXCEPT ![c.phone] = after] ELSE screen

FailedWrite(p) == [screen[p] EXCEPT !.stage = "failed", !.call = 0]

PaintWrites(c) ==                       \* mutant: the end of a refetch is dropped
    IF c.kind = "read" \/ c.reply \in {Refusal, Unavailable} THEN painted
    ELSE [painted EXCEPT ![c.phone] = c.reply]

(* onSuccess writes the answer into the cache, whatever is in it; so does  *)
(* the end of a refetch.                                                   *)
Paint(c) ==
    IF c.reply \in {Refusal, Unavailable} THEN painted
    ELSE [painted EXCEPT ![c.phone] = c.reply]

(* A refusal is shown and not retried.                                     *)
Receive(c) ==
    /\ c.live /\ c.stage = "answered"
    /\ calls' = calls \ {c}
    /\ painted' = Paint(c)
    /\ screen' = SettleAs(c, IF c.reply = Unavailable THEN FailedWrite(c.phone) ELSE Idle)
    /\ UNCHANGED <<darts, commits, taps, minted, undoTaps, removed>>

(* The fetch is rejected (OfflineError).  Its request was lost, or is      *)
(* still on its way to being handled.                                      *)
GiveUp(c) ==
    /\ c.live
    /\ \/ calls' = calls \ {c}
       \/ /\ c.stage = "sent" /\ c.kind # "read"
          /\ Cardinality({d \in calls : ~d.live}) < MaxLate
          /\ calls' = (calls \ {c}) \cup {[c EXCEPT !.live = FALSE]}
    /\ screen' = SettleAs(c, FailedWrite(c.phone))
    /\ UNCHANGED <<darts, commits, painted, taps, minted, undoTaps, removed>>

Serve(c) == ServeDart(c) \/ ServeUndo(c) \/ ServeRead(c) \/ ServeNothing(c)

Next ==
    \/ \E p \in Phone : TapDart(p) \/ TapUndo(p) \/ Retry(p) \/ Leave(p) \/ Refetch(p)
    \/ \E c \in calls : Serve(c) \/ Receive(c) \/ GiveUp(c)

(* Enough ids for every fetch there can be at once.                        *)
CallId == 1..Cardinality(Key) + MaxUndoTaps + Cardinality(Phone) + MaxLate

(* A fetch settles in the end: answered, or rejected by the browser.       *)
Settle(n) == \E c \in calls : c.id = n /\ (Receive(c) \/ GiveUp(c))

Fairness == \A n \in CallId : WF_vars(Settle(n))

Spec == Init /\ [][Next]_vars /\ Fairness

(* Somebody keeps coming back to the screen, and a read gets through every *)
(* now and then.                                                           *)
ReadFairness ==
    \A p \in Watched :
        /\ WF_vars(Refetch(p))
        /\ SF_vars(\E c \in LiveCalls(p) : ServeRead(c))
        /\ SF_vars(\E c \in LiveCalls(p) :
                     c.kind = "read" /\ c.reply # Unavailable /\ Receive(c))

WatchedSpec == Spec /\ ReadFairness
-----------------------------------------------------------------------------
TypeOK ==
    /\ darts \in Seq(Key) /\ commits \in 0..MaxCommits
    /\ \A c \in calls : c.phone \in Phone /\ c.kind \in {"dart", "undo", "read"}
    /\ \A p \in Phone : screen[p].stage \in {"idle", "pending", "failed"}
    /\ minted \subseteq Key

(* "A double tap or a retry over flaky wifi cannot record two darts": the  *)
(* leg never holds more darts than were tapped, nor one twice.             *)
OneDartPerTap ==
    /\ Len(darts) <= taps
    /\ IsInjective(darts)

(* A phone that neither leaves the screen nor refetches never paints an    *)
(* answer older than the one it shows: the reason its writes share one     *)
(* busy flag.                                                              *)
PaintsForward ==
    [][\A p \in Phone \ Watched : painted'[p].version >= painted[p].version]_vars

(* Tapping Undo takes back one dart, however often it is tried again.      *)
UndoTapTakesOneDart == removed <= undoTaps

(* However the answers came in, a screen that is watched comes to show the *)
(* leg as it is: the refetch on focus heals what a lost answer, an answer  *)
(* out of order or a request handled behind the phone's back left stale.   *)
ScreensConverge == \A p \in Watched : <>[](painted[p].darts = darts)

(* The keypad does not stay busy for ever.                                 *)
KeypadComesBack == \A p \in Phone : Busy(p) ~> ~Busy(p)
=============================================================================
