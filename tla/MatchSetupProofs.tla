---------------------------- MODULE MatchSetupProofs ----------------------------
(***************************************************************************)
(* What holds of any number of players, names and colours.                 *)
(***************************************************************************)
EXTENDS MatchSetup, FiniteSetTheorems, WellFoundedInduction, TLAPS

(* A set of numbers that is not empty has a least one.                     *)
LEMMA LeastOf ==
    ASSUME NEW S, S \subseteq Nat, S # {}
    PROVE  \E a \in S : \A b \in S : a <= b
<1>1. PICK a \in S : \A b \in S : ~(<<b, a>> \in OpToRel(<, Nat))
    BY NatLessThanWellFounded, WFMin
<1>2. \A b \in S : <<b, a>> \in OpToRel(<, Nat) <=> b < a
    BY DEF OpToRel
<1>3. \A b \in S : ~(b < a)
    BY <1>1, <1>2, Zenon
<1> QED
    BY <1>3

(* A field of a player changes, the others stay.                           *)
LEMMA OneFieldChanges ==
    ASSUME NEW player \in Player, NEW value
    PROVE  /\ [player EXCEPT !.name = value]
                = [name |-> value, accent |-> player.accent, archived |-> player.archived]
           /\ [player EXCEPT !.accent = value]
                = [name |-> player.name, accent |-> value, archived |-> player.archived]
           /\ [player EXCEPT !.archived = value]
                = [name |-> player.name, accent |-> player.accent, archived |-> value]
BY DEF Player

(* The same of a sheet.                                                    *)
LEMMA FormFieldsChange ==
    ASSUME NEW form \in Form, NEW accent, NEW value
    PROVE  /\ [form EXCEPT !.stale = value]
                = [open |-> form.open, player |-> form.player, accent |-> form.accent,
                   tapped |-> form.tapped, stale |-> value]
           /\ [form EXCEPT !.accent = accent, !.tapped = value]
                = [open |-> form.open, player |-> form.player, accent |-> accent,
                   tapped |-> value, stale |-> form.stale]
<1>1. form = [open |-> form.open, player |-> form.player, accent |-> form.accent,
              tapped |-> form.tapped, stale |-> form.stale]
    BY DEF Form
<1>2. [form EXCEPT !.stale = value]
        = [open |-> form.open, player |-> form.player, accent |-> form.accent,
           tapped |-> form.tapped, stale |-> value]
    BY <1>1
<1> DEFINE moved == [open |-> form.open, player |-> form.player, accent |-> accent,
                     tapped |-> form.tapped, stale |-> form.stale]
<1>3. [form EXCEPT !.accent = accent] = moved
    BY <1>1
<1>4. [moved EXCEPT !.tapped = value]
        = [open |-> form.open, player |-> form.player, accent |-> accent,
           tapped |-> value, stale |-> form.stale]
    OBVIOUS
<1> HIDE DEF moved
<1> QED
    BY <1>2, <1>3, <1>4
-----------------------------------------------------------------------------
(* Nobody has more active players than colours, unless they ever did.      *)
FewPlayers == ~crowded => Cardinality(ActivePlayers(players)) <= AccentCount

(* A sheet nobody touched, off a list that is still that of the players,   *)
(* has the colour it would open on now.                                    *)
FormsAreFresh ==
    \A f \in Phone, p \in {0} \cup DOMAIN players :
        /\ forms[f].open /\ forms[f].player = p
        /\ ~forms[f].stale /\ ~forms[f].tapped
        => forms[f].accent = Offered(p)

NInv == TypeOK /\ ActiveNamesDiffer

CInv == TypeOK /\ FewPlayers /\ FormsAreFresh /\ SharedColoursAreExplained

(* The players are those in a sequence, so they can be counted.            *)
LEMMA ActivePlayersAreCounted ==
    ASSUME TypeOK
    PROVE  /\ ActivePlayers(players) \subseteq 1..Len(players)
           /\ IsFiniteSet(ActivePlayers(players))
           /\ Cardinality(ActivePlayers(players)) \in Nat
<1>1. ActivePlayers(players) \subseteq 1..Len(players) /\ Len(players) \in Nat
    BY DEF TypeOK, ActivePlayers
<1>2. IsFiniteSet(1..Len(players))
    BY <1>1, FS_Interval
<1>3. IsFiniteSet(ActivePlayers(players))
    BY <1>1, <1>2, FS_Subset
<1> QED
    BY <1>1, <1>3, FS_CardinalityType

(* With fewer active players than colours one colour is nobody's: else the *)
(* colours of the players would reach all of them.                         *)
LEMMA SomeColourIsFree ==
    ASSUME TypeOK, NEW x, Cardinality(ActivePlayers(players) \ {x}) < AccentCount
    PROVE  \E a \in Accent : HeldBy(a, x) = {}
<1> SUFFICES ASSUME \A a \in Accent : HeldBy(a, x) # {} PROVE FALSE
    OBVIOUS
<1> DEFINE active == ActivePlayers(players) \ {x}
           holder == [a \in Accent |-> CHOOSE p \in active : players[p].accent = a]
<1>1. \A a \in Accent : holder[a] \in active /\ players[holder[a]].accent = a
    BY DEF HeldBy
<1>2. holder \in Injection(Accent, active)
    <2> HIDE DEF active
    <2>1. holder \in [Accent -> active]
        BY <1>1
    <2>2. IsInjective(holder)
        <3> HIDE DEF holder
        <3> QED
            BY <1>1, <2>1 DEF IsInjective
    <2> QED
        BY <2>1, <2>2 DEF Injection
<1>3. /\ Cardinality(Accent) <= Cardinality(active)
      /\ Cardinality(active) \in Nat
    <2>1. IsFiniteSet(active)
        BY ActivePlayersAreCounted, FS_Subset
    <2> QED
        BY <1>2, <2>1, FS_Injection, FS_CardinalityType
<1>4. Cardinality(Accent) = AccentCount
    <2>1. 1 \in Int /\ AccentCount \in Int /\ AccentCount >= 1
        BY SetupAssumption
    <2>2. Cardinality(1..AccentCount) = IF 1 > AccentCount THEN 0 ELSE AccentCount - 1 + 1
        BY <2>1, FS_Interval
    <2> QED
        BY <2>1, <2>2 DEF Accent
<1> QED
    BY <1>3, <1>4, SetupAssumption

(* The lowest free colour is what next_accent_index and suggest give out.   *)
LEMMA LeastHeldIsFree ==
    ASSUME TypeOK, NEW x, Cardinality(ActivePlayers(players) \ {x}) < AccentCount
    PROVE  LeastHeld(x) \in Accent /\ HeldBy(LeastHeld(x), x) = {}
<1> DEFINE free == {a \in Accent : HeldBy(a, x) = {}}
           Fewest(a) == \A b \in Accent :
                          \/ Cardinality(HeldBy(a, x)) < Cardinality(HeldBy(b, x))
                          \/ Cardinality(HeldBy(a, x)) = Cardinality(HeldBy(b, x)) /\ a <= b
<1>1. \A a \in Accent : /\ Cardinality(HeldBy(a, x)) \in Nat
                        /\ Cardinality(HeldBy(a, x)) = 0 <=> HeldBy(a, x) = {}
    <2>1. \A a \in Accent : IsFiniteSet(HeldBy(a, x))
        BY ActivePlayersAreCounted, FS_Subset DEF HeldBy
    <2> QED
        BY <2>1, FS_CardinalityType, FS_EmptySet
<1>2. PICK a \in free : \A b \in free : a <= b
    <2>1. free # {} /\ free \subseteq Nat
        <3>1. \E a \in Accent : HeldBy(a, x) = {}
            BY SomeColourIsFree
        <3> QED
            BY <3>1 DEF Accent
    <2> HIDE DEF free
    <2> QED
        BY <2>1, LeastOf
<1>3. Fewest(a)
    BY <1>1, <1>2
<1>4. LeastHeld(x) \in Accent /\ Fewest(LeastHeld(x))
    BY <1>2, <1>3 DEF LeastHeld
<1>5. Cardinality(HeldBy(LeastHeld(x), x)) = 0
    BY <1>1, <1>2, <1>4
<1> QED
    BY <1>1, <1>4, <1>5

(* The palette is never empty, so there is always a colour to give out.    *)
LEMMA LeastHeldIsAColour ==
    ASSUME TypeOK, NEW x
    PROVE  LeastHeld(x) \in Accent
<1> DEFINE held == {Cardinality(HeldBy(a, x)) : a \in Accent}
           Fewest(a) == \A b \in Accent :
                          \/ Cardinality(HeldBy(a, x)) < Cardinality(HeldBy(b, x))
                          \/ Cardinality(HeldBy(a, x)) = Cardinality(HeldBy(b, x)) /\ a <= b
<1>1. \A a \in Accent : Cardinality(HeldBy(a, x)) \in Nat
    <2>1. \A a \in Accent : IsFiniteSet(HeldBy(a, x))
        BY ActivePlayersAreCounted, FS_Subset DEF HeldBy
    <2> QED
        BY <2>1, FS_CardinalityType
<1>2. 1 \in Accent /\ Accent \subseteq Nat
    BY SetupAssumption DEF Accent
<1>3. PICK n \in held : \A k \in held : n <= k
    BY <1>1, <1>2, LeastOf
<1> DEFINE least == {a \in Accent : Cardinality(HeldBy(a, x)) = n}
<1>4. PICK a \in least : \A b \in least : a <= b
    BY <1>2, <1>3, LeastOf
<1>5. Fewest(a)
    <2>1. \A b \in Accent : n <= Cardinality(HeldBy(b, x))
        BY <1>3
    <2> QED
        BY <1>1, <1>3, <1>4, <2>1
<1> QED
    BY <1>4, <1>5 DEF LeastHeld
-----------------------------------------------------------------------------
(* With nobody added yet, no names or colours clash.                       *)
LEMMA InitEstablishesInvariants == Init => NInv /\ CInv
<1> SUFFICES ASSUME Init PROVE NInv /\ CInv
    OBVIOUS
<1>1. ActivePlayers(players) = {} /\ DOMAIN players = {}
    BY DEF Init, ActivePlayers
<1>2. TypeOK
    <2>1. /\ players \in Seq(Player)
          /\ picked \subseteq DOMAIN players /\ outdated \subseteq DOMAIN players
        BY DEF Init
    <2>2. crowded \in BOOLEAN
        BY Zenon DEF Init
    <2>3. forms \in [Phone -> Form]
        BY DEF Init, NoForm, Form
    <2> QED
        BY <2>1, <2>2, <2>3, Zenon DEF TypeOK
<1>3. FormsAreFresh
    BY DEF Init, NoForm, FormsAreFresh
<1> QED
    BY <1>1, <1>2, <1>3, FS_EmptySet, SetupAssumption
    DEF NInv, CInv, FewPlayers, ActiveNamesDiffer, SharedColoursAreExplained

(* What a sheet opens on depends on nothing but the players' colours.      *)
LEMMA OfferDependsOnColours ==
    ASSUME players \in Seq(Player), players' \in Seq(Player),
           Colours(players') = Colours(players), NEW p \in {0} \cup DOMAIN players
    PROVE  Offered(p)' = Offered(p)
<1>1. /\ DOMAIN players' = DOMAIN players
      /\ \A q \in DOMAIN players : /\ players'[q].accent = players[q].accent
                                   /\ players'[q].archived = players[q].archived
    <2>1. DOMAIN Colours(players') = DOMAIN players' /\ DOMAIN Colours(players) = DOMAIN players
        BY DEF Colours
    <2>2. ASSUME NEW q \in DOMAIN players
          PROVE  [accent |-> players'[q].accent, archived |-> players'[q].archived]
                   = [accent |-> players[q].accent, archived |-> players[q].archived]
        BY <2>1 DEF Colours
    <2> QED
        BY <2>1, <2>2
<1>2. \A a, x : HeldBy(a, x)' = HeldBy(a, x)
    BY <1>1 DEF HeldBy, ActivePlayers
<1>3. LeastHeld(p)' = LeastHeld(p)
    BY <1>2 DEF LeastHeld
<1> QED
    BY <1>1, <1>3 DEF Offered

(* A write leaves the sheets open, and takes note where it changed what    *)
(* they went by.                                                           *)
LEMMA FormsLeftBehind ==
    ASSUME TypeOK, FormsAreFresh, players' \in Seq(Player),
           DOMAIN players \subseteq DOMAIN players', LeaveFormsBehind
    PROVE  forms' \in [Phone -> Form'] /\ FormsAreFresh'
<1> DEFINE changed == Colours(players') # Colours(players)
<1>1. ASSUME NEW f \in Phone
      PROVE  /\ forms'[f] \in Form'
             /\ \/ forms'[f] = forms[f]
                \/ ~forms'[f].open
                \/ forms'[f].stale
             /\ forms'[f].open /\ changed => forms'[f].stale
    <2> DEFINE behind == forms[f].stale \/ (forms[f].open /\ changed)
    <2>1. PICK form \in Form : form = forms[f]
        BY DEF TypeOK
    <2>2. PICK now \in BOOLEAN : now = behind
        OBVIOUS
    <2>3. forms'[f] = [form EXCEPT !.stale = now]
        BY <2>1, <2>2 DEF LeaveFormsBehind
    <2>4. forms'[f] = [open |-> form.open, player |-> form.player, accent |-> form.accent,
                       tapped |-> form.tapped, stale |-> now]
        BY <2>3, FormFieldsChange
    <2>5. forms'[f] \in Form'
        BY <2>4 DEF Form
    <2>6. now = form.stale => forms'[f] = form
        BY <2>4 DEF Form
    <2>7. /\ forms'[f].stale = now /\ forms'[f].open = form.open
          /\ form.stale \in BOOLEAN /\ form.open \in BOOLEAN
        BY <2>4 DEF Form
    <2>8. now = (form.stale \/ (form.open /\ changed))
        BY <2>1, <2>2
    <2> HIDE DEF changed, behind
    <2> QED
        BY <2>1, <2>5, <2>6, <2>7, <2>8, Zenon
<1>2. forms' \in [Phone -> Form']
    <2>1. DOMAIN forms' = Phone /\ forms' = [f \in Phone |-> forms'[f]]
        BY DEF LeaveFormsBehind
    <2> QED
        BY <1>1, <2>1
<1>3. ASSUME NEW f \in Phone, NEW p \in {0} \cup DOMAIN players', forms'[f].player = p,
             forms'[f].open, ~forms'[f].stale, ~forms'[f].tapped
      PROVE  forms'[f].accent = Offered(p)'
    <2>1. forms'[f] = forms[f] /\ ~changed
        BY <1>1, <1>3
    <2>2. forms[f].player \in {0} \cup DOMAIN players
        BY DEF TypeOK, Form
    <2>3. p \in {0} \cup DOMAIN players
        BY <1>3, <2>1, <2>2
    <2>4. forms[f].accent = Offered(p)
        BY <1>3, <2>1, <2>3 DEF FormsAreFresh
    <2>5. Offered(p)' = Offered(p)
        BY <2>1, <2>3, OfferDependsOnColours DEF TypeOK
    <2> QED
        BY <2>1, <2>4, <2>5
<1> HIDE DEF changed
<1>4. FormsAreFresh'
    <2> SUFFICES ASSUME NEW f \in Phone, NEW p \in {0} \cup DOMAIN players',
                        forms'[f].open /\ forms'[f].player = p,
                        ~forms'[f].stale /\ ~forms'[f].tapped
                 PROVE  forms'[f].accent = Offered(p)'
        BY DEF FormsAreFresh
    <2> QED
        BY <1>3
<1> QED
    BY <1>2, <1>4

(* The actions that leave the players and the sheets as they are.          *)
LEMMA OthersKeepInvariants ==
    ASSUME NInv, CInv, UNCHANGED playerVars
    PROVE  NInv' /\ CInv'
<1>1. /\ players' = players /\ forms' = forms
      /\ picked' = picked /\ outdated' = outdated /\ crowded' = crowded
    BY DEF playerVars
<1>2. TypeOK' /\ ActiveNamesDiffer' /\ FewPlayers' /\ SharedColoursAreExplained'
    BY <1>1 DEF NInv, CInv, TypeOK, Form, FewPlayers, ActiveNamesDiffer,
                SharedColoursAreExplained, SameColour, ActivePlayers
<1>3. FormsAreFresh'
    <2>1. \A q : Offered(q)' = Offered(q)
        BY <1>1 DEF Offered, LeastHeld, HeldBy, ActivePlayers
    <2> QED
        BY <1>1, <2>1 DEF CInv, FormsAreFresh
<1> QED
    BY <1>2, <1>3 DEF NInv, CInv

(* What a request may say of a colour: that somebody chose it, that the    *)
(* sheet was behind, or what would be dealt.                               *)
Accounted(accent, chosen, late, dealt) == chosen \/ late \/ accent \in {Unset, dealt}

(* The history and the matches have nothing to do with the players.        *)
LEMMA FewActionsChangePlayers ==
    ASSUME TypeOK, FormsAreFresh, [Next]_vars
    PROVE  \/ UNCHANGED playerVars
           \/ \E name \in Spelling, accent \in Accent \cup {NoAccent, Unset},
                 chosen \in BOOLEAN, late \in BOOLEAN :
                 /\ Accounted(accent, chosen, late, LeastHeld(0))
                 /\ CreatePlayer(name, accent, chosen, late)
           \/ \E p \in DOMAIN players, name \in Spelling, accent \in Accent \cup {NoAccent, Unset},
                 chosen \in BOOLEAN, late \in BOOLEAN :
                 /\ Accounted(accent, chosen, late, Offered(p))
                 /\ UpdatePlayer(p, name, accent, chosen, late)
           \/ \E p \in DOMAIN players : ArchivePlayer(p)
           \/ \E f \in Phone, p \in {0} \cup DOMAIN players : OpenForm(f, p)
           \/ \E f \in Phone, accent \in Accent : PickAccent(f, accent)
           \/ \E f \in Phone : CloseForm(f)
<1>1. ASSUME NEW name \in Spelling, NEW accent \in Accent \cup {Unset},
             CreatePlayer(name, accent, accent # Unset, FALSE)
      PROVE  \E chosen \in BOOLEAN, late \in BOOLEAN :
                 /\ Accounted(accent, chosen, late, LeastHeld(0))
                 /\ CreatePlayer(name, accent, chosen, late)
    <2>1. PICK chosen \in BOOLEAN : chosen = (accent # Unset)
        OBVIOUS
    <2>2. Accounted(accent, chosen, FALSE, LeastHeld(0)) /\ CreatePlayer(name, accent, chosen, FALSE)
        BY <1>1, <2>1 DEF Accounted
    <2> QED
        BY <2>2
<1>2. ASSUME NEW f \in Phone, NEW name \in Spelling, SubmitForm(f, name)
      PROVE  \E accent \in Accent \cup {NoAccent, Unset}, chosen \in BOOLEAN, late \in BOOLEAN :
                 \/ /\ Accounted(accent, chosen, late, LeastHeld(0))
                    /\ CreatePlayer(name, accent, chosen, late)
                 \/ \E p \in DOMAIN players :
                       /\ Accounted(accent, chosen, late, Offered(p))
                       /\ UpdatePlayer(p, name, accent, chosen, late)
    <2>1. PICK form \in Form : form = forms[f]
        BY DEF TypeOK
    <2>2. PICK late \in BOOLEAN : late = (form.stale /\ ~form.tapped)
        OBVIOUS
    <2>3. PICK accent, chosen, p :
              accent = form.accent /\ chosen = form.tapped /\ p = form.player
        OBVIOUS
    <2>4. /\ accent \in Accent \cup {NoAccent, Unset} /\ chosen \in BOOLEAN
          /\ p \in {0} \cup DOMAIN players
        BY <2>3 DEF Form
    <2>5. form.open
        BY <1>2, <2>1 DEF SubmitForm
    <2>6. chosen \/ late \/ accent = Offered(p)
        BY <2>1, <2>2, <2>3, <2>4, <2>5 DEF FormsAreFresh
    <2>7. \/ p = 0 /\ CreatePlayer(name, accent, chosen, late)
          \/ p # 0 /\ UpdatePlayer(p, name, accent, chosen, late)
        BY <1>2, <2>1, <2>2, <2>3 DEF SubmitForm
    <2>8. p = 0 => Offered(p) = LeastHeld(0)
        BY DEF Offered
    <2> QED
        BY <2>4, <2>6, <2>7, <2>8 DEF Accounted
<1>3. ASSUME NEW p \in DOMAIN players, NEW name \in Spelling,
             NEW accent \in Accent \cup {NoAccent, Unset},
             UpdatePlayer(p, name, accent, TRUE, FALSE)
      PROVE  \E chosen \in BOOLEAN, late \in BOOLEAN :
                 /\ Accounted(accent, chosen, late, Offered(p))
                 /\ UpdatePlayer(p, name, accent, chosen, late)
    BY <1>3 DEF Accounted
<1>4. CASE UNCHANGED vars
    BY <1>4 DEF vars, playerVars
<1>5. ASSUME \/ \E teams \in Lineups, at \in Clock : CreateMatch(teams, at)
             \/ \E m \in DOMAIN matches : AbandonMatch(m) \/ DecideMatch(m) \/ ReopenMatch(m)
             \/ \E wanted \in {AnyStatus, "complete", "abandoned"} : OpenHistory(wanted)
             \/ NextPage \/ PrevPage \/ RefetchPage
      PROVE  UNCHANGED playerVars
    BY <1>5 DEF CreateMatch, AbandonMatch, DecideMatch, ReopenMatch, SetStatus,
                OpenHistory, NextPage, PrevPage, RefetchPage
<1>6. CASE \E name \in Spelling, accent \in Accent \cup {Unset} :
             CreatePlayer(name, accent, accent # Unset, FALSE)
    BY <1>1, <1>6, ZenonT(60)
<1>7. CASE \E p \in DOMAIN players, name \in Spelling, accent \in Accent \cup {NoAccent, Unset} :
             UpdatePlayer(p, name, accent, TRUE, FALSE)
    BY <1>3, <1>7, ZenonT(60)
<1>8. CASE \E f \in Phone, name \in Spelling : SubmitForm(f, name)
    <2>1. PICK f \in Phone, name \in Spelling : SubmitForm(f, name)
        BY <1>8
    <2>2. PICK accent \in Accent \cup {NoAccent, Unset}, chosen \in BOOLEAN, late \in BOOLEAN :
              \/ /\ Accounted(accent, chosen, late, LeastHeld(0))
                 /\ CreatePlayer(name, accent, chosen, late)
              \/ \E p \in DOMAIN players :
                    /\ Accounted(accent, chosen, late, Offered(p))
                    /\ UpdatePlayer(p, name, accent, chosen, late)
        BY <1>2, <2>1
    <2> QED
        BY <2>2, ZenonT(60)
<1> QED
    BY <1>4, <1>5, <1>6, <1>7, <1>8, ZenonT(60) DEF Next

(* A sheet opened carries the colour it opens on; one tapped, or put away, *)
(* need not.                                                               *)
LEMMA FormsKeepInvariants ==
    ASSUME NInv, CInv, NEW f \in Phone, NEW p \in {0} \cup DOMAIN players, NEW accent \in Accent,
           OpenForm(f, p) \/ PickAccent(f, accent) \/ CloseForm(f)
    PROVE  NInv' /\ CInv'
<1>1. TypeOK /\ forms \in [Phone -> Form] /\ forms[f] \in Form
    BY DEF NInv, TypeOK
<1>2. /\ players' = players /\ picked' = picked /\ outdated' = outdated /\ crowded' = crowded
      /\ Form' = Form
    BY DEF OpenForm, PickAccent, CloseForm, Form
<1>3. \A q : Offered(q)' = Offered(q)
    BY <1>2 DEF Offered, LeastHeld, HeldBy, ActivePlayers
<1>4. Offered(p) \in Accent \cup {NoAccent}
    <2>1. LeastHeld(p) \in Accent
        BY <1>1, LeastHeldIsAColour
    <2>2. p # 0 => players[p] \in Player
        BY <1>1 DEF TypeOK
    <2>3. \A player \in Player : player.accent \in Accent \cup {NoAccent}
        BY DEF Player
    <2> QED
        BY <2>1, <2>2, <2>3 DEF Offered
<1>5. PICK form \in Form :
          /\ forms' = [forms EXCEPT ![f] = form]
          /\ form.open /\ ~form.tapped => form.accent = Offered(form.player)
    <2>1. CASE OpenForm(f, p)
        <3> DEFINE opened == [open |-> TRUE, player |-> p, accent |-> Offered(p),
                              tapped |-> FALSE, stale |-> FALSE]
        <3>1. opened \in Form /\ opened.accent = Offered(opened.player)
            BY <1>4 DEF Form
        <3>2. forms' = [forms EXCEPT ![f] = opened]
            BY <2>1 DEF OpenForm
        <3> HIDE DEF opened
        <3> QED
            BY <3>1, <3>2
    <2>2. CASE PickAccent(f, accent)
        <3>1. PICK old \in Form : old = forms[f]
            BY <1>1
        <3> DEFINE tapped == [open |-> old.open, player |-> old.player, accent |-> accent,
                              tapped |-> TRUE, stale |-> old.stale]
        <3>2. tapped = [old EXCEPT !.accent = accent, !.tapped = TRUE]
            BY FormFieldsChange
        <3>3. forms' = [forms EXCEPT ![f] = tapped]
            BY <1>1, <2>2, <3>1, <3>2 DEF PickAccent
        <3>4. tapped \in Form /\ tapped.tapped
            BY DEF Form
        <3> HIDE DEF tapped
        <3> QED
            BY <3>3, <3>4
    <2>3. CASE CloseForm(f)
        <3>1. NoForm \in Form /\ ~NoForm.open
            BY DEF NoForm, Form
        <3>2. forms' = [forms EXCEPT ![f] = NoForm]
            BY <2>3 DEF CloseForm
        <3> QED
            BY <3>1, <3>2
    <2> QED
        BY <2>1, <2>2, <2>3
<1>6. TypeOK'
    BY <1>1, <1>2, <1>5 DEF TypeOK
<1>7. FormsAreFresh'
    <2>1. forms'[f] = form /\ \A g \in Phone \ {f} : forms'[g] = forms[g]
        BY <1>1, <1>5
    <2>2. ASSUME NEW g \in Phone, NEW q \in {0} \cup DOMAIN players, forms'[g].player = q,
                 forms'[g].open, ~forms'[g].stale, ~forms'[g].tapped
          PROVE  forms'[g].accent = Offered(q)
        <3>1. CASE g = f
            BY <1>5, <2>1, <2>2, <3>1
        <3>2. CASE g # f
            BY <2>1, <2>2, <3>2 DEF CInv, FormsAreFresh
        <3> QED
            BY <3>1, <3>2
    <2> QED
        BY <1>2, <1>3, <2>2, Zenon DEF FormsAreFresh
<1>8. ActiveNamesDiffer' /\ FewPlayers' /\ SharedColoursAreExplained'
    BY <1>2 DEF NInv, CInv, FewPlayers, ActiveNamesDiffer, SharedColoursAreExplained,
                SameColour, ActivePlayers
<1> QED
    BY <1>6, <1>7, <1>8 DEF NInv, CInv

(* Somebody whose colour was chosen, or offered too late, may share it.    *)
LEMMA Recoloured ==
    ASSUME TypeOK, NEW p, NEW chosen \in BOOLEAN, NEW late \in BOOLEAN, Recolour(p, chosen, late)
    PROVE  /\ picked' \subseteq picked \cup {p} /\ outdated' \subseteq outdated \cup {p}
           /\ (picked \cup outdated) \ {p} \subseteq picked' \cup outdated'
           /\ chosen \/ late => p \in picked' \cup outdated'
BY DEF Recolour

(* A player added under a name that is free, with a colour that is picked, *)
(* spare, or from a sheet that was behind.                                 *)
LEMMA CreateKeepsInvariants ==
    ASSUME NInv, CInv, NEW name \in Spelling, NEW accent \in Accent \cup {NoAccent, Unset},
           NEW chosen \in BOOLEAN, NEW late \in BOOLEAN,
           Accounted(accent, chosen, late, LeastHeld(0)),
           CreatePlayer(name, accent, chosen, late)
    PROVE  NInv' /\ CInv'
<1> DEFINE new == Len(players) + 1
           given == IF accent = Unset THEN LeastHeld(0) ELSE accent
           added == [name |-> name, accent |-> given, archived |-> FALSE]
<1>1. TypeOK
    BY DEF NInv
<1>2. given \in Accent \cup {NoAccent}
    BY <1>1, LeastHeldIsAColour
<1>3. players' = Append(players, added)
    BY DEF CreatePlayer
<1> HIDE DEF added
<1>4. added \in Player /\ ~added.archived /\ added.name = name /\ added.accent = given
    BY <1>2 DEF added, Player
<1>5. /\ Len(players) \in Nat /\ DOMAIN players = 1..Len(players)
      /\ DOMAIN players' = 1..new /\ players' \in Seq(Player)
      /\ players'[new] = added
      /\ \A p \in 1..Len(players) : players'[p] = players[p]
    BY <1>1, <1>3, <1>4 DEF TypeOK
<1>6. ActivePlayers(players') = ActivePlayers(players) \cup {new}
    BY <1>4, <1>5 DEF ActivePlayers
<1>7. new \notin DOMAIN players /\ ActivePlayers(players) \subseteq DOMAIN players
    BY <1>5 DEF ActivePlayers
<1>8. /\ picked' \subseteq picked \cup {new} /\ outdated' \subseteq outdated \cup {new}
      /\ (picked \cup outdated) \ {new} \subseteq picked' \cup outdated'
      /\ chosen \/ late => new \in picked' \cup outdated'
    <2>1. PICK n : n = new
        OBVIOUS
    <2>2. Recolour(n, chosen, late)
        BY <2>1 DEF CreatePlayer
    <2>3. /\ picked' \subseteq picked \cup {n} /\ outdated' \subseteq outdated \cup {n}
          /\ (picked \cup outdated) \ {n} \subseteq picked' \cup outdated'
          /\ chosen \/ late => n \in picked' \cup outdated'
        BY <2>2 DEF Recolour
    <2> HIDE DEF new
    <2> QED
        BY <2>1, <2>3
<1>9. /\ crowded' \in BOOLEAN
      /\ ~crowded' => ~crowded /\ ~(Cardinality(ActivePlayers(players')) > AccentCount)
    BY Zenon DEF CreatePlayer, Overflows
<1>10. forms' \in [Phone -> Form'] /\ FormsAreFresh'
    BY <1>1, <1>5, FormsLeftBehind DEF CInv, CreatePlayer
<1>11. TypeOK'
    <2>1. picked' \subseteq DOMAIN players' /\ outdated' \subseteq DOMAIN players'
        BY <1>1, <1>5, <1>8 DEF TypeOK
    <2> QED
        BY <1>5, <1>9, <1>10, <2>1, Zenon DEF TypeOK
<1>12. ActiveNamesDiffer'
    <2>1. \A p \in ActivePlayers(players) : Fold[players[p].name] # Fold[name]
        BY <1>5 DEF CreatePlayer, RejectDuplicate, ActivePlayers
    <2> QED
        BY <1>4, <1>5, <1>6, <2>1 DEF NInv, ActiveNamesDiffer, ActivePlayers
<1>13. /\ Cardinality(ActivePlayers(players')) = Cardinality(ActivePlayers(players)) + 1
       /\ Cardinality(ActivePlayers(players)) \in Nat
    BY <1>1, <1>6, <1>7, ActivePlayersAreCounted, FS_AddElement
<1>14. FewPlayers'
    BY <1>9, <1>13, SetupAssumption DEF FewPlayers
<1>15. SharedColoursAreExplained'
    <2> SUFFICES ASSUME ~crowded', NEW p \in DOMAIN players', NEW q \in DOMAIN players',
                        SameColour(p, q)'
                 PROVE  {p, q} \cap (picked' \cup outdated') # {}
        BY DEF SharedColoursAreExplained
    <2>1. CASE p # new /\ q # new
        <3>1. p \in DOMAIN players /\ q \in DOMAIN players
            BY <1>5, <2>1
        <3>2. SameColour(p, q)
            BY <1>5, <1>6, <2>1, <3>1 DEF SameColour
        <3>3. {p, q} \cap (picked \cup outdated) # {}
            BY <1>9, <3>1, <3>2 DEF CInv, SharedColoursAreExplained
        <3> QED
            BY <1>8, <2>1, <3>3
    <2>2. ASSUME NEW other \in ActivePlayers(players), players[other].accent = given
          PROVE  new \in picked' \cup outdated'
        <3>1. Cardinality(ActivePlayers(players)) < AccentCount
            BY <1>9, <1>13, SetupAssumption
        <3>2. ActivePlayers(players) \ {0} = ActivePlayers(players) /\ other # 0
            BY <1>5 DEF ActivePlayers
        <3>3. HeldBy(LeastHeld(0), 0) = {}
            BY <1>1, <3>1, <3>2, LeastHeldIsFree
        <3>4. given # LeastHeld(0)
            BY <2>2, <3>2, <3>3 DEF HeldBy
        <3> QED
            BY <1>8, <3>4 DEF Accounted
    <2>3. CASE p = new \/ q = new
        <3>1. PICK other \in {p, q} : other # new /\ other \in ActivePlayers(players')
            BY DEF SameColour
        <3>2. other \in ActivePlayers(players) /\ players'[other] = players[other]
            BY <1>5, <1>6, <1>7, <3>1
        <3>3. players'[other].accent = given
            BY <1>4, <1>5, <2>3, <3>1 DEF SameColour
        <3>4. new \in picked' \cup outdated'
            BY <2>2, <3>2, <3>3
        <3> QED
            BY <2>3, <3>4
    <2> QED
        BY <2>1, <2>3
<1> QED
    BY <1>10, <1>11, <1>12, <1>14, <1>15 DEF NInv, CInv

(* A player renamed, or given another colour.                              *)
LEMMA UpdateKeepsInvariants ==
    ASSUME NInv, CInv, NEW p \in DOMAIN players, NEW name \in Spelling,
           NEW accent \in Accent \cup {NoAccent, Unset},
           NEW chosen \in BOOLEAN, NEW late \in BOOLEAN,
           Accounted(accent, chosen, late, Offered(p)),
           UpdatePlayer(p, name, accent, chosen, late)
    PROVE  NInv' /\ CInv'
<1> DEFINE given == IF accent = Unset THEN players[p].accent ELSE accent
           changed == [name |-> name, accent |-> given, archived |-> players[p].archived]
<1>1. players \in Seq(Player) /\ players[p] \in Player /\ TypeOK
    BY DEF NInv, TypeOK
<1>2. changed = [[players[p] EXCEPT !.name = name] EXCEPT !.accent = given]
    <2> DEFINE named == [players[p] EXCEPT !.name = name]
    <2>1. named = [name |-> name, accent |-> players[p].accent, archived |-> players[p].archived]
        BY <1>1, OneFieldChanges
    <2> HIDE DEF named
    <2>2. named \in Player
        BY <1>1, <2>1 DEF Player
    <2>3. [named EXCEPT !.accent = given]
            = [name |-> named.name, accent |-> given, archived |-> named.archived]
        BY <2>2, OneFieldChanges
    <2> QED
        BY <2>1, <2>3 DEF named
<1>3. players' = [players EXCEPT ![p] = changed]
    BY <1>1, <1>2 DEF UpdatePlayer
<1>4. changed \in Player /\ changed.accent = given
    BY <1>1 DEF Player
<1>5. /\ DOMAIN players' = DOMAIN players
      /\ \A q \in DOMAIN players : players'[q] = IF q = p THEN changed ELSE players[q]
    BY <1>1, <1>3
<1>6. ActivePlayers(players') = ActivePlayers(players)
    BY <1>5 DEF ActivePlayers
<1>7. players' \in Seq(Player)
    <2> HIDE DEF changed
    <2> QED
        BY <1>1, <1>3, <1>4
<1>8. \/ given = players[p].accent /\ UNCHANGED <<picked, outdated>>
      \/ given # players[p].accent /\ Recolour(p, chosen, late)
    BY <1>4, <1>5 DEF UpdatePlayer
<1>9. /\ (picked \cup outdated) \ {p} \subseteq picked' \cup outdated'
      /\ given = players[p].accent => picked' \cup outdated' = picked \cup outdated
      /\ given # players[p].accent /\ (chosen \/ late) => p \in picked' \cup outdated'
      /\ picked' \subseteq picked \cup {p} /\ outdated' \subseteq outdated \cup {p}
    <2> HIDE DEF given
    <2>1. CASE given = players[p].accent
        BY <1>8, <2>1
    <2>2. CASE given # players[p].accent
        <3>1. Recolour(p, chosen, late)
            BY <1>8, <2>2
        <3> QED
            BY <1>1, <2>2, <3>1, Recoloured, Zenon
    <2> QED
        BY <2>1, <2>2
<1>10. forms' \in [Phone -> Form'] /\ FormsAreFresh'
    BY <1>1, <1>5, <1>7, FormsLeftBehind DEF CInv, UpdatePlayer
<1>11. TypeOK'
    <2>1. picked' \subseteq DOMAIN players' /\ outdated' \subseteq DOMAIN players'
        BY <1>1, <1>5, <1>9 DEF TypeOK
    <2>2. crowded' \in BOOLEAN
        BY <1>1, Zenon DEF TypeOK, UpdatePlayer
    <2> QED
        BY <1>7, <1>10, <2>1, <2>2, Zenon DEF TypeOK
<1>12. ActiveNamesDiffer'
    <2>1. \A q \in ActivePlayers(players) : q # p => Fold[players[q].name] # Fold[name]
        BY DEF UpdatePlayer, RejectDuplicate
    <2> QED
        BY <1>5, <1>6, <2>1 DEF NInv, ActiveNamesDiffer, ActivePlayers
<1>13. FewPlayers'
    BY <1>6 DEF CInv, FewPlayers, UpdatePlayer
<1>14. SharedColoursAreExplained'
    <2> SUFFICES ASSUME ~crowded, NEW q \in DOMAIN players, NEW r \in DOMAIN players,
                        SameColour(q, r)'
                 PROVE  {q, r} \cap (picked' \cup outdated') # {}
        BY <1>5 DEF SharedColoursAreExplained, UpdatePlayer
    <2>1. CASE given = players[p].accent \/ (q # p /\ r # p)
        <3>1. SameColour(q, r)
            BY <1>4, <1>5, <1>6, <2>1 DEF SameColour
        <3>2. {q, r} \cap (picked \cup outdated) # {}
            BY <3>1 DEF CInv, SharedColoursAreExplained
        <3> HIDE DEF given
        <3> QED
            BY <1>9, <2>1, <3>2
    <2>2. ASSUME given # players[p].accent, given # NoAccent, p \in ActivePlayers(players),
                 NEW other \in ActivePlayers(players), other # p, players[other].accent = given
          PROVE  p \in picked' \cup outdated'
        <3>1. Cardinality(ActivePlayers(players) \ {p}) < AccentCount
            <4>1. /\ Cardinality(ActivePlayers(players) \ {p})
                       = Cardinality(ActivePlayers(players)) - 1
                  /\ Cardinality(ActivePlayers(players)) \in Nat
                BY <1>1, <2>2, ActivePlayersAreCounted, FS_RemoveElement
            <4> QED
                BY <4>1, SetupAssumption DEF CInv, FewPlayers
        <3>2. HeldBy(LeastHeld(p), p) = {}
            BY <1>1, <3>1, LeastHeldIsFree
        <3>3. given # LeastHeld(p)
            BY <2>2, <3>2 DEF HeldBy
        <3>4. given # Offered(p)
            BY <2>2, <3>3 DEF Offered
        <3>5. accent # Unset /\ given = accent
            BY <2>2
        <3>6. chosen \/ late
            BY <3>4, <3>5 DEF Accounted
        <3> HIDE DEF given
        <3> QED
            BY <1>9, <2>2, <3>6
    <2>3. CASE given # players[p].accent /\ (q = p \/ r = p)
        <3>1. PICK other \in {q, r} : other # p /\ other \in ActivePlayers(players)
            BY <1>6 DEF SameColour
        <3>2. p \in ActivePlayers(players) /\ players'[p].accent = given
            BY <1>4, <1>5, <1>6, <2>3 DEF SameColour
        <3>3. given # NoAccent /\ players[other].accent = given
            BY <1>5, <2>3, <3>1, <3>2 DEF SameColour
        <3> QED
            BY <2>2, <2>3, <3>1, <3>2, <3>3
    <2> HIDE DEF given
    <2> QED
        BY <2>1, <2>3
<1> QED
    BY <1>10, <1>11, <1>12, <1>13, <1>14 DEF NInv, CInv

(* A player archived gives the name up.                                    *)
LEMMA ArchiveKeepsInvariants ==
    ASSUME NInv, CInv, NEW p \in DOMAIN players, ArchivePlayer(p)
    PROVE  NInv' /\ CInv'
<1> DEFINE changed == [name |-> players[p].name, accent |-> players[p].accent,
                       archived |-> TRUE]
<1>1. players \in Seq(Player) /\ players[p] \in Player /\ TypeOK
    BY DEF NInv, TypeOK
<1>2. changed = [players[p] EXCEPT !.archived = TRUE]
    BY <1>1, OneFieldChanges, Zenon
<1>3. players' = [players EXCEPT ![p] = changed]
    BY <1>1, <1>2 DEF ArchivePlayer
<1>4. changed \in Player
    BY <1>1 DEF Player
<1>5. /\ DOMAIN players' = DOMAIN players
      /\ \A q \in DOMAIN players : players'[q] = IF q = p THEN changed ELSE players[q]
    BY <1>1, <1>3
<1>6. ActivePlayers(players') = ActivePlayers(players) \ {p}
    BY <1>5 DEF ActivePlayers
<1>7. players' \in Seq(Player)
    <2> HIDE DEF changed
    <2> QED
        BY <1>1, <1>3, <1>4
<1>8. forms' \in [Phone -> Form'] /\ FormsAreFresh'
    BY <1>1, <1>5, <1>7, FormsLeftBehind DEF CInv, ArchivePlayer
<1>9. TypeOK'
    <2>1. picked' \subseteq DOMAIN players' /\ outdated' \subseteq DOMAIN players'
        BY <1>1, <1>5, Zenon DEF TypeOK, ArchivePlayer
    <2>2. crowded' \in BOOLEAN
        BY <1>1, Zenon DEF TypeOK, ArchivePlayer
    <2> QED
        BY <1>7, <1>8, <2>1, <2>2, Zenon DEF TypeOK
<1>10. ActiveNamesDiffer'
    BY <1>5, <1>6 DEF NInv, ActiveNamesDiffer, ActivePlayers
<1>11. FewPlayers'
    <2>1. Cardinality(ActivePlayers(players')) <= Cardinality(ActivePlayers(players))
        BY <1>1, <1>6, ActivePlayersAreCounted, FS_Subset
    <2>2. Cardinality(ActivePlayers(players')) \in Nat
        BY <1>1, <1>6, ActivePlayersAreCounted, FS_Subset, FS_CardinalityType
    <2> QED
        BY <1>1, <2>1, <2>2, ActivePlayersAreCounted, SetupAssumption
        DEF CInv, FewPlayers, ArchivePlayer
<1>12. SharedColoursAreExplained'
    <2>1. \A q, r \in DOMAIN players : SameColour(q, r)' => SameColour(q, r)
        BY <1>5, <1>6 DEF SameColour
    <2> QED
        BY <1>5, <2>1 DEF CInv, SharedColoursAreExplained, ArchivePlayer
<1> QED
    BY <1>8, <1>9, <1>10, <1>11, <1>12 DEF NInv, CInv

(* So every step keeps both.                                               *)
LEMMA NextKeepsInvariants == (NInv /\ CInv) /\ [Next]_vars => (NInv /\ CInv)'
<1> SUFFICES ASSUME NInv, CInv, [Next]_vars PROVE NInv' /\ CInv'
    OBVIOUS
<1>1. 1 \in Accent /\ TypeOK /\ FormsAreFresh
    BY SetupAssumption DEF Accent, NInv, CInv
<1> QED
    BY <1>1, FewActionsChangePlayers, OthersKeepInvariants, CreateKeepsInvariants,
       UpdateKeepsInvariants, ArchiveKeepsInvariants, FormsKeepInvariants
-----------------------------------------------------------------------------
(* Whatever is added, renamed and archived, and in whatever order, no two  *)
(* active players have the same name.                                      *)
THEOREM NamesStayApart == Spec => []ActiveNamesDiffer
<1>1. NInv /\ CInv => ActiveNamesDiffer
    BY DEF NInv
<1> QED
    BY <1>1, InitEstablishesInvariants, NextKeepsInvariants, PTL DEF Spec

(* The colour dealt to a new player, or offered by a sheet that is up to   *)
(* date, is free while there is one to give: two players share one only    *)
(* where somebody chose it or a sheet was sent after its list had changed. *)
THEOREM SharedColoursHaveAReason == Spec => []SharedColoursAreExplained
<1>1. NInv /\ CInv => SharedColoursAreExplained
    BY DEF CInv
<1> QED
    BY <1>1, InitEstablishesInvariants, NextKeepsInvariants, PTL DEF Spec
-----------------------------------------------------------------------------
(* The history: what its reader has not been shown yet is still below.     *)
Match == [teams : Lineups, at : Clock, status : {"in_progress", "complete", "abandoned"}]

IsReader(r) == r = [wanted |-> r.wanted, offset |-> r.offset, began |-> r.began, seen |-> r.seen,
                    pager |-> r.pager, more |-> r.more, lost |-> r.lost]

Unshown(r) == r.began \ r.seen

HInv ==
    /\ matches \in Seq(Match)
    /\ IsReader(reader) /\ reader.offset \in Nat
    /\ ~reader.lost =>
          \A m \in Unshown(reader) :
              /\ m \in Listing(reader.wanted)
              /\ Above(reader.wanted, m) >= reader.offset + PageSize
    /\ NothingIsSkipped

(* A match of a listing has fewer rows above it than the listing has.      *)
LEMMA RowsAreCounted ==
    ASSUME matches \in Seq(Match), NEW wanted, NEW m
    PROVE  /\ IsFiniteSet(Listing(wanted)) /\ Cardinality(Listing(wanted)) \in Nat
           /\ IsFiniteSet({n \in Listing(wanted) : Newer(n, m)})
           /\ Above(wanted, m) \in Nat
           /\ m \in Listing(wanted) => Above(wanted, m) < Cardinality(Listing(wanted))
<1> DEFINE rows  == Listing(wanted)
           above == {n \in rows : Newer(n, m)}
<1>1. IsFiniteSet(rows) /\ Cardinality(rows) \in Nat
    <2>1. rows \subseteq 1..Len(matches) /\ Len(matches) \in Nat
        BY DEF Listing
    <2>2. IsFiniteSet(1..Len(matches))
        BY <2>1, FS_Interval
    <2> QED
        BY <2>1, <2>2, FS_Subset, FS_CardinalityType
<1>2. IsFiniteSet(above) /\ Cardinality(above) \in Nat
    <2> HIDE DEF rows
    <2> QED
        BY <1>1, FS_Subset, FS_CardinalityType
<1>3. ASSUME m \in rows
      PROVE  Cardinality(above) < Cardinality(rows)
    <2>1. m \notin above
        <3>1. m \in 1..Len(matches) /\ matches[m] \in Match
            BY <1>3 DEF Listing
        <3>2. matches[m].at \in Nat /\ m \in Nat
            <4>1. matches[m].at \in Clock /\ m \in Nat
                BY <3>1 DEF Match
            <4>2. Clock \subseteq Nat
                BY SetupAssumption
            <4> QED
                BY <4>1, <4>2
        <3> QED
            BY <3>2 DEF Newer
    <2>2. above \subseteq rows /\ above # rows
        BY <1>3, <2>1
    <2> HIDE DEF above, rows
    <2> QED
        BY <1>1, <1>2, <2>2, FS_Subset
<1> QED
    BY <1>1, <1>2, <1>3 DEF Above

(* A listing that only gains rows pushes the old ones down.                *)
LEMMA RowsMoveDown ==
    ASSUME matches \in Seq(Match), matches' \in Seq(Match), NEW wanted, NEW m,
           m \in DOMAIN matches,
           Listing(wanted) \subseteq Listing(wanted)',
           \A n \in DOMAIN matches : matches'[n].at = matches[n].at
    PROVE  Above(wanted, m) <= Above(wanted, m)'
<1> DEFINE above == {n \in Listing(wanted) : Newer(n, m)}
           later == {n \in Listing(wanted)' : Newer(n, m)'}
<1>1. above \subseteq later
    BY DEF Listing, Newer
<1>2. IsFiniteSet(later)
    <2>1. Listing(wanted)' \subseteq 1..Len(matches') /\ Len(matches') \in Nat
        BY DEF Listing
    <2>2. IsFiniteSet(1..Len(matches'))
        BY <2>1, FS_Interval
    <2> QED
        BY <2>1, <2>2, FS_Subset
<1>3. Cardinality(above) <= Cardinality(later)
    <2> HIDE DEF above, later
    <2> QED
        BY <1>1, <1>2, FS_Subset
<1> QED
    BY <1>3 DEF Above

(* A page shown keeps the invariant: what is unshown lies below it.        *)
LEMMA ShownPageKeeps ==
    ASSUME matches \in Seq(Match), matches' = matches, NEW wanted, NEW offset \in Nat,
           NEW began, NEW seen, NEW lost,
           ~lost => \A m \in began \ seen :
                        m \in Listing(wanted) /\ Above(wanted, m) >= offset,
           ShowPage(wanted, offset, began, seen, lost)
    PROVE  HInv'
<1>1. /\ reader'.wanted = wanted /\ reader'.offset = offset /\ reader'.began = began
      /\ reader'.seen = seen \cup Page(wanted, offset)
      /\ IsReader(reader')
    BY DEF ShowPage, IsReader
<1>2. reader'.lost = lost /\ reader'.more = HasNext(wanted, offset)
    BY DEF ShowPage
<1>3. ASSUME ~lost, NEW m \in Unshown(reader')
      PROVE  m \in Listing(wanted) /\ Above(wanted, m) >= offset + PageSize
    <2>1. m \in began \ seen /\ m \notin Page(wanted, offset)
        BY <1>1 DEF Unshown
    <2>2. m \in Listing(wanted) /\ Above(wanted, m) >= offset
        BY <1>3, <2>1
    <2>3. Above(wanted, m) \notin offset..offset + PageSize - 1
        BY <2>1, <2>2 DEF Page
    <2>4. Above(wanted, m) \in Nat
        BY RowsAreCounted
    <2> QED
        BY <2>2, <2>3, <2>4, SetupAssumption
<1>4. ASSUME ~lost, ~HasNext(wanted, offset)
      PROVE  Unshown(reader') = {}
    <2> SUFFICES ASSUME NEW m \in Unshown(reader') PROVE FALSE
        OBVIOUS
    <2>1. /\ Above(wanted, m) >= offset + PageSize
          /\ Above(wanted, m) < Cardinality(Listing(wanted))
          /\ Above(wanted, m) \in Nat /\ Cardinality(Listing(wanted)) \in Nat
        BY <1>3, <1>4, RowsAreCounted
    <2> QED
        BY <1>4, <2>1, SetupAssumption DEF HasNext
<1>5. /\ Listing(wanted)' = Listing(wanted)
      /\ \A m : Above(wanted, m)' = Above(wanted, m)
    BY DEF Listing, Above, Newer
<1>6. ~reader'.lost => \A m \in Unshown(reader') :
          m \in Listing(reader.wanted)' /\ Above(reader.wanted, m)' >= reader'.offset + PageSize
    BY <1>1, <1>2, <1>3, <1>5 DEF Listing, Above, Newer
<1>7. NothingIsSkipped'
    BY <1>1, <1>2, <1>4 DEF NothingIsSkipped, Unshown
<1> QED
    BY <1>1, <1>6, <1>7 DEF HInv, Unshown

(* While no page is turned the reader's listing only gains rows, or he has *)
(* lost one.                                                               *)
LEMMA ListingGrows ==
    ASSUME HInv, matches' \in Seq(Match),
           \A m \in DOMAIN matches : m \in DOMAIN matches' /\ matches'[m].at = matches[m].at,
           NEW wanted, wanted = reader.wanted,
           NEW lost, reader' = [reader EXCEPT !.lost = lost],
           ~lost => ~reader.lost /\ Listing(wanted) \subseteq Listing(wanted)'
    PROVE  HInv'
<1>1. /\ reader'.wanted = wanted /\ reader'.offset = reader.offset
      /\ Unshown(reader') = Unshown(reader) /\ reader'.more = reader.more
      /\ reader'.began = reader.began /\ reader'.seen = reader.seen
      /\ reader'.lost = lost /\ IsReader(reader')
    BY DEF HInv, IsReader, Unshown
<1>2. ASSUME ~lost, NEW m \in Unshown(reader)
      PROVE  m \in Listing(wanted)' /\ Above(wanted, m)' >= reader.offset + PageSize
    <2>1. /\ m \in Listing(wanted) /\ Above(wanted, m) >= reader.offset + PageSize
          /\ m \in DOMAIN matches
        BY <1>2 DEF HInv, Listing
    <2>2. Above(wanted, m) <= Above(wanted, m)'
        BY <1>2, <2>1, RowsMoveDown DEF HInv
    <2>3. Above(wanted, m) \in Nat /\ Above(wanted, m)' \in Nat
        <3>1. Above(wanted, m) \in Nat
            BY RowsAreCounted DEF HInv
        <3>2. Listing(wanted)' \subseteq 1..Len(matches') /\ Len(matches') \in Nat
            BY DEF Listing
        <3>3. IsFiniteSet(1..Len(matches'))
            <4>1. PICK n \in Nat : n = Len(matches')
                BY <3>2
            <4>2. IsFiniteSet(1..n)
                BY FS_Interval
            <4> QED
                BY <4>1, <4>2
        <3>4. {n \in Listing(wanted)' : Newer(n, m)'} \subseteq 1..Len(matches')
            BY <3>2
        <3>5. Cardinality({n \in Listing(wanted)' : Newer(n, m)'}) \in Nat
            BY <3>3, <3>4, FS_Subset, FS_CardinalityType
        <3> QED
            BY <3>1, <3>5 DEF Above
    <2> QED
        BY <1>2, <2>1, <2>2, <2>3, SetupAssumption DEF HInv
<1>3. NothingIsSkipped'
    BY <1>1 DEF HInv, NothingIsSkipped
<1>4. \A m \in Unshown(reader') : ~reader'.lost =>
          m \in Listing(reader.wanted)' /\ Above(reader.wanted, m)' >= reader'.offset + PageSize
    BY <1>1, <1>2 DEF Listing, Above, Newer
<1> QED
    BY <1>1, <1>3, <1>4 DEF HInv, Unshown

(* A match changes its status and nothing else.                            *)
LEMMA StatusChanges ==
    ASSUME HInv, NEW m \in DOMAIN matches, NEW status \in {"in_progress", "complete", "abandoned"},
           SetStatus(m, status)
    PROVE  HInv'
<1>1. matches \in Seq(Match) /\ m \in 1..Len(matches) /\ matches[m] \in Match
    BY DEF HInv
<1> DEFINE changed == [teams |-> matches[m].teams, at |-> matches[m].at, status |-> status]
<1>2. changed \in Match /\ changed.at = matches[m].at /\ changed.status = status
    BY <1>1 DEF Match
<1>3. matches' = [matches EXCEPT ![m] = changed]
    <2>1. changed = [matches[m] EXCEPT !.status = status]
        BY <1>1 DEF Match
    <2> HIDE DEF changed
    <2> QED
        BY <2>1 DEF SetStatus
<1> HIDE DEF changed
<1>4. /\ matches' \in Seq(Match) /\ DOMAIN matches' = DOMAIN matches
      /\ \A n \in DOMAIN matches : matches'[n] = IF n = m THEN changed ELSE matches[n]
    BY <1>1, <1>2, <1>3
<1> DEFINE lost == \/ reader.lost
                   \/ /\ StatusWhere(reader.wanted, matches[m].status)
                      /\ ~StatusWhere(reader.wanted, status)
<1>5. reader' = [reader EXCEPT !.lost = lost]
    BY DEF SetStatus
<1>6. PICK wanted : wanted = reader.wanted
    OBVIOUS
<1>7. ASSUME ~lost
      PROVE  ~reader.lost /\ Listing(wanted) \subseteq Listing(wanted)'
    BY <1>2, <1>4, <1>6, <1>7 DEF Listing
<1> HIDE DEF lost
<1> QED
    BY <1>2, <1>4, <1>5, <1>6, <1>7, ListingGrows

(* Every step keeps each reader of the history in its place in it.         *)
LEMMA HistoryKeepsItsPlace ==
    ASSUME HInv, [Next]_vars
    PROVE  HInv'
<1>1. CASE UNCHANGED <<matches, reader>>
    BY <1>1 DEF HInv, IsReader, Unshown, Listing, Above, Newer, NothingIsSkipped
<1>2. CASE \/ UNCHANGED vars
           \/ \E name \in Spelling, accent \in Accent \cup {Unset} :
                 CreatePlayer(name, accent, accent # Unset, FALSE)
           \/ \E p \in DOMAIN players, name \in Spelling,
                 accent \in Accent \cup {NoAccent, Unset} :
                 UpdatePlayer(p, name, accent, TRUE, FALSE)
           \/ \E p \in DOMAIN players : ArchivePlayer(p)
           \/ \E f \in Phone, p \in {0} \cup DOMAIN players : OpenForm(f, p)
           \/ \E f \in Phone, accent \in Accent : PickAccent(f, accent)
           \/ \E f \in Phone, name \in Spelling : SubmitForm(f, name)
           \/ \E f \in Phone : CloseForm(f)
    <2>1. UNCHANGED <<matches, reader>>
        BY <1>2, Zenon DEF CreatePlayer, UpdatePlayer, ArchivePlayer, OpenForm, PickAccent,
                           SubmitForm, CloseForm, vars
    <2> QED
        BY <1>1, <2>1
<1>3. ASSUME NEW teams \in Lineups, NEW at \in Clock, CreateMatch(teams, at)
      PROVE  HInv'
    <2> DEFINE new == [teams |-> teams, at |-> at, status |-> "in_progress"]
    <2>1. new \in Match /\ matches \in Seq(Match)
        BY DEF Match, HInv
    <2>2. matches' = Append(matches, new) /\ reader' = reader
        BY <1>3 DEF CreateMatch
    <2> HIDE DEF new
    <2>3. /\ matches' \in Seq(Match)
          /\ \A m \in DOMAIN matches : m \in DOMAIN matches' /\ matches'[m] = matches[m]
        BY <2>1, <2>2
    <2>4. PICK wanted : wanted = reader.wanted
        OBVIOUS
    <2>5. PICK lost : lost = reader.lost
        OBVIOUS
    <2>6. reader' = [reader EXCEPT !.lost = lost]
        BY <2>2, <2>5 DEF HInv, IsReader
    <2>7. Listing(wanted) \subseteq Listing(wanted)'
        BY <2>3 DEF Listing
    <2> QED
        BY <2>3, <2>4, <2>5, <2>6, <2>7, ListingGrows
<1>4. ASSUME NEW m \in DOMAIN matches, AbandonMatch(m) \/ DecideMatch(m) \/ ReopenMatch(m)
      PROVE  HInv'
    BY <1>4, StatusChanges DEF AbandonMatch, DecideMatch, ReopenMatch
<1>5. ASSUME NEW wanted \in {AnyStatus, "complete", "abandoned"}, OpenHistory(wanted)
      PROVE  HInv'
    <2>1. ASSUME NEW m
          PROVE  Above(wanted, m) >= 0
        <3>1. Above(wanted, m) \in Nat
            BY RowsAreCounted DEF HInv
        <3> QED
            BY <3>1
    <2> QED
        BY <1>5, <2>1, ShownPageKeeps DEF OpenHistory, HInv
<1>6. CASE NextPage \/ PrevPage \/ RefetchPage
    <2>1. PICK offset \in {reader.offset + PageSize, PrevOffset, reader.offset} :
              ShowPage(reader.wanted, offset, reader.began, reader.seen, reader.lost)
        BY <1>6 DEF NextPage, PrevPage, RefetchPage
    <2>2. offset \in Nat /\ offset <= reader.offset + PageSize
        BY SetupAssumption DEF HInv, PrevOffset
    <2>3. matches' = matches
        BY <1>6 DEF NextPage, PrevPage, RefetchPage
    <2>4. ASSUME ~reader.lost, NEW m \in reader.began \ reader.seen
          PROVE  m \in Listing(reader.wanted) /\ Above(reader.wanted, m) >= offset
        <3>1. /\ m \in Listing(reader.wanted)
              /\ Above(reader.wanted, m) >= reader.offset + PageSize
              /\ Above(reader.wanted, m) \in Nat /\ reader.offset \in Nat
            BY <2>4, RowsAreCounted DEF HInv, Unshown
        <3> QED
            BY <2>2, <3>1, SetupAssumption
    <2>5. PICK wanted, began, seen, lost :
              /\ wanted = reader.wanted /\ began = reader.began /\ seen = reader.seen
              /\ lost = reader.lost
        OBVIOUS
    <2> QED
        BY <2>1, <2>2, <2>3, <2>4, <2>5, ShownPageKeeps DEF HInv
<1> QED
    BY <1>2, <1>3, <1>4, <1>5, <1>6 DEF Next

(* Pages are cut by offset from a listing that gains rows anywhere in it,  *)
(* for the clock may step back: turned to the last, they have shown every  *)
(* match that was there at the first, unless one left the listing.         *)
THEOREM PagesShowEverything == Spec => []NothingIsSkipped
<1>1. Init => HInv
    BY DEF Init, HInv, IsReader, Unshown, NothingIsSkipped
<1>2. HInv => NothingIsSkipped
    BY DEF HInv
<1> QED
    BY <1>1, <1>2, HistoryKeepsItsPlace, PTL DEF Spec
=============================================================================
