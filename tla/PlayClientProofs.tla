--------------------------- MODULE PlayClientProofs ---------------------------
(***************************************************************************)
(* What holds of any number of phones and taps, whatever the network       *)
(* loses, delays or answers out of order.                                  *)
(***************************************************************************)
EXTENDS PlayClient, FiniteSetTheorems, TLAPS

(* The records are whole: changing one field leaves the others.            *)
IsScreen(s) == s = [stage |-> s.stage, kind |-> s.kind, key |-> s.key, call |-> s.call]

IsCall(c) ==
    c = [id |-> c.id, phone |-> c.phone, kind |-> c.kind, key |-> c.key,
         stage |-> c.stage, live |-> c.live, reply |-> c.reply]

(* A dart under way carries the key of the tap it came from.               *)
CallsKeepTheirKey ==
    \A c \in calls : /\ IsCall(c)
                     /\ c.phone \in Phone
                     /\ c.kind = "dart" => c.key \in minted

(* So does one that may be tried again.                                    *)
ScreensKeepTheirKey ==
    /\ screen = [p \in Phone |-> screen[p]]
    /\ \A p \in Phone : /\ IsScreen(screen[p])
                        /\ screen[p].kind = "dart" => screen[p].key \in minted

(* A tap mints one key.                                                    *)
OneKeyPerTap == IsFiniteSet(minted) /\ taps = Cardinality(minted)

OncePerKey == darts \in Seq(minted) /\ IsInjective(darts)

IInv == CallsKeepTheirKey /\ ScreensKeepTheirKey /\ OneKeyPerTap /\ OncePerKey
-----------------------------------------------------------------------------
(* Before the first tap there are no darts and no keys.                    *)
LEMMA InitEstablishesIInv == Init => IInv
<1> SUFFICES ASSUME Init PROVE IInv
    OBVIOUS
<1>1. CallsKeepTheirKey
    BY DEF Init, CallsKeepTheirKey
<1>2. ScreensKeepTheirKey
    BY DEF Init, ScreensKeepTheirKey, IsScreen, Idle
<1>3. OneKeyPerTap
    BY FS_EmptySet DEF Init, OneKeyPerTap
<1>4. OncePerKey
    BY DEF Init, OncePerKey, IsInjective
<1> QED
    BY <1>1, <1>2, <1>3, <1>4 DEF IInv

(* A write made with a minted key keeps the keys right, in the fetches and *)
(* on the screen.                                                          *)
LEMMA MutateKeepsKeys ==
    ASSUME IInv, NEW p \in Phone, NEW kind, NEW key, Mutate(p, kind, key),
           kind = "dart" => key \in minted', minted \subseteq minted'
    PROVE  CallsKeepTheirKey' /\ ScreensKeepTheirKey'
<1>1. CallsKeepTheirKey'
    BY DEF IInv, CallsKeepTheirKey, IsCall, Mutate, Request
<1>2. ScreensKeepTheirKey'
    <2>1. screen' = [q \in Phone |-> screen'[q]]
        BY DEF IInv, ScreensKeepTheirKey, Mutate
    <2>2. \A q \in Phone : screen'[q] = IF q = p
                                        THEN [stage |-> "pending", kind |-> kind,
                                              key |-> key, call |-> FreshId]
                                        ELSE screen[q]
        BY DEF IInv, ScreensKeepTheirKey, Mutate
    <2> QED
        BY <2>1, <2>2 DEF IInv, ScreensKeepTheirKey, IsScreen
<1> QED
    BY <1>1, <1>2

(* The request of a dart that is answered is gone or still has its key.    *)
LEMMA ReplyKeepsKeys ==
    ASSUME IInv, NEW c \in calls, NEW reply, Reply(c, reply), minted' = minted
    PROVE  CallsKeepTheirKey'
<1>1. \A d \in calls' : d \in calls \/ d = [c EXCEPT !.stage = "answered", !.reply = reply]
    BY DEF Reply
<1>2. IsCall(c) /\ c.phone \in Phone /\ (c.kind = "dart" => c.key \in minted)
    BY DEF IInv, CallsKeepTheirKey
<1> DEFINE answered == [c EXCEPT !.stage = "answered"]
           d == [c EXCEPT !.stage = "answered", !.reply = reply]
<1>3. answered = [id |-> c.id, phone |-> c.phone, kind |-> c.kind, key |-> c.key,
                  stage |-> "answered", live |-> c.live, reply |-> c.reply]
    BY <1>2 DEF IsCall
<1>4. d = [answered EXCEPT !.reply = reply]
    OBVIOUS
<1>5. d = [id |-> c.id, phone |-> c.phone, kind |-> c.kind, key |-> c.key,
           stage |-> "answered", live |-> c.live, reply |-> reply]
    <2> HIDE DEF d, answered
    <2> QED
        BY <1>3, <1>4
<1> QED
    BY <1>1, <1>2, <1>5 DEF IInv, CallsKeepTheirKey, IsCall

(* A write that ended leaves a screen that knows nothing, or its own write.*)
LEMMA SettleKeepsKeys ==
    ASSUME IInv, NEW c \in calls, NEW after \in {Idle, FailedWrite(c.phone)},
           screen' = SettleAs(c, after), minted' = minted
    PROVE  ScreensKeepTheirKey'
<1> DEFINE p == c.phone
<1>1. p \in Phone
    BY DEF IInv, CallsKeepTheirKey
<1>2. IsScreen(after) /\ (after.kind = "dart" => after.key \in minted)
    <2>1. CASE after = Idle
        BY <2>1 DEF Idle, IsScreen
    <2>2. CASE after = FailedWrite(p)
        <3>1. IsScreen(screen[p]) /\ (screen[p].kind = "dart" => screen[p].key \in minted)
            BY <1>1 DEF IInv, ScreensKeepTheirKey
        <3>2. after = [stage |-> "failed", kind |-> screen[p].kind, key |-> screen[p].key,
                       call |-> 0]
            BY <2>2, <3>1 DEF FailedWrite, IsScreen
        <3> QED
            BY <3>1, <3>2 DEF IsScreen
    <2> QED
        BY <2>1, <2>2
<1>3. \/ screen' = screen
      \/ screen' = [screen EXCEPT ![p] = after]
    BY DEF SettleAs
<1> HIDE DEF p
<1> QED
    BY <1>1, <1>2, <1>3 DEF IInv, ScreensKeepTheirKey

(* The leg gains a dart that it did not hold.                              *)
LEMMA AppendKeepsDartsApart ==
    ASSUME OncePerKey, NEW key \in minted, key \notin Range(darts),
           darts' = Append(darts, key), minted' = minted
    PROVE  OncePerKey'
BY DEF OncePerKey, IsInjective, Range

(* Taking the last dart away leaves no key twice.                          *)
LEMMA RemoveKeepsDartsApart ==
    ASSUME OncePerKey, darts # <<>>,
           darts' = SubSeq(darts, 1, Len(darts) - 1), minted' = minted
    PROVE  OncePerKey'
BY DEF OncePerKey, IsInjective
-----------------------------------------------------------------------------
(* Every step of phones, network and server keeps each key to one dart.    *)
LEMMA NextKeepsIInv == IInv /\ [Next]_vars => IInv'
<1> SUFFICES ASSUME IInv, [Next]_vars PROVE IInv'
    OBVIOUS
<1> USE DEF IInv
<1>1. CASE UNCHANGED vars
    BY <1>1 DEF vars, CallsKeepTheirKey, ScreensKeepTheirKey, OneKeyPerTap, OncePerKey
<1>2. ASSUME NEW p \in Phone, TapDart(p) PROVE IInv'
    <2>1. FreshKey \in Key \ minted
        BY <1>2 DEF TapDart, FreshKey
    <2>2. CallsKeepTheirKey' /\ ScreensKeepTheirKey'
        BY <1>2, MutateKeepsKeys DEF TapDart
    <2>3. OneKeyPerTap'
        BY <1>2, <2>1, FS_AddElement DEF TapDart, OneKeyPerTap
    <2>4. OncePerKey'
        BY <1>2 DEF TapDart, OncePerKey
    <2> QED
        BY <2>2, <2>3, <2>4
<1>3. ASSUME NEW p \in Phone, TapUndo(p) PROVE IInv'
    <2>1. CallsKeepTheirKey' /\ ScreensKeepTheirKey'
        BY <1>3, MutateKeepsKeys DEF TapUndo
    <2> QED
        BY <1>3, <2>1 DEF TapUndo, OneKeyPerTap, OncePerKey
<1>4. ASSUME NEW p \in Phone, Retry(p) PROVE IInv'
    <2>1. CallsKeepTheirKey' /\ ScreensKeepTheirKey'
        BY <1>4, MutateKeepsKeys DEF Retry, ScreensKeepTheirKey
    <2> QED
        BY <1>4, <2>1 DEF Retry, OneKeyPerTap, OncePerKey
<1>5. ASSUME NEW p \in Phone, Leave(p) PROVE IInv'
    BY <1>5 DEF Leave, Idle, IsScreen, CallsKeepTheirKey, ScreensKeepTheirKey, OneKeyPerTap,
                OncePerKey
<1>6. ASSUME NEW p \in Phone, Refetch(p) PROVE IInv'
    BY <1>6 DEF Refetch, Request, IsCall, CallsKeepTheirKey, ScreensKeepTheirKey, OneKeyPerTap,
                OncePerKey
<1>7. ASSUME NEW c \in calls, ServeDart(c) PROVE IInv'
    <2>1. PICK reply : Reply(c, reply)
        BY <1>7 DEF ServeDart
    <2>2. CallsKeepTheirKey'
        BY <1>7, <2>1, ReplyKeepsKeys DEF ServeDart
    <2>3. OncePerKey'
        <3>1. c.key \in minted
            BY <1>7 DEF ServeDart, CallsKeepTheirKey
        <3>2. CASE c.key \in Range(darts)
            BY <1>7, <3>2 DEF ServeDart, OncePerKey
        <3>3. CASE c.key \notin Range(darts)
            BY <1>7, <3>1, <3>3, AppendKeepsDartsApart DEF ServeDart
        <3> QED
            BY <3>2, <3>3
    <2> QED
        BY <1>7, <2>2, <2>3 DEF ServeDart, ScreensKeepTheirKey, OneKeyPerTap
<1>8. ASSUME NEW c \in calls, ServeUndo(c) PROVE IInv'
    <2>1. PICK reply : Reply(c, reply)
        BY <1>8 DEF ServeUndo
    <2>2. CallsKeepTheirKey'
        BY <1>8, <2>1, ReplyKeepsKeys DEF ServeUndo
    <2>3. OncePerKey'
        BY <1>8, RemoveKeepsDartsApart DEF ServeUndo, OncePerKey
    <2> QED
        BY <1>8, <2>2, <2>3 DEF ServeUndo, ScreensKeepTheirKey, OneKeyPerTap
<1>9. ASSUME NEW c \in calls, ServeRead(c) \/ ServeNothing(c) PROVE IInv'
    <2>1. CallsKeepTheirKey'
        BY <1>9, ReplyKeepsKeys DEF ServeRead, ServeNothing
    <2> QED
        BY <1>9, <2>1 DEF ServeRead, ServeNothing, ScreensKeepTheirKey, OneKeyPerTap, OncePerKey
<1>10. ASSUME NEW c \in calls, Receive(c) PROVE IInv'
    <2>1. ScreensKeepTheirKey'
        BY <1>10, SettleKeepsKeys DEF Receive
    <2> QED
        BY <1>10, <2>1 DEF Receive, CallsKeepTheirKey, OneKeyPerTap, OncePerKey
<1>11. ASSUME NEW c \in calls, GiveUp(c) PROVE IInv'
    <2>1. ScreensKeepTheirKey'
        BY <1>11, SettleKeepsKeys DEF GiveUp
    <2>2. CallsKeepTheirKey'
        BY <1>11 DEF GiveUp, CallsKeepTheirKey, IsCall
    <2> QED
        BY <1>11, <2>1, <2>2 DEF GiveUp, OneKeyPerTap, OncePerKey
<1> QED
    BY <1>1, <1>2, <1>3, <1>4, <1>5, <1>6, <1>7, <1>8, <1>9, <1>10, <1>11 DEF Next, Serve
-----------------------------------------------------------------------------
(* Darts that differ in their keys are no more than the keys.              *)
LEMMA DartsAreNoMoreThanTaps == IInv => OneDartPerTap
<1> SUFFICES ASSUME IInv PROVE OneDartPerTap
    OBVIOUS
<1>1. darts \in Injection(1..Len(darts), minted) /\ Len(darts) \in Nat
    BY DEF IInv, OncePerKey, IsInjective, Injection
<1>2. Cardinality(1..Len(darts)) <= Cardinality(minted)
    BY <1>1, FS_Injection DEF IInv, OneKeyPerTap
<1>3. Cardinality(1..Len(darts)) = Len(darts)
    <2>1. Cardinality(1..Len(darts)) = IF 1 > Len(darts) THEN 0 ELSE Len(darts) - 1 + 1
        BY <1>1, FS_Interval
    <2> QED
        BY <1>1, <2>1
<1> QED
    BY <1>2, <1>3 DEF IInv, OneDartPerTap, OneKeyPerTap, OncePerKey

(* The leg never holds more darts than were tapped, nor one of them twice, *)
(* however many phones tap and try again, whatever is lost, handled late   *)
(* or answered twice.                                                      *)
THEOREM TapsAreRecordedOnce == Spec => []OneDartPerTap
<1>1. Init => IInv
    BY InitEstablishesIInv
<1>2. IInv /\ [Next]_vars => IInv'
    BY NextKeepsIInv
<1>3. IInv => OneDartPerTap
    BY DartsAreNoMoreThanTaps
<1> QED
    BY <1>1, <1>2, <1>3, PTL DEF Spec
-----------------------------------------------------------------------------
(* A phone that stays on the screen waits for one fetch at a time, the one *)
(* its screen is busy with.                                                *)
Waiting(c) == c.live /\ c.phone \notin Watched

OneFetchAtATime ==
    /\ \A c \in calls : Waiting(c) => Busy(c.phone) /\ screen[c.phone].call = c.id
    /\ \A c, d \in calls : Waiting(c) /\ Waiting(d) /\ c.phone = d.phone => c = d

(* What it is answered with is no older than what it paints.               *)
Answers(c) == c.stage = "answered" /\ c.reply \notin {Refusal, Unavailable}

AnswersAreNoOlder ==
    /\ commits \in Nat
    /\ painted = [p \in Phone |-> painted[p]]
    /\ \A p \in Phone \ Watched : painted[p].version \in Nat /\ painted[p].version <= commits
    /\ \A c \in calls : Waiting(c) /\ Answers(c) =>
          /\ c.reply.version \in painted[c.phone].version..commits

FInv == IInv /\ OneFetchAtATime /\ AnswersAreNoOlder

(* Before the first fetch no screen has an answer.                         *)
LEMMA InitEstablishesFInv == Init => FInv
BY InitEstablishesIInv DEF Init, FInv, OneFetchAtATime, AnswersAreNoOlder, Answer

(* A phone that writes was not busy: the fetch it starts is its only one.  *)
LEMMA MutateKeepsOneFetch ==
    ASSUME FInv, NEW p \in Phone, NEW kind, NEW key, ~Busy(p), Mutate(p, kind, key),
           commits' = commits, painted' = painted
    PROVE  OneFetchAtATime' /\ AnswersAreNoOlder'
<1> DEFINE new == Request(p, kind, key)
<1>1. calls' = calls \cup {new}
    BY DEF Mutate
<1>2. new.phone = p /\ new.id = FreshId /\ new.stage = "sent" /\ new.live
    BY DEF Request
<1>3. \A q \in Phone : screen'[q] = IF q = p
                                    THEN [stage |-> "pending", kind |-> kind,
                                          key |-> key, call |-> FreshId]
                                    ELSE screen[q]
    BY DEF FInv, IInv, ScreensKeepTheirKey, Mutate
<1>4. \A c \in calls : Waiting(c) => c.phone # p
    BY DEF FInv, OneFetchAtATime
<1> HIDE DEF new
<1>5. OneFetchAtATime'
    BY <1>1, <1>2, <1>3, <1>4
    DEF FInv, IInv, CallsKeepTheirKey, OneFetchAtATime, Waiting, Busy
<1>6. AnswersAreNoOlder'
    BY <1>1, <1>2 DEF FInv, AnswersAreNoOlder, Waiting, Answers
<1> QED
    BY <1>5, <1>6

(* The server answers with the version it has, or the one it makes.        *)
LEMMA ReplyKeepsOneFetch ==
    ASSUME FInv, NEW c \in calls, NEW reply, Reply(c, reply), c.stage = "sent",
           reply \in {Refusal, Unavailable} \/ reply.version = commits',
           commits' \in {commits, commits + 1},
           screen' = screen, painted' = painted
    PROVE  OneFetchAtATime' /\ AnswersAreNoOlder'
<1> DEFINE sent == [c EXCEPT !.stage = "answered"]
           answered == [c EXCEPT !.stage = "answered", !.reply = reply]
<1>1. IsCall(c) /\ c.phone \in Phone
    BY DEF FInv, IInv, CallsKeepTheirKey
<1>2. sent = [id |-> c.id, phone |-> c.phone, kind |-> c.kind, key |-> c.key,
              stage |-> "answered", live |-> c.live, reply |-> c.reply]
    BY <1>1 DEF IsCall
<1>3. answered = [sent EXCEPT !.reply = reply]
    OBVIOUS
<1> HIDE DEF sent, answered
<1>4. /\ answered.id = c.id /\ answered.phone = c.phone /\ answered.live = c.live
      /\ answered.reply = reply
    BY <1>2, <1>3
<1>5. calls' \subseteq (calls \ {c}) \cup {answered}
    BY DEF Reply, answered
<1>6. OneFetchAtATime'
    BY <1>4, <1>5 DEF FInv, OneFetchAtATime, Waiting, Busy
<1>7. AnswersAreNoOlder'
    BY <1>1, <1>4, <1>5 DEF FInv, AnswersAreNoOlder, Waiting, Answers, Refusal, Unavailable
<1> QED
    BY <1>6, <1>7

(* The fetch that ends was the only one its phone waited for.              *)
LEMMA EndKeepsOneFetch ==
    ASSUME FInv, NEW c \in calls, NEW after, c.live,
           \A d \in calls' : d.live => d \in calls \ {c},
           screen' = SettleAs(c, after), commits' = commits,
           painted' = painted \/ (c.stage = "answered" /\ painted' = Paint(c))
    PROVE  /\ OneFetchAtATime' /\ AnswersAreNoOlder'
           /\ \A p \in Phone \ Watched : painted'[p].version >= painted[p].version
<1>1. c.phone \in Phone
    BY DEF FInv, IInv, CallsKeepTheirKey
<1>2. \A d \in calls' : Waiting(d) => d \in calls /\ d.phone # c.phone
    BY DEF FInv, OneFetchAtATime, Waiting
<1>3. \A q \in Phone : q # c.phone => screen'[q] = screen[q] /\ painted'[q] = painted[q]
    BY <1>1 DEF FInv, IInv, ScreensKeepTheirKey, AnswersAreNoOlder, SettleAs, Paint
<1>4. \/ painted'[c.phone] = painted[c.phone]
      \/ Answers(c) /\ painted'[c.phone] = c.reply
    BY <1>1 DEF FInv, AnswersAreNoOlder, Paint, Answers
<1>5. painted' = [p \in Phone |-> painted'[p]]
    BY <1>1 DEF FInv, AnswersAreNoOlder, Paint
<1>6. c.phone \notin Watched =>
        /\ painted'[c.phone].version \in Nat
        /\ painted'[c.phone].version <= commits
        /\ painted'[c.phone].version >= painted[c.phone].version
    BY <1>1, <1>4 DEF FInv, AnswersAreNoOlder, Waiting
<1>7. \A d \in calls' : Waiting(d) => d.phone \in Phone
    BY <1>2 DEF FInv, IInv, CallsKeepTheirKey
<1>8. OneFetchAtATime'
    BY <1>2, <1>3, <1>7 DEF FInv, OneFetchAtATime, Waiting, Busy
<1>9. AnswersAreNoOlder'
    BY <1>2, <1>3, <1>5, <1>6, <1>7 DEF FInv, AnswersAreNoOlder, Waiting, Answers
<1> QED
    BY <1>3, <1>6, <1>8, <1>9 DEF FInv, AnswersAreNoOlder

(* Every step keeps the fetches in order, and paints no unwatched screen   *)
(* with an older answer than it shows.                                     *)
LEMMA NextKeepsFInv ==
    FInv /\ [Next]_vars =>
        FInv' /\ [\A p \in Phone \ Watched : painted'[p].version >= painted[p].version]_vars
<1> DEFINE Forward == \A p \in Phone \ Watched : painted'[p].version >= painted[p].version
<1> SUFFICES ASSUME FInv, [Next]_vars PROVE FInv' /\ (Forward \/ UNCHANGED vars)
    OBVIOUS
<1>1. IInv'
    BY NextKeepsIInv DEF FInv
<1>2. painted' = painted => Forward
    BY DEF FInv, AnswersAreNoOlder
<1> HIDE DEF Forward
<1>3. CASE UNCHANGED vars
    BY <1>1, <1>3 DEF vars, FInv, OneFetchAtATime, AnswersAreNoOlder, Waiting, Busy, Answers
<1>4. ASSUME NEW p \in Phone, TapDart(p) \/ TapUndo(p) \/ Retry(p) PROVE FInv' /\ Forward
    <2>1. PICK kind, key : Mutate(p, kind, key)
        BY <1>4 DEF TapDart, TapUndo, Retry
    <2>2. ~Busy(p) /\ commits' = commits /\ painted' = painted
        BY <1>4 DEF TapDart, TapUndo, Retry, Busy
    <2> QED
        BY <1>1, <1>2, <2>1, <2>2, MutateKeepsOneFetch DEF FInv
<1>5. ASSUME NEW p \in Phone, Leave(p) PROVE FInv' /\ Forward
    <2>1. OneFetchAtATime'
        BY <1>5 DEF Leave, FInv, IInv, ScreensKeepTheirKey, CallsKeepTheirKey, OneFetchAtATime,
                    Waiting, Busy
    <2>2. AnswersAreNoOlder'
        BY <1>5 DEF Leave, FInv, AnswersAreNoOlder, Waiting, Answers
    <2> QED
        BY <1>1, <1>2, <1>5, <2>1, <2>2 DEF Leave, FInv
<1>6. ASSUME NEW p \in Phone, Refetch(p) PROVE FInv' /\ Forward
    <2>1. \A c \in calls' : Waiting(c) => c \in calls
        BY <1>6 DEF Refetch, Request, Waiting
    <2>2. OneFetchAtATime'
        BY <1>6, <2>1 DEF Refetch, FInv, OneFetchAtATime, Waiting, Busy
    <2>3. AnswersAreNoOlder'
        BY <1>6, <2>1 DEF Refetch, FInv, AnswersAreNoOlder, Waiting, Answers
    <2> QED
        BY <1>1, <1>2, <1>6, <2>2, <2>3 DEF Refetch, FInv
<1>7. ASSUME NEW c \in calls, Serve(c) PROVE FInv' /\ Forward
    <2>1. c.stage = "sent" /\ screen' = screen /\ painted' = painted
        BY <1>7 DEF Serve, ServeDart, ServeUndo, ServeRead, ServeNothing
    <2>2. PICK reply :
             /\ Reply(c, reply)
             /\ reply \in {Refusal, Unavailable} \/ reply.version = commits'
             /\ commits' \in {commits, commits + 1}
        <3>1. ServeDart(c) => \E reply :
                /\ Reply(c, reply) /\ reply.version = commits'
                /\ commits' \in {commits, commits + 1}
            BY DEF ServeDart, Answer
        <3>2. ServeUndo(c) => \E reply :
                /\ Reply(c, reply)
                /\ reply = Refusal \/ reply.version = commits'
                /\ commits' \in {commits, commits + 1}
            BY DEF ServeUndo
        <3>3. ServeRead(c) \/ ServeNothing(c) => \E reply :
                /\ Reply(c, reply)
                /\ reply = Unavailable \/ reply.version = commits'
                /\ commits' \in {commits, commits + 1}
            BY DEF ServeRead, ServeNothing, Answer
        <3> QED
            BY <1>7, <3>1, <3>2, <3>3 DEF Serve
    <2> QED
        BY <1>1, <1>2, <2>1, <2>2, ReplyKeepsOneFetch DEF FInv
<1>8. ASSUME NEW c \in calls, Receive(c) PROVE FInv' /\ Forward
    <2> DEFINE after == IF c.reply = Unavailable THEN FailedWrite(c.phone) ELSE Idle
    <2>1. /\ c.live /\ c.stage = "answered" /\ calls' = calls \ {c}
          /\ painted' = Paint(c) /\ screen' = SettleAs(c, after) /\ commits' = commits
        BY <1>8 DEF Receive
    <2> HIDE DEF after
    <2> QED
        BY <1>1, <2>1, EndKeepsOneFetch DEF FInv, Forward
<1>9. ASSUME NEW c \in calls, GiveUp(c) PROVE FInv' /\ Forward
    <2>1. \A d \in calls' : d.live => d \in calls \ {c}
        BY <1>9 DEF GiveUp, FInv, IInv, CallsKeepTheirKey, IsCall
    <2>2. c.live /\ screen' = SettleAs(c, FailedWrite(c.phone)) /\ painted' = painted
          /\ commits' = commits
        BY <1>9 DEF GiveUp
    <2> QED
        BY <1>1, <2>1, <2>2, EndKeepsOneFetch DEF FInv, Forward
<1> QED
    BY <1>3, <1>4, <1>5, <1>6, <1>7, <1>8, <1>9 DEF Next

(* A phone that neither leaves its screen nor refetches never goes back to *)
(* an older board, however the answers of the others' writes are delayed.  *)
THEOREM ScreensGoForward == Spec => PaintsForward
<1>1. Init => FInv
    BY InitEstablishesFInv
<1>2. FInv /\ [Next]_vars =>
        FInv' /\ [\A p \in Phone \ Watched : painted'[p].version >= painted[p].version]_vars
    BY NextKeepsFInv
<1> QED
    BY <1>1, <1>2, PTL DEF Spec, PaintsForward
=============================================================================
