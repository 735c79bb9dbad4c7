-------------------------------- MODULE Viewer --------------------------------
(***************************************************************************)
(* What a viewer has seen: the players of one browser, the position they   *)
(* keep in its local storage, and HistoryService, which reads a row and    *)
(* then writes it.  Positions are parts of a duration; a call is cut where *)
(* the service awaits the database, and can be lost at each cut.           *)
(*                                                                         *)
(* A page is left in two ways.  When the browser closes it, the position   *)
(* is saved; when the application shows another page, the element is gone  *)
(* before the effect that would save it is cleaned up, and nothing is.     *)
(*                                                                         *)
(* Operators whose name ends in "Bug" are plausible mistakes in the        *)
(* definition that follows them; no behaviour uses them.                   *)
(***************************************************************************)
EXTENDS Integers, FiniteSets

CONSTANTS
  Players,     \* windows of the browser
  Contents,    \* episodes and movies
  Following,   \* the next episode of a content, Null for none
  Refused,     \* contents the player is not authorized to play
  Duration,    \* parts of a content
  Gap,         \* parts a regular save waits for
  Completion,  \* PLAYBACK_COMPLETION_PERCENT
  ContinueMax, \* CONTINUE_WATCHING_MAX_PERCENT
  Calls,       \* calls that can be in flight together
  MaxRows,     \* bound on the rows that are created
  MaxSaves,    \* bound on the calls
  Null

ASSUME ViewerAssumption ==
  /\ Following \in [Contents -> Contents \cup {Null}]
  /\ Refused \subseteq Contents
  /\ {Duration, Gap} \subseteq Nat \ {0} /\ {MaxRows, MaxSaves} \subseteq Nat
  /\ Completion \in 50..100 /\ ContinueMax \in Int
  /\ Null \notin Contents /\ Null \notin Int
  /\ Null \notin [c: Contents, pos: 0..Duration, done: BOOLEAN]

VARIABLES
  history,  \* rows of WatchHistory
  pending,  \* the position in the local storage
  player,   \* state of VideoPlayer, by window
  call,     \* calls of PUT /me/progress
  saves     \* calls made so far

viewerVars == <<history, pending, player, call, saves>>

Rows == 1..MaxRows
Positions == 0..Duration

NoRow == [state |-> "none", c |-> Null, pos |-> 0, done |-> FALSE]
Away == [c |-> Null, state |-> "away", pos |-> 0, last |-> -1, started |-> FALSE, playing |-> FALSE,
         asks |-> 0]
Free == [pc |-> "free", c |-> Null, pos |-> 0, done |-> FALSE, id |-> Null, was |-> FALSE]

Kept(c) == {i \in Rows : history[i].state = "kept" /\ history[i].c = c}
RowOf(c) == IF Kept(c) = {} THEN Null ELSE CHOOSE i \in Kept(c) : TRUE

\* Ids of new rows are taken in turn, and never again.
Unused(i) == /\ history[i].state = "none"
             /\ \A h \in Rows : history[h].state = "none" => i <= h

Percentage(pos) == (pos * 100) \div Duration

-----------------------------------------------------------------------------
(* Saving a position *)

\* The body of the request.
Payload(p, done) == [c |-> player[p].c, pos |-> player[p].pos, done |-> done]

Sent(body) == [Free EXCEPT !.pc = "sent", !.c = body.c, !.pos = body.pos, !.done = body.done]

\* One call, or two in a row, into free slots.
Puts(bodies) ==
  /\ saves' = saves + Cardinality(bodies)
  /\ saves' <= MaxSaves
  /\ \E ks \in [bodies -> {k \in Calls : call[k].pc = "free"}] :
       /\ \A a, b \in bodies : a # b => ks[a] # ks[b]
       /\ call' = [k \in Calls |-> IF \E b \in bodies : ks[b] = k
                                    THEN Sent(CHOOSE b \in bodies : ks[b] = k) ELSE call[k]]

NoPuts == UNCHANGED <<call, saves>>

\* Nothing is saved of a video that was not started.
Savable(q) == q.state = "ready" /\ (q.started \/ q.pos > 0)

\* A forced save is kept in the local storage until it is answered.
SaveNow(p, q) ==
  IF Savable(q)
    THEN /\ Puts({Payload(p, FALSE)})
         /\ pending' = Payload(p, FALSE)
         /\ player' = [player EXCEPT ![p] = [q EXCEPT !.last = q.pos]]
    ELSE /\ NoPuts /\ UNCHANGED pending
         /\ player' = [player EXCEPT ![p] = q]

\* readPendingProgress and the effect that sends it once a player is shown.
Replay == IF pending = Null THEN NoPuts ELSE Puts({pending})

\* clearPendingProgress
Cleared(body) ==
  IF pending # Null /\ pending.c = body.c /\ pending.pos <= body.pos THEN Null ELSE pending

-----------------------------------------------------------------------------
(* HistoryService *)

\* Only the end of the video completes it.
CompletedBug(k) == call[k].was \/ call[k].done

\* progressValues: what is completed stays so.
Completed(k) == call[k].was \/ call[k].done \/ Percentage(call[k].pos) >= Completion

\* update: the row is looked for.
Find(k) ==
  LET id == RowOf(call[k].c) IN
  /\ call[k].pc = "sent"
  /\ call' = [call EXCEPT ![k].pc = "found", ![k].id = id, ![k].was = id # Null /\ history[id].done]
  /\ UNCHANGED <<history, pending, player, saves>>

\* The indexes of WatchHistory, also of rows without a profile.
UniqueBug(c) == TRUE

Unique(c) == Kept(c) = {}

\* update: the row is written by its id, or created, and logged.
Write(k) ==
  LET id == call[k].id
      row == [state |-> "kept", c |-> call[k].c, pos |-> call[k].pos, done |-> Completed(k)]
  IN
  /\ call[k].pc = "found"
  /\ \/ /\ id # Null /\ history[id].state = "kept"
        /\ history' = [history EXCEPT ![id] = row]
        /\ call' = [call EXCEPT ![k].pc = "written"]
     \/ /\ id = Null /\ Unique(call[k].c)
        /\ \E i \in Rows : Unused(i) /\ history' = [history EXCEPT ![i] = row]
        /\ call' = [call EXCEPT ![k].pc = "written"]
     \/ /\ IF id = Null THEN ~Unique(call[k].c) ELSE history[id].state # "kept"
        /\ call' = [call EXCEPT ![k].pc = "failed"]
        /\ UNCHANGED history
  /\ UNCHANGED <<pending, player, saves>>

\* A call is lost, or its answer is.
Lose(k) ==
  /\ call[k].pc \in {"sent", "found", "written"}
  /\ call' = [call EXCEPT ![k].pc = "failed"]
  /\ UNCHANGED <<history, pending, player, saves>>

\* The position in the local storage is forgotten whatever the answer is.
SettleBug(k) ==
  /\ call[k].pc \in {"written", "failed"}
  /\ pending' = Cleared(call[k])
  /\ call' = [call EXCEPT ![k] = Free]
  /\ UNCHANGED <<history, player, saves>>

Settle(k) ==
  /\ call[k].pc \in {"written", "failed"}
  /\ pending' = IF call[k].pc = "written" THEN Cleared(call[k]) ELSE pending
  /\ call' = [call EXCEPT ![k] = Free]
  /\ UNCHANGED <<history, player, saves>>

\* remove and clear
RemoveRows(ids) ==
  /\ ids # {} /\ ids \subseteq {i \in Rows : history[i].state = "kept"}
  /\ history' = [i \in Rows |-> IF i \in ids THEN [NoRow EXCEPT !.state = "removed"] ELSE history[i]]
  /\ UNCHANGED <<pending, player, call, saves>>

\* list with continueOnly
ContinueWatching ==
  {i \in Rows : /\ history[i].state = "kept" /\ ~history[i].done
                /\ Percentage(history[i].pos) > 0 /\ Percentage(history[i].pos) < ContinueMax}

-----------------------------------------------------------------------------
(* VideoPlayer *)

\* The effects of a player that is shown: the kept position is sent, the
\* content is authorized and its row is asked for.
Shown(p, c) ==
  /\ player' = [player EXCEPT ![p] = [Away EXCEPT !.c = c, !.state = "opening", !.asks = 1]]
  /\ Replay
  /\ UNCHANGED <<history, pending>>

Open(p, c) ==
  /\ player[p].state = "away"
  /\ Shown(p, c)

\* Another source: the element starts from the beginning, and the row is asked for again.
Authorized(p) ==
  LET q == player[p] IN
  /\ q.state = "opening"
  /\ player' = [player EXCEPT ![p] =
       IF q.c \in Refused THEN [q EXCEPT !.state = "refused"]
       ELSE [q EXCEPT !.state = "ready", !.asks = @ + 1, !.pos = 0]]
  /\ UNCHANGED <<history, pending, call, saves>>

\* The answer to GET /me/progress moves the video, whatever it shows by then.
Resume(p) ==
  LET q == player[p]
      id == RowOf(q.c)
      to == IF id # Null /\ history[id].pos > 0 /\ ~history[id].done THEN history[id].pos ELSE q.pos
  IN
  /\ q.asks > 0
  /\ \E ok \in BOOLEAN :
       player' = [player EXCEPT ![p].asks = @ - 1, ![p].pos = IF ok THEN to ELSE @]
  /\ UNCHANGED <<history, pending, call, saves>>

Play(p) ==
  LET q == player[p] IN
  /\ q.state = "ready" /\ ~q.playing
  /\ IF q.started
       THEN player' = [player EXCEPT ![p].playing = TRUE] /\ NoPuts /\ UNCHANGED pending
       ELSE SaveNow(p, [q EXCEPT !.playing = TRUE, !.started = TRUE])
  /\ UNCHANGED history

Watch(p) ==
  /\ player[p].playing /\ player[p].pos < Duration
  /\ player' = [player EXCEPT ![p].pos = @ + 1]
  /\ UNCHANGED <<history, pending, call, saves>>

\* seekBy, the markers that are skipped, and the bar of the browser.
Seek(p, pos) ==
  /\ player[p].state = "ready" /\ player[p].pos # pos
  /\ player' = [player EXCEPT ![p].pos = pos]
  /\ UNCHANGED <<history, pending, call, saves>>

\* The interval saves what has moved far enough, and keeps nothing.
Tick(p) ==
  LET q == player[p] IN
  /\ q.playing
  /\ IF q.pos - q.last >= Gap \/ q.last - q.pos >= Gap
       THEN Puts({Payload(p, FALSE)}) /\ player' = [player EXCEPT ![p].last = q.pos]
       ELSE NoPuts /\ UNCHANGED player
  /\ UNCHANGED <<history, pending>>

Pause(p) ==
  /\ player[p].playing
  /\ SaveNow(p, [player[p] EXCEPT !.playing = FALSE])
  /\ UNCHANGED history

\* At the end the browser pauses the video and reports its end: two saves.
Ended(p) ==
  LET q == player[p] IN
  /\ q.playing /\ q.pos = Duration
  /\ Puts({Payload(p, FALSE), Payload(p, TRUE)})
  /\ pending' = Payload(p, TRUE)
  /\ player' = [player EXCEPT ![p] = [q EXCEPT !.playing = FALSE, !.last = q.pos]]
  /\ UNCHANGED history

\* The countdown at the end is over, or a button for the next one is pressed.
PlayNext(p) ==
  LET q == player[p] IN
  /\ q.state # "away" /\ Following[q.c] # Null
  /\ Shown(p, Following[q.c])

\* The preference of playing the next one is changed: the effect that saves is
\* set up again, which saves, and asks for the row again.
ToggleAutoplay(p) ==
  LET q == player[p] IN
  /\ q.state = "ready" /\ q.asks < 2
  /\ SaveNow(p, [q EXCEPT !.asks = @ + 1])
  /\ UNCHANGED history

\* The browser closes the page.
Close(p) ==
  LET q == player[p] IN
  /\ q.state # "away"
  /\ IF Savable(q) THEN Puts({Payload(p, FALSE)}) /\ pending' = Payload(p, FALSE)
     ELSE NoPuts /\ UNCHANGED pending
  /\ player' = [player EXCEPT ![p] = Away]
  /\ UNCHANGED history

\* The application shows another page.
Leave(p) ==
  /\ player[p].state # "away"
  /\ player' = [player EXCEPT ![p] = Away]
  /\ UNCHANGED <<history, pending, call, saves>>

-----------------------------------------------------------------------------
ViewerInit ==
  /\ history = [i \in Rows |-> NoRow]
  /\ pending = Null
  /\ player = [p \in Players |-> Away]
  /\ call = [k \in Calls |-> Free]
  /\ saves = 0

Serves(k) == Find(k) \/ Write(k) \/ Lose(k) \/ Settle(k)

Views(p) ==
  \/ \E c \in Contents : Open(p, c)
  \/ Authorized(p) \/ Resume(p) \/ Play(p) \/ Watch(p) \/ Tick(p) \/ Pause(p) \/ Ended(p)
  \/ \E pos \in Positions : Seek(p, pos)
  \/ PlayNext(p) \/ ToggleAutoplay(p) \/ Close(p) \/ Leave(p)

ViewerNext ==
  \/ \E k \in Calls : Serves(k)
  \/ \E p \in Players : Views(p)
  \/ \E ids \in SUBSET Rows : RemoveRows(ids)

ViewerSpec == ViewerInit /\ [][ViewerNext]_viewerVars

-----------------------------------------------------------------------------
(* Properties *)

Body == [c: Contents, pos: Positions, done: BOOLEAN]

\* Every variable keeps its type; a window that shows a player has a content,
\* and only a video that may be played is playing.
ViewerTypeOK ==
  /\ history \in [Rows -> [state: {"none", "kept", "removed"}, c: Contents \cup {Null}, pos: Positions, done: BOOLEAN]]
  /\ pending \in Body \cup {Null}
  /\ player \in [Players -> [c: Contents \cup {Null}, state: {"away", "opening", "ready", "refused"},
                             pos: Positions, last: Positions \cup {-1}, started: BOOLEAN, playing: BOOLEAN, asks: Nat]]
  /\ call \in [Calls -> [pc: {"free", "sent", "found", "written", "failed"}, c: Contents \cup {Null}, pos: Positions,
                         done: BOOLEAN, id: Rows \cup {Null}, was: BOOLEAN]]
  /\ \A p \in Players : /\ player[p].state # "away" => player[p].c # Null
                        /\ player[p].playing => player[p].state = "ready"
  /\ \A k \in Calls : call[k].pc # "free" => call[k].c # Null

\* However many saves of a content are served at once, it has one row.
OneRowPerContent == \A c \in Contents : \A i, h \in Kept(c) : i = h

\* A position that is kept in the browser goes away only when another takes its
\* place, or when the service has recorded that content as far as it, or further.
KeptUntilRecorded ==
  [][pending # Null /\ pending' = Null =>
       \E k \in Calls : call[k].pc = "written" /\ call[k].c = pending.c /\ call[k].pos >= pending.pos]_viewerVars

\* What was watched in part is offered to be continued or is completed, whichever
\* call wrote it last.  The environment sets the two thresholds on their own: what
\* lies from the one of the list up to the one of completion is in neither, and
\* nothing does when the first is not below the second.
StartedIsListed ==
  \A i \in Rows : history[i].state = "kept" /\ Percentage(history[i].pos) > 0 =>
    \/ history[i].done \/ i \in ContinueWatching
    \/ Percentage(history[i].pos) \in ContinueMax..(Completion - 1)
=============================================================================
