---------------------------- MODULE VisitorProofs -----------------------------
(***************************************************************************)
(* Theorems of what a visitor meets: Viewer, what is kept of a viewing, and *)
(* VideoDelivery, what is shown of a movie.  The two share no state.        *)
(*                                                                          *)
(* However many windows save, a content has one row.  A call that creates a *)
(* row is guarded by the indexes; one that updates a row it found before    *)
(* writes the same content, because ids are not used twice: that is the     *)
(* part of the invariant the property alone lacks.                          *)
(*                                                                          *)
(* A movie shows what was submitted because the columns of its row come     *)
(* from one link, from one upload or from the worker (MovieOK), and the     *)
(* open form holds such columns too (FormOK).                               *)
(***************************************************************************)
EXTENDS Viewer, VideoDelivery, TLAPS

-----------------------------------------------------------------------------
(* Viewer *)

\* A row that a call has found was created, and is of the call's content.
FoundRow ==
  \A k \in Calls : call[k].pc = "found" /\ call[k].id # Null =>
    /\ history[call[k].id].state # "none"
    /\ history[call[k].id].state = "kept" => history[call[k].id].c = call[k].c

RowInv == ViewerTypeOK /\ FoundRow /\ OneRowPerContent

\* A step of a window leaves the rows alone, and changes a call only into one
\* that has not looked for its row.
WindowStep ==
  /\ history' = history
  /\ \A k \in Calls : call'[k] = call[k] \/ call'[k].pc = "sent"

\* New calls are well formed.
LEMMA PutsTyped ==
  ASSUME ViewerTypeOK, NEW bodies \in SUBSET Body, Puts(bodies)
  PROVE  /\ call' \in [Calls -> [pc: {"free", "sent", "found", "written", "failed"}, c: Contents \cup {Null}, pos: Positions,
                         done: BOOLEAN, id: Rows \cup {Null}, was: BOOLEAN]]
         /\ \A k \in Calls : call'[k].pc # "free" => call'[k].c # Null
         /\ \A k \in Calls : call'[k] = call[k] \/ call'[k].pc = "sent"
<1> USE DEF Body
<1>1. PICK ks \in [bodies -> {k \in Calls : call[k].pc = "free"}] :
        call' = [k \in Calls |-> IF \E b \in bodies : ks[b] = k
                                 THEN Sent(CHOOSE b \in bodies : ks[b] = k) ELSE call[k]]
  BY DEF Puts
<1>2. ASSUME NEW b \in bodies
      PROVE  /\ Sent(b) \in [pc: {"sent"}, c: Contents, pos: Positions, done: BOOLEAN, id: {Null}, was: BOOLEAN]
             /\ Sent(b).pc = "sent" /\ Sent(b).c \in Contents
  BY DEF Sent, Free
<1>3. ASSUME NEW k \in Calls, \E b \in bodies : ks[b] = k
      PROVE  \E b \in bodies : call'[k] = Sent(b)
  BY <1>1, <1>3
<1>4. ASSUME NEW k \in Calls, ~ \E b \in bodies : ks[b] = k
      PROVE  call'[k] = call[k]
  BY <1>1, <1>4
<1>5. \A k \in Calls : call'[k] = call[k] \/ \E b \in bodies : call'[k] = Sent(b)
  BY <1>3, <1>4
<1>6. \A k \in Calls : call'[k] \in [pc: {"free", "sent", "found", "written", "failed"}, c: Contents \cup {Null}, pos: Positions,
                         done: BOOLEAN, id: Rows \cup {Null}, was: BOOLEAN]
  BY <1>2, <1>5 DEF ViewerTypeOK
<1>7. \A k \in Calls : call'[k].pc # "free" => call'[k].c # Null
  BY <1>2, <1>5, ViewerAssumption DEF ViewerTypeOK
<1>8. \A k \in Calls : call'[k] = call[k] \/ call'[k].pc = "sent"
  BY <1>2, <1>5
<1> QED BY <1>1, <1>6, <1>7, <1>8

LEMMA NoPutsTyped ==
  ASSUME ViewerTypeOK, NoPuts
  PROVE  /\ call' \in [Calls -> [pc: {"free", "sent", "found", "written", "failed"}, c: Contents \cup {Null}, pos: Positions,
                         done: BOOLEAN, id: Rows \cup {Null}, was: BOOLEAN]]
         /\ \A k \in Calls : call'[k].pc # "free" => call'[k].c # Null
         /\ \A k \in Calls : call'[k] = call[k] \/ call'[k].pc = "sent"
BY DEF NoPuts, ViewerTypeOK

\* What a window that plays would save is well formed.
LEMMA PayloadTyped ==
  ASSUME ViewerTypeOK, NEW p \in Players, player[p].state # "away", NEW d \in BOOLEAN
  PROVE  Payload(p, d) \in Body
BY DEF Payload, Body, ViewerTypeOK

PlayerRow == [c: Contents \cup {Null}, state: {"away", "opening", "ready", "refused"},
              pos: Positions, last: Positions \cup {-1}, started: BOOLEAN, playing: BOOLEAN, asks: Nat]

\* A window without a player is one.
LEMMA AwayTyped == Away \in PlayerRow /\ Away.state = "away" /\ ~Away.playing
<1>1. 0 \in Positions BY ViewerAssumption DEF Positions
<1> QED BY <1>1 DEF Away, PlayerRow

\* Another state of one window.
LEMMA PlayerTyped ==
  ASSUME ViewerTypeOK, NEW p \in Players, NEW q \in PlayerRow,
         q.state # "away" => q.c # Null, q.playing => q.state = "ready",
         player' = [player EXCEPT ![p] = q]
  PROVE  /\ player' \in [Players -> PlayerRow]
         /\ \A w \in Players : /\ player'[w].state # "away" => player'[w].c # Null
                               /\ player'[w].playing => player'[w].state = "ready"
BY DEF ViewerTypeOK, PlayerRow

\* A forced save.
LEMMA SaveNowTyped ==
  ASSUME ViewerTypeOK, NEW p \in Players, NEW q \in PlayerRow,
         q.state = "ready", q.c # Null, player[p].state = "ready",
         SaveNow(p, q), history' = history
  PROVE  ViewerTypeOK' /\ WindowStep
<1> USE DEF PlayerRow
<1>1. CASE Savable(q)
  <2>1. Payload(p, FALSE) \in Body BY PayloadTyped
  <2>2. Puts({Payload(p, FALSE)}) /\ pending' = Payload(p, FALSE)
        /\ player' = [player EXCEPT ![p] = [q EXCEPT !.last = q.pos]]
    BY <1>1 DEF SaveNow
  <2>3. [q EXCEPT !.last = q.pos] \in PlayerRow OBVIOUS
  <2>4. /\ player' \in [Players -> PlayerRow]
        /\ \A w \in Players : /\ player'[w].state # "away" => player'[w].c # Null
                              /\ player'[w].playing => player'[w].state = "ready"
    BY <2>2, <2>3, PlayerTyped
  <2>5. {Payload(p, FALSE)} \in SUBSET Body BY <2>1
  <2>6. /\ call' \in [Calls -> [pc: {"free", "sent", "found", "written", "failed"}, c: Contents \cup {Null}, pos: Positions,
                         done: BOOLEAN, id: Rows \cup {Null}, was: BOOLEAN]]
        /\ \A k \in Calls : call'[k].pc # "free" => call'[k].c # Null
        /\ \A k \in Calls : call'[k] = call[k] \/ call'[k].pc = "sent"
    BY <2>2, <2>5, PutsTyped
  <2>7. pending' \in Body \cup {Null} BY <2>1, <2>2
  <2> QED BY <2>4, <2>6, <2>7 DEF ViewerTypeOK, WindowStep
<1>2. CASE ~Savable(q)
  <2>1. NoPuts /\ pending' = pending /\ player' = [player EXCEPT ![p] = q]
    BY <1>2 DEF SaveNow
  <2>2. /\ player' \in [Players -> PlayerRow]
        /\ \A w \in Players : /\ player'[w].state # "away" => player'[w].c # Null
                              /\ player'[w].playing => player'[w].state = "ready"
    BY <2>1, PlayerTyped
  <2> QED BY <2>1, <2>2, NoPutsTyped DEF ViewerTypeOK, WindowStep
<1> QED BY <1>1, <1>2

\* A window that begins to show a player.
LEMMA ShownTyped ==
  ASSUME ViewerTypeOK, NEW p \in Players, NEW c \in Contents, Shown(p, c)
  PROVE  ViewerTypeOK' /\ WindowStep
<1> DEFINE q == [Away EXCEPT !.c = c, !.state = "opening", !.asks = 1]
<1>1. q \in PlayerRow /\ q.state = "opening" /\ q.c = c /\ ~q.playing
  BY AwayTyped DEF PlayerRow
<1>2. player' = [player EXCEPT ![p] = q] /\ history' = history /\ pending' = pending /\ Replay
  BY DEF Shown
<1>3. /\ player' \in [Players -> PlayerRow]
      /\ \A w \in Players : /\ player'[w].state # "away" => player'[w].c # Null
                            /\ player'[w].playing => player'[w].state = "ready"
  <2> HIDE DEF q
  <2> QED BY <1>1, <1>2, PlayerTyped, ViewerAssumption
<1>4. CASE pending = Null
  BY <1>2, <1>3, <1>4, NoPutsTyped DEF Replay, ViewerTypeOK, WindowStep, PlayerRow
<1>5. CASE pending # Null
  <2>1. pending \in Body /\ Puts({pending})
    BY <1>2, <1>5 DEF Replay, ViewerTypeOK
  <2> QED BY <1>2, <1>3, <2>1, PutsTyped DEF ViewerTypeOK, WindowStep, PlayerRow
<1> QED BY <1>4, <1>5

\* A window that saves nothing and keeps its position nowhere.
LEMMA QuietTyped ==
  ASSUME ViewerTypeOK, NEW p \in Players, NEW q \in PlayerRow,
         q.state # "away" => q.c # Null, q.playing => q.state = "ready",
         player' = [player EXCEPT ![p] = q],
         UNCHANGED <<history, pending, call, saves>>
  PROVE  ViewerTypeOK' /\ WindowStep
<1>1. /\ player' \in [Players -> PlayerRow]
      /\ \A w \in Players : /\ player'[w].state # "away" => player'[w].c # Null
                            /\ player'[w].playing => player'[w].state = "ready"
  BY PlayerTyped
<1> QED BY <1>1 DEF ViewerTypeOK, WindowStep, PlayerRow

\* A window that sends saves.
LEMMA SavedTyped ==
  ASSUME ViewerTypeOK, NEW p \in Players, NEW q \in PlayerRow,
         q.state # "away" => q.c # Null, q.playing => q.state = "ready",
         player' = [player EXCEPT ![p] = q],
         NEW bodies \in SUBSET Body, Puts(bodies), pending' \in Body \cup {Null}, history' = history
  PROVE  ViewerTypeOK' /\ WindowStep
<1>1. /\ player' \in [Players -> PlayerRow]
      /\ \A w \in Players : /\ player'[w].state # "away" => player'[w].c # Null
                            /\ player'[w].playing => player'[w].state = "ready"
  BY PlayerTyped
<1>2. /\ call' \in [Calls -> [pc: {"free", "sent", "found", "written", "failed"}, c: Contents \cup {Null}, pos: Positions,
                         done: BOOLEAN, id: Rows \cup {Null}, was: BOOLEAN]]
      /\ \A k \in Calls : call'[k].pc # "free" => call'[k].c # Null
      /\ \A k \in Calls : call'[k] = call[k] \/ call'[k].pc = "sent"
  BY PutsTyped
<1> QED BY <1>1, <1>2 DEF ViewerTypeOK, WindowStep, PlayerRow

\* Every action of a window keeps the types, and the rows.
LEMMA ViewsTyped ==
  ASSUME ViewerTypeOK, NEW p \in Players, Views(p)
  PROVE  ViewerTypeOK' /\ WindowStep
<1> DEFINE q == player[p]
<1>0. /\ q \in PlayerRow
      /\ q.state # "away" => q.c # Null
      /\ q.playing => q.state = "ready"
  BY DEF ViewerTypeOK, PlayerRow
<1>1. ASSUME NEW c \in Contents, Open(p, c) PROVE ViewerTypeOK' /\ WindowStep
  BY <1>1, ShownTyped DEF Open
<1>2. CASE Authorized(p)
  <2> DEFINE r == IF q.c \in Refused THEN [q EXCEPT !.state = "refused"]
                  ELSE [q EXCEPT !.state = "ready", !.asks = @ + 1, !.pos = 0]
  <2>1. 0 \in Positions BY ViewerAssumption DEF Positions
  <2>2. r \in PlayerRow /\ r.c = q.c /\ r.state \in {"refused", "ready"} /\ r.playing = q.playing
    <3>1. CASE q.c \in Refused
      <4>1. r = [q EXCEPT !.state = "refused"] BY <3>1
      <4> QED BY <1>0, <4>1 DEF PlayerRow
    <3>2. CASE q.c \notin Refused
      <4>1. r = [q EXCEPT !.state = "ready", !.asks = @ + 1, !.pos = 0] BY <3>2
      <4>2. q.asks + 1 \in Nat BY <1>0 DEF PlayerRow
      <4> QED BY <1>0, <2>1, <4>1, <4>2 DEF PlayerRow
    <3> QED BY <3>1, <3>2
  <2>3. q.state = "opening" /\ player' = [player EXCEPT ![p] = r] /\ UNCHANGED <<history, pending, call, saves>>
    BY <1>2 DEF Authorized
  <2> HIDE DEF r
  <2>4. r.c # Null /\ ~q.playing BY <1>0, <2>2, <2>3
  <2>5. r.playing => r.state = "ready" BY <2>2, <2>4
  <2> QED BY <2>2, <2>3, <2>4, <2>5, QuietTyped
<1>3. CASE Resume(p)
  <2> DEFINE id == RowOf(q.c)
             to == IF id # Null /\ history[id].pos > 0 /\ ~history[id].done THEN history[id].pos ELSE q.pos
  <2>1. id # Null => id \in Rows
    BY DEF RowOf, Kept
  <2>2. to \in Positions
    BY <1>0, <2>1 DEF ViewerTypeOK, PlayerRow
  <2>3. PICK ok \in BOOLEAN :
          player' = [player EXCEPT ![p].asks = @ - 1, ![p].pos = IF ok THEN to ELSE @]
    BY <1>3 DEF Resume
  <2>4. q.asks > 0 /\ UNCHANGED <<history, pending, call, saves>>
    BY <1>3 DEF Resume
  <2> HIDE DEF to
  <2> DEFINE r == [q EXCEPT !.asks = @ - 1, !.pos = IF ok THEN to ELSE @]
  <2>5. player' = [player EXCEPT ![p] = r]
    BY <2>3 DEF ViewerTypeOK
  <2>6. r \in PlayerRow /\ r.c = q.c /\ r.state = q.state /\ r.playing = q.playing
    <3>1. q.asks - 1 \in Nat BY <1>0, <2>4 DEF PlayerRow
    <3>2. CASE ok
      <4>1. r = [q EXCEPT !.asks = @ - 1, !.pos = to] BY <3>2
      <4> QED BY <1>0, <2>2, <3>1, <4>1 DEF PlayerRow
    <3>3. CASE ~ok
      <4>1. r = [q EXCEPT !.asks = @ - 1, !.pos = q.pos] BY <3>3
      <4> QED BY <1>0, <3>1, <4>1 DEF PlayerRow
    <3> QED BY <3>2, <3>3
  <2> HIDE DEF r
  <2> QED BY <1>0, <2>4, <2>5, <2>6, QuietTyped
<1>4. CASE Play(p)
  <2>1. q.state = "ready" /\ history' = history BY <1>4 DEF Play
  <2>2. CASE q.started
    <3> DEFINE r == [q EXCEPT !.playing = TRUE]
    <3>1. player' = [player EXCEPT ![p] = r] /\ UNCHANGED <<history, pending, call, saves>>
      BY <1>4, <2>2 DEF Play, NoPuts, ViewerTypeOK
    <3>2. r \in PlayerRow /\ r.c = q.c /\ r.state = "ready" BY <1>0, <2>1 DEF PlayerRow
    <3> HIDE DEF r
    <3> QED BY <1>0, <2>1, <3>1, <3>2, QuietTyped
  <2>3. CASE ~q.started
    <3> DEFINE r == [q EXCEPT !.playing = TRUE, !.started = TRUE]
    <3>1. SaveNow(p, r) BY <1>4, <2>3 DEF Play
    <3>2. r \in PlayerRow /\ r.c = q.c /\ r.state = "ready" BY <1>0, <2>1 DEF PlayerRow
    <3> HIDE DEF r
    <3> QED BY <1>0, <2>1, <3>1, <3>2, SaveNowTyped
  <2> QED BY <2>2, <2>3
<1>5. CASE Watch(p)
  <2> DEFINE r == [q EXCEPT !.pos = @ + 1]
  <2>1. q.playing /\ q.pos < Duration /\ player' = [player EXCEPT ![p] = r] /\ UNCHANGED <<history, pending, call, saves>>
    BY <1>5 DEF Watch, ViewerTypeOK
  <2>2. r \in PlayerRow /\ r.c = q.c /\ r.state = q.state
    BY <1>0, <2>1, ViewerAssumption DEF PlayerRow, Positions
  <2> HIDE DEF r
  <2> QED BY <1>0, <2>1, <2>2, QuietTyped
<1>6. ASSUME NEW pos \in Positions, Seek(p, pos) PROVE ViewerTypeOK' /\ WindowStep
  <2> DEFINE r == [q EXCEPT !.pos = pos]
  <2>1. q.state = "ready" /\ player' = [player EXCEPT ![p] = r] /\ UNCHANGED <<history, pending, call, saves>>
    BY <1>6 DEF Seek, ViewerTypeOK
  <2>2. r \in PlayerRow /\ r.c = q.c /\ r.state = q.state BY <1>0 DEF PlayerRow
  <2> HIDE DEF r
  <2> QED BY <1>0, <2>1, <2>2, QuietTyped
<1>7. CASE Tick(p)
  <2> DEFINE r == [q EXCEPT !.last = q.pos]
  <2>1. q.playing /\ history' = history /\ pending' = pending BY <1>7 DEF Tick
  <2>2. CASE Puts({Payload(p, FALSE)}) /\ player' = [player EXCEPT ![p].last = q.pos]
    <3>1. player' = [player EXCEPT ![p] = r] BY <2>2 DEF ViewerTypeOK
    <3>2. r \in PlayerRow /\ r.c = q.c /\ r.state = q.state BY <1>0 DEF PlayerRow
    <3>3. {Payload(p, FALSE)} \in SUBSET Body BY <1>0, <2>1, PayloadTyped
    <3>4. pending' \in Body \cup {Null} BY <2>1 DEF ViewerTypeOK
    <3> HIDE DEF r
    <3> QED BY <1>0, <2>1, <2>2, <3>1, <3>2, <3>3, <3>4, SavedTyped
  <2>3. CASE NoPuts /\ UNCHANGED player
    BY <2>1, <2>3 DEF NoPuts, ViewerTypeOK, WindowStep
  <2> QED BY <1>7, <2>2, <2>3 DEF Tick
<1>8. CASE Pause(p)
  <2> DEFINE r == [q EXCEPT !.playing = FALSE]
  <2>1. q.playing /\ SaveNow(p, r) /\ history' = history BY <1>8 DEF Pause
  <2>2. r \in PlayerRow /\ r.c = q.c /\ r.state = "ready" BY <1>0, <2>1 DEF PlayerRow
  <2> HIDE DEF r
  <2> QED BY <1>0, <2>1, <2>2, SaveNowTyped
<1>9. CASE Ended(p)
  <2> DEFINE r == [q EXCEPT !.playing = FALSE, !.last = q.pos]
  <2>1. /\ q.playing /\ Puts({Payload(p, FALSE), Payload(p, TRUE)}) /\ pending' = Payload(p, TRUE)
        /\ player' = [player EXCEPT ![p] = r] /\ history' = history
    BY <1>9 DEF Ended
  <2>2. r \in PlayerRow /\ r.c = q.c /\ r.state = "ready" /\ ~r.playing BY <1>0, <2>1 DEF PlayerRow
  <2>3. Payload(p, FALSE) \in Body /\ Payload(p, TRUE) \in Body BY <1>0, <2>1, PayloadTyped
  <2> HIDE DEF r
  <2> QED BY <1>0, <2>1, <2>2, <2>3, SavedTyped
<1>10. CASE PlayNext(p)
  <2>1. Following[q.c] \in Contents
    BY <1>0, <1>10, ViewerAssumption DEF PlayNext, PlayerRow
  <2> QED BY <1>10, <2>1, ShownTyped DEF PlayNext
<1>11. CASE ToggleAutoplay(p)
  <2> DEFINE r == [q EXCEPT !.asks = @ + 1]
  <2>1. q.state = "ready" /\ SaveNow(p, r) /\ history' = history BY <1>11 DEF ToggleAutoplay
  <2>2. r \in PlayerRow /\ r.c = q.c /\ r.state = "ready" BY <1>0, <2>1 DEF PlayerRow
  <2> HIDE DEF r
  <2> QED BY <1>0, <2>1, <2>2, SaveNowTyped
<1>12. CASE Close(p)
  <2>1. q.state # "away" /\ player' = [player EXCEPT ![p] = Away] /\ history' = history BY <1>12 DEF Close
  <2>2. Payload(p, FALSE) \in Body BY <2>1, PayloadTyped
  <2>3. Away \in PlayerRow /\ Away.state = "away" /\ ~Away.playing BY AwayTyped
  <2>4. CASE Puts({Payload(p, FALSE)}) /\ pending' = Payload(p, FALSE)
    BY <2>1, <2>2, <2>3, <2>4, SavedTyped
  <2>5. CASE NoPuts /\ UNCHANGED pending
    BY <2>1, <2>3, <2>5, QuietTyped DEF NoPuts
  <2> QED BY <1>12, <2>4, <2>5 DEF Close
<1>13. CASE Leave(p)
  <2>1. Away \in PlayerRow /\ Away.state = "away" /\ ~Away.playing BY AwayTyped
  <2> QED BY <1>13, <2>1, QuietTyped DEF Leave
<1> QED
  BY <1>1, <1>2, <1>3, <1>4, <1>5, <1>6, <1>7, <1>8, <1>9, <1>10, <1>11, <1>12, <1>13 DEF Views

\* A call that fails, wherever it is.
LEMMA CallTyped ==
  ASSUME RowInv, NEW k \in Calls, call[k].pc # "free",
         call' = [call EXCEPT ![k].pc = "failed"], UNCHANGED <<history, pending, player, saves>>
  PROVE  RowInv'
<1>1. ViewerTypeOK' BY DEF RowInv, ViewerTypeOK, Body
<1>2. FoundRow' BY DEF RowInv, ViewerTypeOK, FoundRow
<1>3. OneRowPerContent' BY DEF RowInv, OneRowPerContent, Kept
<1> QED BY <1>1, <1>2, <1>3 DEF RowInv

\* The service and the viewer's own removals.
LEMMA FindTyped ==
  ASSUME RowInv, NEW k \in Calls, Find(k)
  PROVE  RowInv'
<1> DEFINE id == RowOf(call[k].c)
           was == id # Null /\ history[id].done
<1>1. id # Null => id \in Kept(call[k].c)
  BY DEF RowOf
<1>2. id # Null => id \in Rows /\ history[id].state = "kept" /\ history[id].c = call[k].c
  BY <1>1 DEF Kept
<1>3. was \in BOOLEAN
  OBVIOUS
<1>4. /\ call[k].pc = "sent" /\ UNCHANGED <<history, pending, player, saves>>
      /\ call' = [call EXCEPT ![k].pc = "found", ![k].id = id, ![k].was = was]
  BY DEF Find
<1> HIDE DEF id, was
<1>5. ViewerTypeOK'
  <2>1. id \in Rows \cup {Null} BY <1>2
  <2>2. call' \in [Calls -> [pc: {"free", "sent", "found", "written", "failed"}, c: Contents \cup {Null}, pos: Positions,
                         done: BOOLEAN, id: Rows \cup {Null}, was: BOOLEAN]]
    <3> DEFINE r == [call[k] EXCEPT !.pc = "found", !.id = id, !.was = was]
    <3>1. call[k] \in [pc: {"free", "sent", "found", "written", "failed"}, c: Contents \cup {Null}, pos: Positions,
                       done: BOOLEAN, id: Rows \cup {Null}, was: BOOLEAN]
      BY DEF RowInv, ViewerTypeOK
    <3>2. r \in [pc: {"free", "sent", "found", "written", "failed"}, c: Contents \cup {Null}, pos: Positions,
                 done: BOOLEAN, id: Rows \cup {Null}, was: BOOLEAN]
      BY <1>3, <2>1, <3>1
    <3>3. call' = [call EXCEPT ![k] = r]
      BY <1>4 DEF RowInv, ViewerTypeOK
    <3> HIDE DEF r
    <3> QED BY <3>2, <3>3 DEF RowInv, ViewerTypeOK
  <2>3. \A l \in Calls : call'[l].c = call[l].c /\ (l # k => call'[l] = call[l])
    BY <1>4 DEF RowInv, ViewerTypeOK
  <2> QED BY <1>4, <2>2, <2>3 DEF RowInv, ViewerTypeOK, Body
<1>6. FoundRow'
  BY <1>2, <1>4 DEF RowInv, ViewerTypeOK, FoundRow
<1>7. OneRowPerContent'
  BY <1>4 DEF RowInv, OneRowPerContent, Kept
<1> QED BY <1>5, <1>6, <1>7 DEF RowInv

LEMMA WriteTyped ==
  ASSUME RowInv, NEW k \in Calls, Write(k)
  PROVE  RowInv'
<1> DEFINE id == call[k].id
           row == [state |-> "kept", c |-> call[k].c, pos |-> call[k].pos, done |-> Completed(k)]
           RowType == [state: {"none", "kept", "removed"}, c: Contents \cup {Null}, pos: Positions, done: BOOLEAN]
<1>1. Completed(k) \in BOOLEAN
  BY DEF Completed, RowInv, ViewerTypeOK
<1>2. row \in RowType /\ row.state = "kept" /\ row.c = call[k].c
  BY <1>1 DEF RowInv, ViewerTypeOK
<1>3. call[k].pc = "found" /\ UNCHANGED <<pending, player, saves>>
  BY DEF Write
<1>4. id \in Rows \cup {Null}
  BY DEF RowInv, ViewerTypeOK
<1>5. CASE /\ id # Null /\ history[id].state = "kept"
           /\ history' = [history EXCEPT ![id] = row]
           /\ call' = [call EXCEPT ![k].pc = "written"]
  <2>1. history[id].c = call[k].c
    BY <1>3, <1>5 DEF RowInv, FoundRow
  <2> HIDE DEF row
  <2>2. ViewerTypeOK'
    BY <1>2, <1>3, <1>4, <1>5 DEF RowInv, ViewerTypeOK, Body
  <2>3. \A i \in Rows : history'[i].state = history[i].state /\ (history[i].state = "kept" => history'[i].c = history[i].c)
    BY <1>2, <1>4, <1>5, <2>1 DEF RowInv, ViewerTypeOK
  <2>4. FoundRow'
    BY <1>5, <2>3 DEF RowInv, ViewerTypeOK, FoundRow
  <2>5. OneRowPerContent'
    BY <2>3 DEF RowInv, OneRowPerContent, Kept
  <2> QED BY <2>2, <2>4, <2>5 DEF RowInv
<1>6. CASE /\ id = Null /\ Unique(call[k].c)
           /\ \E i \in Rows : Unused(i) /\ history' = [history EXCEPT ![i] = row]
           /\ call' = [call EXCEPT ![k].pc = "written"]
  <2>1. PICK i \in Rows : Unused(i) /\ history' = [history EXCEPT ![i] = row]
    BY <1>6
  <2>2. history[i].state = "none"
    BY <2>1 DEF Unused
  <2> HIDE DEF row
  <2>3. ViewerTypeOK'
    BY <1>2, <1>3, <1>6, <2>1 DEF RowInv, ViewerTypeOK, Body
  <2>4. /\ history'[i] = row
        /\ \A h \in Rows : h # i => history'[h] = history[h]
    BY <2>1 DEF RowInv, ViewerTypeOK
  <2>5. \A l \in Calls : call'[l].pc = "found" => call'[l] = call[l]
    BY <1>6 DEF RowInv, ViewerTypeOK
  <2>6. FoundRow'
    <3> SUFFICES ASSUME NEW l \in Calls, call'[l].pc = "found", call'[l].id # Null
                 PROVE  /\ history'[call'[l].id].state # "none"
                        /\ history'[call'[l].id].state = "kept" => history'[call'[l].id].c = call'[l].c
      BY DEF FoundRow
    <3>1. call'[l] = call[l] BY <2>5
    <3>2. call[l].id \in Rows /\ history[call[l].id].state # "none"
      BY <3>1 DEF RowInv, ViewerTypeOK, FoundRow
    <3>3. history'[call[l].id] = history[call[l].id] BY <2>2, <2>4, <3>2
    <3> QED BY <3>1, <3>3 DEF RowInv, FoundRow
  <2>7. OneRowPerContent'
    BY <1>2, <1>6, <2>4 DEF RowInv, OneRowPerContent, Kept, Unique
  <2> QED BY <2>3, <2>6, <2>7 DEF RowInv
<1>7. CASE call' = [call EXCEPT ![k].pc = "failed"] /\ UNCHANGED history
  BY <1>3, <1>7, CallTyped
<1> QED BY <1>5, <1>6, <1>7 DEF Write

LEMMA RemoveTyped ==
  ASSUME RowInv, NEW ids \in SUBSET Rows, RemoveRows(ids)
  PROVE  RowInv'
<1> DEFINE gone == [NoRow EXCEPT !.state = "removed"]
<1>1. /\ gone \in [state: {"none", "kept", "removed"}, c: Contents \cup {Null}, pos: Positions, done: BOOLEAN]
      /\ gone.state = "removed"
  <2>1. 0 \in Positions BY ViewerAssumption DEF Positions
  <2>2. NoRow \in [state: {"none", "kept", "removed"}, c: Contents \cup {Null}, pos: Positions, done: BOOLEAN]
    BY <2>1 DEF NoRow
  <2> QED BY <2>2
<1>2. /\ history' = [i \in Rows |-> IF i \in ids THEN gone ELSE history[i]]
      /\ UNCHANGED <<pending, player, call, saves>>
  BY DEF RemoveRows
<1> HIDE DEF gone
<1>3. ViewerTypeOK'
  BY <1>1, <1>2 DEF RowInv, ViewerTypeOK, Body
<1>4. FoundRow'
  BY <1>1, <1>2 DEF RowInv, ViewerTypeOK, FoundRow
<1>5. OneRowPerContent'
  BY <1>1, <1>2 DEF RowInv, ViewerTypeOK, OneRowPerContent, Kept
<1> QED BY <1>3, <1>4, <1>5 DEF RowInv

LEMMA SettleTyped ==
  ASSUME RowInv, NEW k \in Calls, Settle(k)
  PROVE  RowInv'
<1>1. Free \in [pc: {"free"}, c: {Null}, pos: Positions, done: BOOLEAN, id: {Null}, was: BOOLEAN]
  BY ViewerAssumption DEF Free, Positions
<1>2. /\ pending' \in {pending, Null} /\ call' = [call EXCEPT ![k] = Free]
      /\ UNCHANGED <<history, player, saves>>
  BY DEF Settle, Cleared
<1>3. ViewerTypeOK'
  BY <1>1, <1>2 DEF RowInv, ViewerTypeOK
<1>4. FoundRow'
  BY <1>1, <1>2 DEF RowInv, ViewerTypeOK, FoundRow
<1>5. OneRowPerContent'
  BY <1>2 DEF RowInv, OneRowPerContent, Kept
<1> QED BY <1>3, <1>4, <1>5 DEF RowInv

LEMMA WindowKeepsRows ==
  ASSUME RowInv, NEW p \in Players, Views(p)
  PROVE  RowInv'
<1>1. ViewerTypeOK' /\ WindowStep BY ViewsTyped DEF RowInv
<1>2. FoundRow' BY <1>1 DEF RowInv, WindowStep, FoundRow
<1>3. OneRowPerContent' BY <1>1 DEF RowInv, WindowStep, OneRowPerContent, Kept
<1> QED BY <1>1, <1>2, <1>3 DEF RowInv

LEMMA InitRows == ViewerInit => RowInv
<1> SUFFICES ASSUME ViewerInit PROVE RowInv OBVIOUS
<1>1. NoRow \in [state: {"none"}, c: {Null}, pos: Positions, done: BOOLEAN]
  BY ViewerAssumption DEF NoRow, Positions
<1>2. Free \in [pc: {"free"}, c: {Null}, pos: Positions, done: BOOLEAN, id: {Null}, was: BOOLEAN]
  BY ViewerAssumption DEF Free, Positions
<1>3. ViewerTypeOK BY <1>1, <1>2, AwayTyped DEF ViewerInit, ViewerTypeOK, PlayerRow
<1>4. FoundRow BY <1>2 DEF ViewerInit, FoundRow
<1>5. OneRowPerContent BY <1>1 DEF ViewerInit, OneRowPerContent, Kept
<1> QED BY <1>3, <1>4, <1>5 DEF RowInv

\* Every step of the windows and of the service keeps the invariant.
LEMMA NextRows == RowInv /\ [ViewerNext]_viewerVars => RowInv'
<1> SUFFICES ASSUME RowInv, [ViewerNext]_viewerVars PROVE RowInv' OBVIOUS
<1>1. ASSUME NEW k \in Calls, Serves(k) PROVE RowInv'
  <2>1. CASE Lose(k)
    <3>1. call' = [call EXCEPT ![k].pc = "failed"] /\ UNCHANGED <<history, pending, player, saves>>
          /\ call[k].pc # "free"
      BY <2>1 DEF Lose
    <3> QED BY <3>1, CallTyped
  <2> QED BY <1>1, <2>1, FindTyped, WriteTyped, SettleTyped DEF Serves
<1>2. ASSUME NEW p \in Players, Views(p) PROVE RowInv'
  BY <1>2, WindowKeepsRows
<1>3. ASSUME NEW ids \in SUBSET Rows, RemoveRows(ids) PROVE RowInv'
  BY <1>3, RemoveTyped
<1>4. CASE UNCHANGED viewerVars
  BY <1>4 DEF viewerVars, RowInv, ViewerTypeOK, FoundRow, OneRowPerContent, Kept, Body
<1> QED BY <1>1, <1>2, <1>3, <1>4 DEF ViewerNext

\* However many windows and calls there are, and whatever is lost between them,
\* a content never has two rows, nor does a call write over another content's.
THEOREM RowsUnique == ViewerSpec => []OneRowPerContent
<1>1. RowInv => OneRowPerContent BY DEF RowInv
<1> QED BY <1>1, InitRows, NextRows, PTL DEF ViewerSpec

\* Every variable of the viewer keeps its type.
THEOREM ViewerTypeCorrect == ViewerSpec => []ViewerTypeOK
<1>1. RowInv => ViewerTypeOK BY DEF RowInv
<1> QED BY <1>1, InitRows, NextRows, PTL DEF ViewerSpec

-----------------------------------------------------------------------------
(* The position that is kept in the browser. *)

\* A body is not the absence of one.
LEMMA BodyIsKept == \A b \in Body : b # Null
BY ViewerAssumption DEF Body, Positions

\* A window puts another position in the place of the kept one, or leaves it.
LEMMA WindowKeepsPending ==
  ASSUME ViewerTypeOK, NEW p \in Players, Views(p), pending # Null
  PROVE  pending' # Null
<1>1. ASSUME player[p].state # "away", NEW d \in BOOLEAN, pending' = Payload(p, d)
      PROVE  pending' # Null
  BY <1>1, PayloadTyped, BodyIsKept
<1>2. ASSUME NEW q, player[p].state # "away", SaveNow(p, q) PROVE pending' # Null
  BY <1>1, <1>2 DEF SaveNow
<1>3. player[p].playing => player[p].state = "ready"
  BY DEF ViewerTypeOK
<1>4. CASE Play(p)
  BY <1>2, <1>4 DEF Play
<1>5. CASE Pause(p)
  BY <1>2, <1>3, <1>5 DEF Pause
<1>6. CASE ToggleAutoplay(p)
  BY <1>2, <1>6 DEF ToggleAutoplay
<1>7. CASE Ended(p)
  BY <1>1, <1>3, <1>7 DEF Ended
<1>8. CASE Close(p)
  BY <1>1, <1>8 DEF Close
<1>9. CASE PlayNext(p) \/ \E c \in Contents : Open(p, c)
  BY <1>9 DEF PlayNext, Open, Shown
<1>10. CASE \/ Authorized(p) \/ Resume(p) \/ Watch(p) \/ Tick(p) \/ Leave(p)
            \/ \E pos \in Positions : Seek(p, pos)
  BY <1>10 DEF Authorized, Resume, Watch, Tick, Leave, Seek
<1> QED
  BY <1>4, <1>5, <1>6, <1>7, <1>8, <1>9, <1>10 DEF Views

\* Whatever calls are lost and however windows overlap, the kept position goes
\* away only with a call that was answered, of that content and not behind it:
\* a page that is closed while the service is out of reach loses nothing.
THEOREM KeptPosition == ViewerSpec => KeptUntilRecorded
<1> DEFINE Recorded == \E k \in Calls : call[k].pc = "written" /\ call[k].c = pending.c /\ call[k].pos >= pending.pos
<1>1. ASSUME ViewerTypeOK, ViewerNext, pending # Null, pending' = Null
      PROVE  Recorded
  <2>1. ASSUME NEW k \in Calls, Serves(k) PROVE Recorded
    <3>1. Settle(k)
      BY <1>1, <2>1 DEF Serves, Find, Write, Lose
    <3>2. /\ call[k].pc = "written"
          /\ pending.c = call[k].c /\ pending.pos <= call[k].pos
      BY <1>1, <3>1 DEF Settle, Cleared
    <3>3. pending.pos \in Int /\ call[k].pos \in Int
      BY <1>1 DEF ViewerTypeOK, Body, Positions
    <3> QED BY <3>2, <3>3
  <2>2. ASSUME NEW p \in Players, Views(p) PROVE Recorded
    BY <1>1, <2>2, WindowKeepsPending
  <2>3. ASSUME NEW ids \in SUBSET Rows, RemoveRows(ids) PROVE Recorded
    BY <1>1, <2>3 DEF RemoveRows
  <2> QED BY <1>1, <2>1, <2>2, <2>3 DEF ViewerNext
<1>2. RowInv /\ [ViewerNext]_viewerVars => [pending # Null /\ pending' = Null => Recorded]_viewerVars
  BY <1>1 DEF RowInv
<1> QED BY <1>2, InitRows, NextRows, PTL DEF ViewerSpec, KeptUntilRecorded

-----------------------------------------------------------------------------
(* What is offered to be continued. *)

\* Parts of a duration are a percentage.
LEMMA PercentageTyped == \A pos \in Positions : Percentage(pos) \in Int
<1>1. ASSUME NEW n \in Int, NEW d \in Nat \ {0} PROVE n \div d \in Int
  OBVIOUS
<1>2. ASSUME NEW pos \in Positions PROVE pos * 100 \in Int
  BY ViewerAssumption DEF Positions
<1> QED BY <1>1, <1>2, ViewerAssumption DEF Percentage

\* A row that is written is completed, or below what completes it.
LEMMA WrittenIsListed ==
  ASSUME ViewerTypeOK, NEW k \in Calls, ~Completed(k)
  PROVE  Percentage(call[k].pos) < Completion
<1>1. call[k].pos \in Positions BY DEF ViewerTypeOK
<1>2. Percentage(call[k].pos) \in Int BY <1>1, PercentageTyped
<1>3. ~ (Percentage(call[k].pos) >= Completion) BY DEF Completed
<1>4. Completion \in Int BY ViewerAssumption
<1> HIDE DEF Percentage
<1> QED BY <1>2, <1>3, <1>4

\* Whatever the two thresholds are, a content that was begun is missing from both
\* lists only between them.
THEOREM StartedListed == ViewerSpec => []StartedIsListed
<1> DEFINE RowListed(h, i) == h[i].state = "kept" => h[i].done \/ Percentage(h[i].pos) < Completion
           ListInv == \A i \in Rows : RowListed(history, i)
<1>1. ViewerInit => ListInv
  BY DEF ViewerInit, NoRow
<1>2. ASSUME ViewerTypeOK, ListInv, NEW k \in Calls, Write(k) PROVE ListInv'
  <2> DEFINE row == [state |-> "kept", c |-> call[k].c, pos |-> call[k].pos, done |-> Completed(k)]
  <2>1. \/ \E i \in Rows : history' = [history EXCEPT ![i] = row]
        \/ history' = history
    BY <1>2 DEF Write, ViewerTypeOK
  <2>2. row.done \/ Percentage(row.pos) < Completion
    BY <1>2, WrittenIsListed
  <2> HIDE DEF row
  <2>3. \A i \in Rows : history'[i] = row \/ history'[i] = history[i]
    BY <1>2, <2>1 DEF ViewerTypeOK
  <2> QED BY <1>2, <2>2, <2>3
<1>3. ASSUME ViewerTypeOK, ListInv, NEW ids \in SUBSET Rows, RemoveRows(ids) PROVE ListInv'
  <2> DEFINE gone == [NoRow EXCEPT !.state = "removed"]
  <2>1. gone.state # "kept" BY DEF NoRow
  <2>2. history' = [i \in Rows |-> IF i \in ids THEN gone ELSE history[i]]
    BY <1>3 DEF RemoveRows
  <2> HIDE DEF gone
  <2> QED BY <1>3, <2>1, <2>2
<1>4. ASSUME ViewerTypeOK, ListInv, ViewerNext \/ UNCHANGED viewerVars PROVE ListInv'
  <2>1. ASSUME history' = history PROVE ListInv'
    BY <1>4, <2>1
  <2>2. ASSUME NEW k \in Calls, Serves(k) PROVE ListInv'
    BY <1>2, <1>4, <2>1, <2>2 DEF Serves, Find, Lose, Settle
  <2>3. ASSUME NEW p \in Players, Views(p) PROVE ListInv'
    BY <1>4, <2>1, <2>3, ViewsTyped DEF WindowStep
  <2>4. CASE UNCHANGED viewerVars
    BY <2>1, <2>4 DEF viewerVars
  <2> QED BY <1>3, <1>4, <2>2, <2>3, <2>4 DEF ViewerNext
<1>5. RowInv /\ ListInv /\ [ViewerNext]_viewerVars => ListInv'
  BY <1>4 DEF RowInv
<1>6. ASSUME ViewerTypeOK, ListInv PROVE StartedIsListed
  <2> SUFFICES ASSUME NEW i \in Rows, history[i].state = "kept", Percentage(history[i].pos) > 0
               PROVE  \/ history[i].done \/ i \in ContinueWatching
                      \/ Percentage(history[i].pos) \in ContinueMax..(Completion - 1)
    BY DEF StartedIsListed
  <2>1. Percentage(history[i].pos) \in Int
    BY <1>6, PercentageTyped DEF ViewerTypeOK
  <2>2. history[i].done \/ Percentage(history[i].pos) < Completion
    BY <1>6
  <2> HIDE DEF ListInv, Percentage
  <2> QED BY <2>1, <2>2, ViewerAssumption DEF ContinueWatching
<1>7. RowInv /\ ListInv => StartedIsListed
  BY <1>6 DEF RowInv
<1> QED BY <1>1, <1>5, <1>7, InitRows, NextRows, PTL DEF ViewerSpec

-----------------------------------------------------------------------------
(* VideoDelivery *)

\* The condition of the theorem: an address is what its path says - a page of
\* Drive has the path of a page, and only the address of a playlist has a query
\* that ends like one.
PlainLinks ==
  \A l \in Links :
    /\ l.at = "web" /\ l.secure \in BOOLEAN /\ l.id \in BOOLEAN
    /\ l.host \in {"drive", "docs"} => l.path = "page"
    /\ l.query = "m3u8" => l.path = "m3u8"

\* The addresses of the original that was uploaded, and of its remux.
Own(url, original, up) ==
  /\ up # Nowhere
  /\ url \in {StoredAt("remux"), StoredAt(up.row.extension)}
  /\ original \in {url, StoredAt(up.row.extension)}

StoredAddress(address) == address.at = "stored" /\ address # Nowhere

\* The link of the form, or the addresses an upload has put there.
FormOK(f, up) ==
  /\ f = [new |-> f.new, source |-> f.source, type |-> f.type, url |-> f.url, original |-> f.original]
  /\ f.source \in Sources /\ f.type \in VideoTypes
  /\ f.url # Nowhere =>
       \/ f.source # "LOCAL" /\ f.original \in Links
       \/ f.source # "LOCAL" /\ StoredAddress(f.original)
       \/ /\ f.source = "LOCAL" /\ f.url = StoredAt("master")
          /\ StoredAddress(f.original)
       \/ /\ f.source = "LOCAL" /\ Own(f.url, f.original, up)
          /\ StoredAddress(f.original)

\* The video of a movie that has a link, a file or version of its own, or a
\* version that the worker attached.
Linked(row) ==
  /\ row.source \in Sources \ {"LOCAL"} /\ row.original \in Links
  /\ Acceptable(row.source, row.type, row.url, row.original)
  /\ row.type = IF row.source = "DRIVE" THEN "DRIVE" ELSE row.type
  /\ row.url = IF row.source = "DRIVE" THEN Download(row.original) ELSE row.original
Local(row, up, kept) ==
  /\ row.source = "LOCAL" /\ StoredAddress(row.original) /\ row.url.key \in kept
  /\ \/ row.type = "HLS" /\ row.url = StoredAt("master")
     \/ /\ row.type = "MP4" /\ row.url \in {StoredAt(".mp4"), StoredAt("remux")}
        /\ Own(row.url, row.original, up)
AttachedSet(row, kept) ==
  /\ row.source = "HLS" /\ row.type = "HLS"
  /\ row.url \in {StoredAt("master"), StoredAt("remux")} /\ row.url.key \in kept
  /\ row.original \in Links \/ StoredAddress(row.original)

MovieOK(row, up, kept) ==
  /\ row = [source |-> row.source, type |-> row.type, url |-> row.url, processed |-> row.processed,
            original |-> row.original, live |-> row.live]
  /\ row.type \in VideoTypes /\ row.processed = row.url
  /\ Linked(row) \/ Local(row, up, kept) \/ AttachedSet(row, kept)

DeliveryInv ==
  /\ upload # Nowhere => upload.row.extension \in Extensions \cap stored
  /\ form # Nowhere => FormOK(form, upload)
  /\ movie # Nowhere => MovieOK(movie, upload, stored)

\* What normalizeVideo makes of a link, and of a file or version of the storage.
LEMMA LinkNormalized ==
  ASSUME NEW source \in Sources \ {"LOCAL"}, NEW type \in VideoTypes, NEW url, NEW link \in Links,
         Acceptable(source, type, url, link)
  PROVE  Normalize(source, type, url, link) =
           [source |-> source, type |-> IF source = "DRIVE" THEN "DRIVE" ELSE type,
            url |-> IF source = "DRIVE" THEN Download(link) ELSE link,
            processed |-> IF source = "DRIVE" THEN Download(link) ELSE link, original |-> link]
<1>1. Submitted(url, link) = link
  BY NowhereAssumption DEF Submitted
<1>2. link # Nowhere
  BY NowhereAssumption
<1>3. source # "LOCAL"
  OBVIOUS
<1> DEFINE plays == CASE source = "LOCAL" -> url [] source = "DRIVE" -> Download(link) [] OTHER -> link
<1>4. plays = IF source = "DRIVE" THEN Download(link) ELSE link
  BY <1>3
<1>5. Normalize(source, type, url, link) =
        [source |-> source, type |-> IF source = "DRIVE" THEN "DRIVE" ELSE type,
         url |-> plays, processed |-> plays, original |-> link]
  BY <1>1, <1>2 DEF Normalize
<1>6. QED
  BY <1>4, <1>5

LEMMA NormalizedLinked ==
  ASSUME NEW source \in Sources \ {"LOCAL"}, NEW type \in VideoTypes, NEW url, NEW link \in Links,
         Normalize(source, type, url, link) # Refusal, NEW live, NEW up, NEW kept
  PROVE  MovieOK(MovieRow(Normalize(source, type, url, link), live), up, kept)
<1>1. Acceptable(source, type, url, link)
  BY NowhereAssumption DEF Normalize, Submitted
<1> DEFINE row == [source |-> source, type |-> IF source = "DRIVE" THEN "DRIVE" ELSE type,
                   url |-> IF source = "DRIVE" THEN Download(link) ELSE link,
                   processed |-> IF source = "DRIVE" THEN Download(link) ELSE link,
                   original |-> link, live |-> live]
<1>2. MovieRow(Normalize(source, type, url, link), live) = row
  BY <1>1, LinkNormalized DEF MovieRow
<1>3. Acceptable(row.source, row.type, row.url, row.original)
  BY <1>1 DEF Acceptable, Sources
<1>4. row.type \in VideoTypes
  BY DEF VideoTypes
<1>5. QED
  BY <1>2, <1>3, <1>4 DEF MovieOK, Linked

\* No link passes for an address of the storage.
LEMMA StoredRefused ==
  ASSUME NEW source \in Sources \ {"LOCAL"}, NEW type, NEW url, NEW link, StoredAddress(link)
  PROVE  Normalize(source, type, url, link) = Refusal
<1>1. Submitted(url, link) = link
  BY DEF Submitted, StoredAddress
<1>2. ~Acceptable(source, type, url, link)
  BY DEF Acceptable, DriveId, Secure, StoredAddress, Sources
<1>3. QED
  BY <1>1, <1>2 DEF Normalize

LEMMA NormalizedLocal ==
  ASSUME NEW type \in VideoTypes, NEW url, NEW original, StoredAddress(original)
  PROVE  /\ Normalize("LOCAL", type, url, original) # Refusal =>
              Normalize("LOCAL", type, url, original) =
                [source |-> "LOCAL", type |-> type, url |-> url, processed |-> url, original |-> original]
         /\ Normalize("LOCAL", type, url, original) # Refusal =>
              \/ type = "MP4" /\ url \in {StoredAt(".mp4"), StoredAt("remux")}
              \/ type = "HLS" /\ url = StoredAt("master")
<1>1. Submitted(url, original) = original
  BY DEF Submitted, StoredAddress
<1>2. Submitted(url, original) # Nowhere
  BY <1>1 DEF StoredAddress
<1>3. Normalize("LOCAL", type, url, original) # Refusal => Acceptable("LOCAL", type, url, original)
  BY <1>1 DEF Normalize
<1>4. QED
  BY <1>1, <1>2, <1>3 DEF Normalize, Acceptable

-----------------------------------------------------------------------------

\* A movie is saved with the video of the form, and one that is saved keeps the
\* link, file or version that its form has.
LEMMA SaveKeeps == ASSUME DeliveryInv, Save PROVE DeliveryInv'
<1>1. FormOK(form, upload) /\ form # Nowhere /\ form.url # Nowhere
  BY DEF Save, DeliveryInv
<1>2. form.source # Nowhere /\ form.type # Nowhere
  BY <1>1, NowhereAssumption DEF FormOK
<1>3. form.original # Nowhere
  BY <1>1, NowhereAssumption DEF FormOK, StoredAddress
<1> DEFINE row == Normalize(form.source, form.type, form.url, form.original)
<1>4. row # Refusal /\ LocalReady(row) /\ \E live : movie' = MovieRow(row, live)
  BY <1>1, <1>2, <1>3 DEF Save, EditedVideo
<1>5. form' = Nowhere /\ UNCHANGED <<upload, stored>>
  BY DEF Save
<1>6. PICK live : movie' = MovieRow(row, live)
  BY <1>4
<1>7. CASE form.source # "LOCAL"
  <2>1. form.original \in Links
    BY <1>1, <1>4, <1>7, StoredRefused DEF FormOK
  <2>2. MovieOK(movie', upload, stored)
    BY <1>1, <1>4, <1>6, <1>7, <2>1, NormalizedLinked DEF FormOK
  <2>3. MovieOK(movie', upload', stored')
    BY <1>5, <2>2 DEF MovieOK, Linked, Local, AttachedSet, Own
  <2>4. QED
    BY <1>5, <2>3 DEF DeliveryInv
<1>8. CASE form.source = "LOCAL"
  <2>1. StoredAddress(form.original)
    BY <1>1, <1>8 DEF FormOK
  <2>0. row = Normalize("LOCAL", form.type, form.url, form.original)
    BY <1>8
  <2>2. row = [source |-> "LOCAL", type |-> form.type, url |-> form.url, processed |-> form.url,
               original |-> form.original]
    BY <1>1, <1>4, <2>0, <2>1, NormalizedLocal DEF FormOK
  <2>3. movie' = [source |-> "LOCAL", type |-> form.type, url |-> form.url, processed |-> form.url,
                  original |-> form.original, live |-> live]
    BY <1>6, <2>2 DEF MovieRow
  <2>4. form.url.key \in stored
    BY <1>4, <2>2 DEF LocalReady
  <2>5. \/ form.type = "MP4" /\ form.url \in {StoredAt(".mp4"), StoredAt("remux")}
        \/ form.type = "HLS" /\ form.url = StoredAt("master")
    BY <1>1, <1>4, <1>8, <2>1, NormalizedLocal DEF FormOK
  <2>6. form.type = "MP4" => Own(form.url, form.original, upload)
    BY <1>1, <1>8, <2>5 DEF FormOK, StoredAt
  <2>7. MovieOK(movie', upload, stored)
    BY <2>1, <2>3, <2>4, <2>5, <2>6 DEF MovieOK, Local, VideoTypes
  <2>8. MovieOK(movie', upload', stored')
    BY <1>5, <2>7 DEF MovieOK, Linked, Local, AttachedSet, Own
  <2>9. QED
    BY <1>5, <2>8 DEF DeliveryInv
<1>9. QED
  BY <1>7, <1>8

\* A form of a movie holds its video.
LEMMA FormOfMovie == ASSUME NEW row, MovieOK(row, upload, stored) PROVE FormOK(FormOf(row), upload)
<1>1. row.source \in Sources /\ row.type \in VideoTypes
  BY DEF MovieOK, Linked, Local, AttachedSet, Sources
<1>2. CASE Linked(row)
  BY <1>1, <1>2 DEF Linked, FormOK, FormOf
<1>3. CASE Local(row, upload, stored)
  <2>1. row.source = "LOCAL" /\ StoredAddress(row.original)
    BY <1>3 DEF Local
  <2>2. CASE row.url = StoredAt("master")
    BY <1>1, <2>1, <2>2 DEF FormOK, FormOf
  <2>3. CASE Own(row.url, row.original, upload)
    BY <1>1, <2>1, <2>3 DEF FormOK, FormOf
  <2>4. QED
    BY <1>3, <2>2, <2>3 DEF Local
<1>4. CASE AttachedSet(row, stored)
  BY <1>1, <1>4 DEF AttachedSet, FormOK, FormOf
<1>5. QED
  BY <1>2, <1>3, <1>4 DEF MovieOK

\* What is stored stays, and an upload that was accepted is kept.
LEMMA MoreStored ==
  ASSUME NEW row, MovieOK(row, upload, stored), stored \subseteq stored', UNCHANGED upload
  PROVE  MovieOK(row, upload', stored')
BY DEF MovieOK, Linked, Local, AttachedSet, Own

LEMMA UploadedForm ==
  ASSUME DeliveryInv, NEW mode \in Modes, Uploaded(mode)
  PROVE  FormOK(form', upload')
<1>1. /\ form # Nowhere /\ form.source = "LOCAL" /\ upload # Nowhere /\ UNCHANGED upload
      /\ FormOK(form, upload)
  BY DEF Uploaded, DeliveryInv
<1> DEFINE extension == upload.row.extension
           key == CASE mode = "ORIGINAL" -> extension [] mode = "HLS" -> "master" [] OTHER -> "remux"
<1>2. PICK first \in {StoredAt(extension), StoredAt(key)} :
        form' = [form EXCEPT !.type = IF mode = "HLS" THEN "HLS" ELSE "MP4",
                             !.url = StoredAt(key), !.original = first]
  BY DEF Uploaded
<1>3. extension \in Extensions /\ key \in Extensions \cup {"master", "remux"}
  BY <1>1 DEF DeliveryInv
<1>4. StoredAddress(first)
  BY <1>3, NowhereAssumption DEF StoredAddress, StoredAt
<1>5. form' = [new |-> form.new, source |-> "LOCAL", type |-> IF mode = "HLS" THEN "HLS" ELSE "MP4",
               url |-> StoredAt(key), original |-> first]
  BY <1>1, <1>2 DEF FormOK
<1>6. form'.source \in Sources /\ form'.type \in VideoTypes
  BY <1>5 DEF Sources, VideoTypes
<1>7. CASE mode = "HLS"
  BY <1>4, <1>5, <1>6, <1>7 DEF FormOK
<1>8. CASE mode # "HLS"
  <2>1. key \in {extension, "remux"}
    BY <1>8
  <2>2. Own(StoredAt(key), first, upload)
    BY <1>1, <2>1 DEF Own
  <2>3. QED
    BY <1>1, <1>4, <1>5, <1>6, <2>2 DEF FormOK
<1>9. QED
  BY <1>7, <1>8

\* An upload that was accepted has one of the extensions.
LEMMA Accepted ==
  ASSUME NEW u, Validate(u) # Refusal
  PROVE  Validate(u).extension = u.extension /\ u.extension \in Extensions
BY DEF Validate, AllowedIdentity

LEMMA DeliveryKept ==
  ASSUME DeliveryInv, [DeliveryNext]_deliveryVars
  PROVE  DeliveryInv'
<1>1. ASSUME UNCHANGED <<upload, stored, movie>>, form' # Nowhere => FormOK(form', upload)
      PROVE  DeliveryInv'
  BY <1>1 DEF DeliveryInv, FormOK, MovieOK, Linked, Local, AttachedSet, Own
<1>2. ASSUME UNCHANGED <<upload, form>>, stored \subseteq stored',
             movie' # Nowhere => MovieOK(movie', upload', stored')
      PROVE  DeliveryInv'
  BY <1>2 DEF DeliveryInv, FormOK
<1>3. CASE OpenForm
  <2>1. FormOK(EmptyForm, upload)
    BY DEF FormOK, EmptyForm, Sources, VideoTypes
  <2>2. Listed => FormOK(FormOf(movie), upload)
    BY FormOfMovie DEF DeliveryInv, Listed
  <2>3. QED
    BY <1>1, <1>3, <2>1, <2>2 DEF OpenForm
<1>4. CASE CloseForm
  BY <1>1, <1>4 DEF CloseForm
<1>5. CASE ChangeSource
  <2>1. FormOK(form, upload)
    BY <1>5 DEF ChangeSource, DeliveryInv
  <2>2. PICK source \in Sources :
          form' = [form EXCEPT !.source = source, !.type = TypeForSource(source),
                               !.url = Nowhere, !.original = Nowhere]
    BY <1>5 DEF ChangeSource
  <2>3. form' = [new |-> form.new, source |-> source, type |-> TypeForSource(source),
                 url |-> Nowhere, original |-> Nowhere]
    BY <2>1, <2>2 DEF FormOK
  <2>4. FormOK(form', upload)
    BY <2>3 DEF FormOK, TypeForSource, VideoTypes
  <2>5. QED
    BY <1>1, <1>5, <2>4 DEF ChangeSource
<1>6. CASE TypeLink
  <2>1. FormOK(form, upload) /\ form.source # "LOCAL"
    BY <1>6 DEF TypeLink, DeliveryInv
  <2>2. PICK link \in Links : form' = [form EXCEPT !.url = link, !.original = link]
    BY <1>6 DEF TypeLink
  <2>3. form' = [new |-> form.new, source |-> form.source, type |-> form.type,
                 url |-> link, original |-> link]
    BY <2>1, <2>2 DEF FormOK
  <2>4. FormOK(form', upload)
    BY <2>1, <2>3 DEF FormOK
  <2>5. QED
    BY <1>1, <1>6, <2>4 DEF TypeLink
<1>7. CASE Receive
  <2>1. PICK u \in Uploads :
          /\ Validate(u) # Refusal /\ upload' = [file |-> u.file, row |-> Validate(u)]
          /\ stored' = {u.extension}
    BY <1>7 DEF Receive
  <2>2. upload'.row.extension \in Extensions \cap stored'
    BY <2>1, Accepted
  <2>3. FormOK(form, upload) /\ upload = Nowhere /\ movie = Nowhere /\ UNCHANGED <<movie, form>>
    BY <1>7 DEF Receive, DeliveryInv
  <2>4. QED
    BY <2>2, <2>3 DEF DeliveryInv, FormOK, Own
<1>8. ASSUME NEW mode \in Modes, Process(mode) PROVE DeliveryInv'
  <2>1. stored \subseteq stored' /\ UNCHANGED <<upload, movie, form>>
    BY <1>8 DEF Process
  <2>2. movie # Nowhere => MovieOK(movie, upload', stored')
    BY <2>1, MoreStored DEF DeliveryInv, MovieOK, Linked, Local, AttachedSet, Own
  <2>3. QED
    BY <1>2, <2>1, <2>2
<1>9. ASSUME NEW mode \in Modes, Uploaded(mode) PROVE DeliveryInv'
  <2>1. FormOK(form', upload') /\ UNCHANGED <<upload, stored, movie>>
    BY <1>9, UploadedForm DEF Uploaded
  <2>2. QED
    BY <1>1, <2>1 DEF FormOK
<1>10. CASE Save
  BY <1>10, SaveKeeps
<1>11. CASE RemoveMovie
  <2>1. MovieOK(movie, upload, stored) /\ movie' = [movie EXCEPT !.live = FALSE] /\ UNCHANGED <<upload, stored, form>>
    BY <1>11 DEF RemoveMovie, Listed, DeliveryInv
  <2>2. movie' = [source |-> movie.source, type |-> movie.type, url |-> movie.url,
                  processed |-> movie.processed, original |-> movie.original, live |-> FALSE]
    BY <2>1 DEF MovieOK
  <2>3. MovieOK(movie', upload', stored')
    BY <2>1, <2>2 DEF MovieOK, Linked, Local, AttachedSet, Own
  <2>4. QED
    BY <1>2, <2>1, <2>3
<1>12. ASSUME NEW version \in {"master", "remux"}, Attach(version) PROVE DeliveryInv'
  <2>1. /\ MovieOK(movie, upload, stored) /\ version \in stored /\ UNCHANGED <<upload, stored, form>>
        /\ movie' = [movie EXCEPT !.source = "HLS", !.type = "HLS", !.url = StoredAt(version),
                                  !.processed = StoredAt(version)]
    BY <1>12 DEF Attach, DeliveryInv
  <2>2. movie' = [source |-> "HLS", type |-> "HLS", url |-> StoredAt(version),
                  processed |-> StoredAt(version), original |-> movie.original, live |-> movie.live]
    BY <2>1 DEF MovieOK
  <2>3. movie.original \in Links \/ StoredAddress(movie.original)
    BY <2>1 DEF MovieOK, Linked, Local, AttachedSet
  <2>4. StoredAt(version) \in {StoredAt("master"), StoredAt("remux")} /\ StoredAt(version).key \in stored
    BY <2>1 DEF StoredAt
  <2>5. MovieOK(movie', upload', stored')
    BY <2>1, <2>2, <2>3, <2>4 DEF MovieOK, AttachedSet, VideoTypes
  <2>6. QED
    BY <1>2, <2>1, <2>5
<1>13. CASE UNCHANGED deliveryVars
  BY <1>1, <1>13 DEF deliveryVars, DeliveryInv
<1>14. QED
  BY <1>3, <1>4, <1>5, <1>6, <1>7, <1>8, <1>9, <1>10, <1>11, <1>12, <1>13 DEF DeliveryNext

-----------------------------------------------------------------------------

\* What a visitor is shown of a movie.
LEMMA ScreenOf ==
  ASSUME PlainLinks, DeliveryInv, NEW row, MovieOK(row, upload, stored)
  PROVE  Screen(row) = IF Undecoded(row) THEN "nothing" ELSE Wanted(row)
<1>1. row.processed = row.url /\ row.type \in VideoTypes
  BY DEF MovieOK
<1>2. CASE Linked(row)
  <2>1. /\ row.original \in Links /\ row.original # Nowhere /\ row.original.at = "web"
        /\ row.original.query = "m3u8" => row.original.path = "m3u8"
        /\ row.original.host \in {"drive", "docs"} => row.original.path = "page"
    BY <1>2, NowhereAssumption DEF Linked, PlainLinks
  <2>7. ~Undecoded(row)
    BY <1>2 DEF Linked, Undecoded
  <2>2. CASE row.source = "EMBED"
    <3>1. row.type = "EMBED" /\ row.original.host \in EmbedHosts
      BY <1>2, <2>2 DEF Linked, Acceptable
    <3>2. Authorize(row).url = row.original
      BY <2>1, <3>1 DEF Authorize, Selected
    <3>3. QED
      BY <2>7, <3>1, <3>2 DEF Screen, Wanted
  <2>3. CASE row.source = "DRIVE"
    <3>1. row.type = "DRIVE" /\ DriveId(row.original)
      BY <1>2, <2>3 DEF Linked, Acceptable
    <3>2. row.original.path = "page" /\ row.original.query # "m3u8" /\ row.original.id
      BY <2>1, <3>1 DEF DriveId
    <3>3. Selected(row) = row.original
      BY <2>1, <3>1 DEF Selected
    <3>4. Authorize(row).url = row.original /\ Authorize(row).original = row.original /\ Authorize(row).type = "MP4"
      BY <2>1, <3>2, <3>3 DEF Authorize
    <3>5. ~Decodes(row.original) /\ Preview(row.original)
      BY <2>1, <3>2 DEF Decodes, Preview
    <3>6. QED
      BY <2>7, <3>1, <3>4, <3>5 DEF Screen, Wanted
  <2>4. CASE row.source = "HLS"
    <3>1. row.type = "HLS" /\ row.original.path = "m3u8" /\ row.url = row.original
      BY <1>2, <2>4 DEF Linked, Acceptable
    <3>2. Selected(row) = row.original
      BY <1>1, <2>1, <3>1 DEF Selected
    <3>3. Authorize(row).url = row.original /\ Authorize(row).type = "HLS"
      BY <2>1, <3>1, <3>2 DEF Authorize
    <3>4. QED
      BY <2>1, <2>7, <3>1, <3>3 DEF Screen, Wanted, StoredAt
  <2>5. CASE row.source = "URL"
    <3>1. row.type = "MP4" /\ row.original.path = "mp4"
      BY <1>2, <2>5 DEF Linked, Acceptable
    <3>2. Selected(row) = row.original /\ row.original.query # "m3u8"
      BY <2>1, <3>1 DEF Selected
    <3>3. Authorize(row).url = row.original /\ Authorize(row).type = "MP4"
      BY <2>1, <3>1, <3>2 DEF Authorize
    <3>4. Decodes(row.original)
      BY <2>1, <3>1 DEF Decodes
    <3>5. QED
      BY <2>7, <3>1, <3>3, <3>4 DEF Screen, Wanted
  <2>6. QED
    BY <1>2, <2>2, <2>3, <2>4, <2>5 DEF Linked, Sources
<1>3. ASSUME row.type = "HLS", row.url = StoredAt("master"), "master" \in stored
      PROVE  Screen(row) = Wanted(row) /\ ~Undecoded(row)
  <2>1. Selected(row) = StoredAt("master")
    BY <1>1, <1>3, NowhereAssumption DEF Selected
  <2>2. Authorize(row).url = StoredAt("master") /\ Authorize(row).type = "HLS"
    BY <2>1 DEF Authorize, StoredAt
  <2>3. QED
    BY <1>3, <2>2 DEF Screen, Wanted, StoredAt, Undecoded
<1>4. ASSUME NEW key \in {".mp4", "remux"}, Selected(row) = StoredAt(key), key \in stored,
             row.type \in {"MP4", "HLS"}, Wanted(row) = "video",
             key = ".mp4" => Compatible(upload.row)
      PROVE  Screen(row) = Wanted(row)
  <2>1. Authorize(row).url = StoredAt(key) /\ Authorize(row).type = "MP4"
    BY <1>4 DEF Authorize, StoredAt
  <2>2. Decodes(StoredAt(key))
    BY <1>4 DEF Decodes, StoredAt
  <2>3. QED
    BY <1>4, <2>1, <2>2 DEF Screen
<1>5. CASE Local(row, upload, stored)
  <2>1. row.source = "LOCAL" /\ row.url.key \in stored /\ row.original # Nowhere
    BY <1>5 DEF Local, StoredAddress
  <2>2. CASE row.type = "HLS" /\ row.url = StoredAt("master")
    BY <1>3, <2>1, <2>2 DEF StoredAt
  <2>3. CASE /\ row.type = "MP4" /\ row.url \in {StoredAt(".mp4"), StoredAt("remux")}
             /\ Own(row.url, row.original, upload)
    <3> DEFINE extension == upload.row.extension
    <3>1. Selected(row) = row.original /\ Wanted(row) = "video"
      BY <2>1, <2>3 DEF Selected, Wanted
    <3>2. extension \in Extensions \cap stored
      BY <2>3 DEF Own, DeliveryInv
    <3>3. CASE row.original = StoredAt(extension) /\ Compatible(upload.row)
      <4>1. extension = ".mp4" /\ ~Undecoded(row)
        BY <3>3 DEF Compatible, Undecoded
      <4>2. QED
        BY <1>4, <2>1, <2>3, <3>1, <3>2, <3>3, <4>1
    <3>4. CASE row.original = StoredAt(extension) /\ ~Compatible(upload.row)
      <4>1. Undecoded(row)
        BY <2>1, <2>3, <3>4 DEF Undecoded
      <4>2. Authorize(row).url = StoredAt(extension) /\ Authorize(row).type = "MP4"
        BY <3>1, <3>2, <3>4 DEF Authorize, StoredAt, Extensions
      <4>3. ~Decodes(StoredAt(extension))
        BY <3>2, <3>4 DEF Decodes, StoredAt, Extensions
      <4>4. QED
        BY <2>1, <2>3, <4>1, <4>2, <4>3 DEF Screen
    <3>5. CASE row.original # StoredAt(extension)
      <4>1. row.original = StoredAt("remux") /\ row.url = row.original /\ ~Undecoded(row)
        BY <2>3, <3>5 DEF Own, Undecoded
      <4>2. "remux" \in stored
        BY <2>1, <4>1 DEF StoredAt
      <4>3. QED
        BY <1>4, <2>1, <2>3, <3>1, <4>1, <4>2
    <3>6. QED
      BY <3>3, <3>4, <3>5
  <2>4. QED
    BY <1>5, <2>2, <2>3 DEF Local
<1>6. CASE AttachedSet(row, stored)
  <2>1. row.source = "HLS" /\ row.type = "HLS" /\ row.url.key \in stored /\ ~Undecoded(row)
    BY <1>6 DEF AttachedSet, Undecoded
  <2>2. CASE row.url = StoredAt("master")
    BY <1>3, <2>1, <2>2 DEF StoredAt
  <2>3. CASE row.url = StoredAt("remux")
    <3>1. Selected(row) = StoredAt("remux") /\ Wanted(row) = "video" /\ "remux" \in stored
      BY <1>1, <2>1, <2>3, NowhereAssumption DEF Selected, Wanted, StoredAt
    <3>2. QED
      BY <1>4, <2>1, <3>1
  <2>4. QED
    BY <1>6, <2>2, <2>3 DEF AttachedSet
<1>7. QED
  BY <1>2, <1>3, <1>5, <1>6 DEF MovieOK

\* Saved again as it is, a movie keeps its video.
LEMMA SavedAgain ==
  ASSUME NEW row, MovieOK(row, upload, stored), ~(row.source = "HLS" /\ row.url.at = "stored")
  PROVE  EditedVideo(row, FormOf(row)) = [f \in DOMAIN row \ {"live"} |-> row[f]]
<1>1. EditedVideo(row, FormOf(row)) = Normalize(row.source, row.type, row.url, row.original)
  BY DEF EditedVideo, FormOf
<1>2. [f \in DOMAIN row \ {"live"} |-> row[f]] =
        [source |-> row.source, type |-> row.type, url |-> row.url, processed |-> row.processed,
         original |-> row.original]
  BY DEF MovieOK
<1>3. CASE Linked(row)
  <2>1. /\ row.source \in Sources \ {"LOCAL"} /\ row.type \in VideoTypes /\ row.original \in Links
        /\ Acceptable(row.source, row.type, row.url, row.original)
    BY <1>3 DEF Linked, MovieOK
  <2>2. Normalize(row.source, row.type, row.url, row.original) =
          [source |-> row.source, type |-> IF row.source = "DRIVE" THEN "DRIVE" ELSE row.type,
           url |-> IF row.source = "DRIVE" THEN Download(row.original) ELSE row.original,
           processed |-> IF row.source = "DRIVE" THEN Download(row.original) ELSE row.original,
           original |-> row.original]
    BY <2>1, LinkNormalized
  <2>3. QED
    BY <1>1, <1>2, <1>3, <2>2 DEF Linked, MovieOK
<1>4. CASE Local(row, upload, stored)
  <2>1. row.source = "LOCAL" /\ row.original # Nowhere /\ row.type # "DRIVE"
    BY <1>4 DEF Local, StoredAddress
  <2>2. Submitted(row.url, row.original) = row.original
    BY <2>1 DEF Submitted
  <2>3. Acceptable(row.source, row.type, row.url, row.original)
    BY <1>4 DEF Acceptable, Local
  <2>4. Normalize(row.source, row.type, row.url, row.original) =
          [source |-> row.source, type |-> row.type, url |-> row.url, processed |-> row.url,
           original |-> row.original]
    BY <2>1, <2>2, <2>3 DEF Normalize
  <2>5. QED
    BY <1>1, <1>2, <2>4 DEF MovieOK
<1>5. CASE AttachedSet(row, stored)
  BY <1>5 DEF AttachedSet, StoredAt
<1>6. QED
  BY <1>3, <1>4, <1>5 DEF MovieOK

\* An import finds the source of the link of a movie.
LEMMA Imported ==
  ASSUME PlainLinks, NEW row, MovieOK(row, upload, stored),
         row.source \in {"URL", "DRIVE"} \/ (row.source = "HLS" /\ row.url.at = "web")
  PROVE  LET found == Inferred(row.original)
         IN Normalize(found[1], found[2], row.original, row.original) # Refusal
<1> DEFINE link == row.original
<1>1. Linked(row)
  BY DEF MovieOK, Local, AttachedSet, StoredAt
<1>2. /\ link \in Links /\ link.at = "web" /\ (link.query = "m3u8" => link.path = "m3u8")
      /\ link.host \in {"drive", "docs"} => link.path = "page"
  BY <1>1 DEF Linked, PlainLinks
<1>3. link # StoredAt(".mp4") /\ link # StoredAt("master")
  BY <1>2 DEF StoredAt
<1>4. ASSUME NEW source \in Sources \ {"LOCAL"}, NEW type \in VideoTypes, Acceptable(source, type, link, link)
      PROVE  Normalize(source, type, link, link) # Refusal
  <2> DEFINE plays == IF source = "DRIVE" THEN Download(link) ELSE link
             played == Links \cup {Download(l) : l \in Links}
  <2>1. Normalize(source, type, link, link) =
          [source |-> source, type |-> IF source = "DRIVE" THEN "DRIVE" ELSE type,
           url |-> plays, processed |-> plays, original |-> link]
    BY <1>2, <1>4, LinkNormalized
  <2>2. plays \in played /\ (IF source = "DRIVE" THEN "DRIVE" ELSE type) \in VideoTypes
    BY <1>2 DEF VideoTypes
  <2> HIDE DEF plays, played
  <2>3. Normalize(source, type, link, link) \in
          [source: Sources, type: VideoTypes, url: played, processed: played, original: Links]
    BY <1>2, <2>1, <2>2
  <2>4. QED
    BY <2>3, NowhereAssumption DEF played
<1>5. CASE row.source = "DRIVE"
  <2>1. DriveId(link)
    BY <1>1, <1>5 DEF Linked, Acceptable
  <2>2. Inferred(link) = <<"DRIVE", "DRIVE">>
    BY <1>3, <2>1 DEF Inferred, DriveId
  <2>3. Acceptable("DRIVE", "DRIVE", link, link)
    BY <2>1 DEF Acceptable
  <2>4. QED
    BY <1>4, <2>2, <2>3 DEF Sources, VideoTypes
<1>6. CASE row.source = "HLS"
  <2>1. Secure(link) /\ link.path = "m3u8"
    BY <1>1, <1>6 DEF Linked, Acceptable
  <2>2. Inferred(link) = <<"HLS", "HLS">>
    BY <1>2, <1>3, <2>1 DEF Inferred
  <2>3. Acceptable("HLS", "HLS", link, link)
    BY <2>1 DEF Acceptable
  <2>4. QED
    BY <1>4, <2>2, <2>3 DEF Sources, VideoTypes
<1>7. CASE row.source = "URL"
  <2>1. Secure(link) /\ link.path = "mp4"
    BY <1>1, <1>7 DEF Linked, Acceptable
  <2>2. Inferred(link) = <<"URL", "MP4">>
    BY <1>2, <1>3, <2>1 DEF Inferred
  <2>3. Acceptable("URL", "MP4", link, link)
    BY <2>1 DEF Acceptable
  <2>4. QED
    BY <1>4, <2>2, <2>3 DEF Sources, VideoTypes
<1>8. QED
  BY <1>5, <1>6, <1>7

\* However a movie got its video - a link, an upload, a remux or playlist that
\* was put in or attached - visitors are shown what its type needs, except of an
\* uploaded original that browsers do not decode; saving it again keeps it, and an
\* import finds the source of its link.
THEOREM LinksPlay == PlainLinks /\ DeliverySpec => []LinkPlaysAsSubmitted
<1>1. DeliveryInit => DeliveryInv
  BY DEF DeliveryInit, DeliveryInv
<1>2. ASSUME PlainLinks PROVE DeliverySpec => []LinkPlaysAsSubmitted
  <2>1. DeliveryInv /\ [DeliveryNext]_deliveryVars => DeliveryInv'
    BY DeliveryKept
  <2>2. DeliveryInv => LinkPlaysAsSubmitted
    BY <1>2, ScreenOf, SavedAgain, Imported DEF DeliveryInv, LinkPlaysAsSubmitted
  <2>3. QED
    BY <1>1, <2>1, <2>2, PTL DEF DeliverySpec
<1>3. QED
  BY <1>2

-----------------------------------------------------------------------------

\* The row of an upload is one that validateVideo makes.
UploadAccepted == upload # Nowhere => \E u : upload.row = Validate(u) /\ Validate(u) # Refusal

\* The row names the type of the file by its extension and the codec of its
\* picture as FFprobe does.
LEMMA AcceptedRow ==
  ASSUME NEW u, Validate(u) # Refusal
  PROVE  /\ Validate(u).extension = ".mkv" => Validate(u).mime = "video/x-matroska"
         /\ Validate(u).extension # ".mkv" => Validate(u).mime = "video/mp4"
         /\ Validate(u).video = Validate(u).meta.video
BY DEF Validate

\* A remux has the tracks of the original, copied when all are AAC, and AAC else.
LEMMA RemuxedTracks ==
  ASSUME NEW meta, NEW audio \in RemuxTracks(meta) PROVE audio = "aac"
<1>1. CASE RemuxPlan(meta).copyAudio
  BY <1>1 DEF RemuxTracks, RemuxPlan, Copyable
<1>2. CASE ~RemuxPlan(meta).copyAudio
  BY <1>2 DEF RemuxTracks
<1>3. QED
  BY <1>1, <1>2

\* Whatever is uploaded: what panel and server say of the original agrees for an
\* .mp4 or .mkv, and differs for a .mov or .webm exactly when its streams would
\* play; and a remux that is allowed plays with each of its tracks.
THEOREM OriginalsAndRemuxesPlay ==
  DeliverySpec => [](upload # Nowhere => OriginalAgrees(upload.row) /\ RemuxPlays(upload.row))
<1>1. DeliveryInit => UploadAccepted
  BY DEF DeliveryInit, UploadAccepted
<1>2. UploadAccepted /\ [DeliveryNext]_deliveryVars => UploadAccepted'
  <2>1. SUFFICES ASSUME UploadAccepted, [DeliveryNext]_deliveryVars PROVE UploadAccepted'
    OBVIOUS
  <2>2. CASE Receive
    <3>1. PICK u \in Uploads : Validate(u) # Refusal /\ upload' = [file |-> u.file, row |-> Validate(u)]
      BY <2>2 DEF Receive
    <3>2. upload'.row = Validate(u)
      BY <3>1
    <3>3. QED
      BY <3>1, <3>2 DEF UploadAccepted
  <2>3. CASE UNCHANGED upload
    BY <2>1, <2>3 DEF UploadAccepted
  <2>4. Receive \/ UNCHANGED upload
    BY <2>1 DEF DeliveryNext, deliveryVars, OpenForm, CloseForm, ChangeSource, TypeLink, Process, Uploaded,
                Save, RemoveMovie, Attach
  <2>5. QED
    BY <2>2, <2>3, <2>4
<1>3. ASSUME UploadAccepted, upload # Nowhere PROVE OriginalAgrees(upload.row) /\ RemuxPlays(upload.row)
  <2>1. PICK u : upload.row = Validate(u) /\ Validate(u) # Refusal
    BY <1>3 DEF UploadAccepted
  <2> DEFINE row == upload.row
  <2>2. /\ row.extension = ".mkv" => row.mime = "video/x-matroska"
        /\ row.extension # ".mkv" => row.mime = "video/mp4"
        /\ row.video = row.meta.video
    BY <2>1, AcceptedRow
  <2>3. OriginalAgrees(row)
    BY <2>2 DEF OriginalAgrees, PanelPlays, Compatible
  <2>4. RemuxPlays(row)
    BY <2>2, RemuxedTracks DEF RemuxPlays, RemuxPlan, Compatible
  <2>5. QED
    BY <2>3, <2>4
<1>4. QED
  BY <1>1, <1>2, <1>3, PTL DEF DeliverySpec
=============================================================================
