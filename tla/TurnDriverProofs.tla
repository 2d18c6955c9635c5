--------------------------- MODULE TurnDriverProofs ---------------------------
(***************************************************************************)
(* Proofs about TurnDriver, for any humans and bots: the turn timer and a  *)
(* bot's timer are never both armed, and once the end of a round is        *)
(* announced nothing drives it any more.                                   *)
(*                                                                         *)
(* Whoever changes the game makes sure that the round goes on, which the   *)
(* callbacks under the lock do not look at again: they know it because     *)
(* they, and the events that came in between, remember whose turn it was.  *)
(***************************************************************************)
EXTENDS TurnDriver, TLAPS

(* What a callback that holds the lock may rely on.                         *)
Remembered ==
    /\ holder.at = "acting" => holder.for \in Player
    /\ holder.at = "thinking" =>
        holder.for \in Bot /\ (holder.same => actor = holder.for)
    /\ holder.who = "overdue" => holder.for \in Player

(* Of a game that is stored or gone no timer and no callback is left.       *)
Resting ==
    game # "live" =>
        /\ timer = Stopped /\ ~botTimer /\ ~announced
        /\ ~botJumpIn /\ ~botCatch /\ ~humanJumpIn
        /\ autoPlay = {} /\ grace = {} /\ pending = {}
        /\ holder = Idle

Steady == OneDriver /\ SettledRound /\ Remembered /\ Resting

Timers == [is : {"stopped", "armed", "fired"}, kind : {"turn", "immediate"},
           onTime : BOOLEAN]
Holders == [who : Driving \cup {"nobody"}, for : Player \cup {None},
            at : {"rest", "thinking", "acting", "projecting", "telling"},
            valid : BOOLEAN, same : BOOLEAN, acts : 0..MaxActs]

Typed ==
    /\ game \in {"live", "stored", "gone"} /\ jumpIn \in JumpInRules
    /\ actor \in Player \cup {None}
    /\ beat \in BOOLEAN /\ announced \in BOOLEAN /\ botTimer \in BOOLEAN
    /\ botJumpIn \in BOOLEAN /\ botCatch \in BOOLEAN /\ humanJumpIn \in BOOLEAN
    /\ connected \in [Player -> BOOLEAN] /\ autopilot \in [Player -> BOOLEAN]
    /\ timeouts \in [Player -> 0..AutoAutopilotThreshold]
    /\ timer \in Timers
    /\ autoPlay \subseteq Human /\ grace \subseteq Human
    /\ pending \subseteq Human \cup {BotJumpIn}
    /\ holder \in Holders
    /\ holder.who = "nobody" <=> holder.at = "rest"
    /\ announced => actor = None

Driven == Typed /\ Steady

LEMMA TypedIs == TypeOK <=> Typed
BY DEF TypeOK, Typed, Timers, Holders

LEMMA Values ==
    /\ Stopped \in Timers /\ Stopped.is = "stopped"
    /\ Idle \in Holders /\ Idle.who = "nobody" /\ Idle.at = "rest"
    /\ "nobody" \notin Driving /\ None \notin Player /\ Player = Human \cup Bot
    /\ None \notin Bot /\ \A b \in JumpInRules : b \in BOOLEAN
BY PlayerAssumption, BoundAssumption
DEF Stopped, Timers, Idle, Holders, Driving, Player

(* startTurnTimer arms one of the two timers, and none for nobody.          *)
LEMMA StartsOne ==
    ASSUME Typed, NEW a \in Player \cup {None}, NEW auto \in [Player -> BOOLEAN],
           startTurnTimer(a, auto)
    PROVE  /\ timer' \in Timers /\ botTimer' \in BOOLEAN
           /\ timer'.is # "stopped" => ~botTimer'
           /\ a = None => timer' = Stopped /\ ~botTimer'
<1>1. a \in Bot => a # None
  BY Values
<1>2. CASE a \in Bot /\ ~auto[a]
  BY <1>1, <1>2, Values DEF startTurnTimer
<1>3. CASE ~(a \in Bot /\ ~auto[a]) /\ a = None
  BY <1>3, Values DEF startTurnTimer
<1>4. CASE ~(a \in Bot /\ ~auto[a]) /\ a # None
  <2> DEFINE k == IF auto[a] THEN "immediate" ELSE "turn"
  <2>1. k \in {"turn", "immediate"}
    OBVIOUS
  <2>2. timer' = [is |-> "armed", onTime |-> TRUE, kind |-> k] /\ botTimer' = FALSE
    BY <1>4 DEF startTurnTimer
  <2> HIDE DEF k
  <2>3. timer' \in Timers
    BY <2>1, <2>2 DEF Timers
  <2> QED
    BY <1>4, <2>2, <2>3
<1> QED
  BY <1>2, <1>3, <1>4

LEMMA RunsOn ==
    ASSUME Typed, NEW a \in Player \cup {None}
    PROVE  Running(a) \in Timers /\ Running(a).is = timer.is
BY DEF Typed, Running, Timers

(* What remains of the holder when it is overtaken or its timers voided.    *)
LEMMA Interrupted ==
    ASSUME Typed, NEW h \in {Overtaken, Voided}
    PROVE  /\ h \in Holders /\ h.who = holder.who /\ h.for = holder.for /\ h.at = holder.at
           /\ holder = Idle => h = Idle
<1>1. /\ [holder EXCEPT !.same = FALSE] \in Holders
      /\ [holder EXCEPT !.valid = FALSE] \in Holders
  BY DEF Typed, Holders
<1>2. CASE h = Overtaken
  <2>1. h \in {holder, [holder EXCEPT !.same = FALSE]}
    BY <1>2 DEF Overtaken
  <2>2. h \in Holders /\ h.who = holder.who /\ h.for = holder.for /\ h.at = holder.at
    BY <1>1, <2>1 DEF Typed, Holders
  <2> QED
    BY <1>2, <2>2, Values DEF Overtaken, Holds
<1>3. CASE h = Voided
  <2>1. h \in {holder, [holder EXCEPT !.valid = FALSE]}
    BY <1>3 DEF Voided
  <2>2. h \in Holders /\ h.who = holder.who /\ h.for = holder.for /\ h.at = holder.at
    BY <1>1, <2>1 DEF Typed, Holders
  <2> QED
    BY <1>3, <2>2, Values DEF Voided
<1> QED
  BY <1>2, <1>3

LEMMA Overtakes ==
    ASSUME Typed, holder.at = "thinking"
    PROVE  ~Overtaken.same
BY DEF Typed, Overtaken, Holders

LEMMA Voids ==
    ASSUME Typed
    PROVE  Voided.same = holder.same
BY DEF Typed, Voided, Holders

LEMMA ActsBounded ==
    ASSUME NEW p, NEW a, NEW n \in 0..MaxActs
    PROVE  Acts(p, a, n) \in 0..MaxActs
BY BoundAssumption DEF Acts

LEMMA Drives ==
    ASSUME NEW who \in Driving, NEW p \in Player, NEW a \in Player \cup {None},
           Drive(who, p, a)
    PROVE  /\ holder' \in Holders /\ holder'.who = who /\ holder'.for = p
           /\ holder'.at \in {"acting", "projecting"} /\ who # "nobody"
           /\ actor' \in Player \cup {None} /\ beat' \in BOOLEAN /\ botJumpIn' = FALSE
<1>1. Acts(p, a, 1) \in 0..MaxActs /\ 0 \in 0..MaxActs
  BY ActsBounded, BoundAssumption
<1>2. /\ actor' = a /\ beat' = ~beat /\ botJumpIn' = FALSE
      /\ holder' = [who |-> who, for |-> p, valid |-> TRUE, same |-> TRUE,
                    acts |-> IF who \in Autopilot THEN Acts(p, a, 1) ELSE 0,
                    at |-> IF who \in Autopilot THEN "acting" ELSE "projecting"]
  BY DEF Drive, Applied
<1>3. CASE who \in Autopilot
  BY <1>1, <1>2, <1>3, Values DEF Holders
<1>4. CASE who \notin Autopilot
  BY <1>1, <1>2, <1>4, Values DEF Holders
<1> QED
  BY <1>3, <1>4

LEMMA Announces ==
    ASSUME Typed, SettledRound, Announce
    PROVE  /\ announced' = TRUE /\ timer' = Stopped /\ ~botTimer' /\ botTimer' \in BOOLEAN
           /\ botJumpIn' = FALSE /\ botCatch' \in BOOLEAN
           /\ timeouts' \in [Player -> 0..AutoAutopilotThreshold]
<1>1. CASE announced
  BY <1>1 DEF SettledRound, Typed, Announce, drivers
<1>2. CASE ~announced
  <2>1. /\ announced' = TRUE /\ timer' = Stopped /\ botTimer' = FALSE
        /\ botJumpIn' = FALSE /\ botCatch' = FALSE
    BY <1>2 DEF Announce
  <2>2. timeouts' \in [Player -> 0..AutoAutopilotThreshold]
    BY <1>2, BoundAssumption DEF Announce
  <2> QED
    BY <2>1, <2>2
<1> QED
  BY <1>1, <1>2

LEMMA MayJumpIn ==
    ASSUME Typed, scheduleAutopilotJumpIn
    PROVE  humanJumpIn' \in BOOLEAN
BY Values DEF Typed, scheduleAutopilotJumpIn

LEMMA InitDriven == Init => Driven
<1> SUFFICES ASSUME Init PROVE Driven
  OBVIOUS
<1>1. timer \in Timers /\ (timer.is # "stopped" => ~botTimer)
  BY Values DEF Init, Timers
<1>2. /\ connected \in [Player -> BOOLEAN] /\ autopilot \in [Player -> BOOLEAN]
      /\ timeouts \in [Player -> 0..AutoAutopilotThreshold]
  BY BoundAssumption DEF Init
<1>3. /\ game \in {"live", "stored", "gone"} /\ jumpIn \in JumpInRules
      /\ actor \in Player /\ beat = FALSE /\ announced = FALSE
      /\ botJumpIn = FALSE /\ botCatch = FALSE /\ humanJumpIn = FALSE
      /\ autoPlay = {} /\ grace = {} /\ pending = {} /\ holder = Idle
  BY DEF Init
<1>4. Typed
  <2>1. botTimer \in BOOLEAN
    BY DEF Init
  <2> QED
    BY <1>1, <1>2, <1>3, <2>1, Values DEF Typed
<1>5. OneDriver /\ SettledRound /\ Remembered
  BY <1>1, <1>3, Values DEF OneDriver, SettledRound, Remembered, Driving
<1>6. Resting
  BY DEF Init, Resting
<1> QED
  BY <1>4, <1>5, <1>6, TypedIs DEF Driven, Steady


(* Who has nothing to do dispatches again, who acts takes the lock.         *)
LEMMA AgainKeeps ==
    ASSUME Driven, DispatchAgain, game = "live"
    PROVE  Driven'
<1> USE DEF Driven
<1>1. /\ timer' \in Timers /\ botTimer' \in BOOLEAN /\ (timer'.is # "stopped" => ~botTimer')
      /\ actor = None => timer' = Stopped /\ ~botTimer'
  BY StartsOne DEF DispatchAgain, Typed
<1>2. Typed'
  BY <1>1, Values DEF DispatchAgain, Typed, settings, players, drivers, extras
<1>3. Steady'
  BY <1>1, Values DEF DispatchAgain, Typed, Steady, OneDriver, SettledRound, Remembered, Resting,
       settings, players, drivers, extras
<1> QED
  BY <1>2, <1>3

LEMMA DriveKeeps ==
    ASSUME Driven, game = "live", actor # None,
           NEW who \in Driving, NEW p \in Player, NEW a \in Player \cup {None},
           Drive(who, p, a), timer' \in {Stopped, Running(a)}, humanJumpIn' \in BOOLEAN,
           UNCHANGED <<settings, announced, players, botTimer, botCatch, autoPlay, grace, pending>>
    PROVE  Driven'
<1> USE DEF Driven
<1>1. /\ holder' \in Holders /\ holder'.who = who /\ holder'.for = p
      /\ holder'.at \in {"acting", "projecting"} /\ who # "nobody"
      /\ actor' \in Player \cup {None} /\ beat' \in BOOLEAN /\ botJumpIn' = FALSE
  BY Drives
<1>2. timer' \in Timers /\ (timer'.is # "stopped" => timer.is # "stopped")
  BY RunsOn, Values
<1>3. ~announced
  BY DEF Typed
<1>4. Typed'
  BY <1>1, <1>2, <1>3, Values DEF Typed, settings, players
<1>5. Steady'
  BY <1>1, <1>2, <1>3 DEF Steady, OneDriver, SettledRound, Remembered, Resting, settings
<1> QED
  BY <1>4, <1>5

LEMMA CallbackKeeps == Driven /\ Callback => Driven'
<1> SUFFICES ASSUME Driven, Callback PROVE Driven'
  OBVIOUS
<1> USE DEF Driven
<1>1. CASE Fires
  <2>1. timer' \in Timers /\ timer.is # "stopped" /\ timer'.is # "stopped"
    BY <1>1 DEF Fires, Typed, Timers
  <2>2. Typed'
    BY <1>1, <2>1 DEF Fires, Typed, settings, players, drivers, extras
  <2>3. Steady'
    BY <1>1, <2>1, Values DEF Fires, Typed, Steady, OneDriver, SettledRound, Remembered, Resting,
       settings, players, drivers, extras
  <2> QED
    BY <2>2, <2>3
<1>2. CASE TurnCallback
  <2>1. game = "live"
    BY <1>2, Values DEF TurnCallback, Steady, Resting
  <2> DEFINE pid == IF timer.kind = "immediate" THEN ImmediatePlayer ELSE actor
             who == IF timer.kind = "immediate" THEN "immediate" ELSE "overdue"
  <2>2. CASE DispatchAgain
    BY <2>1, <2>2, AgainKeeps
  <2>3. ASSUME pid # None, NEW a \in Player \cup {None}, Drive(who, pid, a), timer' = Stopped,
               scheduleAutopilotJumpIn,
               UNCHANGED <<settings, announced, players, botTimer, botCatch, autoPlay, grace,
                           pending>>
        PROVE  Driven'
    <3>1. pid \in Player /\ actor # None /\ who \in Driving
      BY <2>3 DEF ImmediatePlayer, Typed, Driving
    <3>2. humanJumpIn' \in BOOLEAN
      BY <2>3, MayJumpIn
    <3> HIDE DEF pid, who
    <3> QED
      BY <2>1, <2>3, <3>1, <3>2, DriveKeeps
  <2> QED
    BY <1>2, <2>2, <2>3 DEF TurnCallback
<1>3. CASE BotCallback
  <2>1. game = "live"
    BY <1>3 DEF BotCallback, Steady, Resting
  <2>2. CASE DispatchAgain
    BY <2>1, <2>2, AgainKeeps
  <2>3. ASSUME BotMayPlay, NEW a \in Player \cup {None}, Drive("bot", actor, a),
               timer' = Running(a), scheduleAutopilotJumpIn,
               UNCHANGED <<settings, announced, players, botTimer, botCatch, autoPlay, grace,
                           pending>>
        PROVE  Driven'
    <3>1. actor \in Player /\ actor # None /\ "bot" \in Driving
      BY <2>3 DEF BotMayPlay, Typed, Driving
    <3>2. humanJumpIn' \in BOOLEAN
      BY <2>3, MayJumpIn
    <3> QED
      BY <2>1, <2>3, <3>1, <3>2, DriveKeeps
  <2>4. ASSUME actor \in Bot,
               holder' = [Idle EXCEPT !.who = "bot", !.for = actor, !.at = "thinking"],
               UNCHANGED <<settings, actor, beat, announced, players, drivers, botJumpIn,
                           extras, pending>>
        PROVE  Driven'
    <3>1. /\ holder' \in Holders /\ holder'.who = "bot" /\ holder'.at = "thinking"
          /\ holder'.for = actor
      BY <2>4, Values, BoundAssumption DEF Holders, Idle, Driving
    <3>2. Typed'
      BY <2>4, <3>1 DEF Typed, settings, players, drivers, extras
    <3>3. Steady'
      BY <2>1, <2>4, <3>1 DEF Typed, Steady, OneDriver, SettledRound, Remembered, Resting,
       settings, players, drivers, extras
    <3> QED
      BY <3>2, <3>3
  <2> QED
    BY <1>3, <2>2, <2>3, <2>4 DEF BotCallback
<1>4. CASE JumpInCallback
  <2>1. game = "live" /\ actor # None
    BY <1>4 DEF JumpInCallback, Steady, Resting
  <2>2. ASSUME NEW p \in Bot, NEW a \in Player \cup {None}, Drive("botJumpIn", p, a),
               timer' = Running(a), UNCHANGED pending
        PROVE  Driven'
    <3>1. p \in Player /\ "botJumpIn" \in Driving /\ humanJumpIn \in BOOLEAN
      BY Values DEF Driving, Typed
    <3> QED
      BY <1>4, <2>1, <2>2, <3>1, DriveKeeps DEF JumpInCallback, extras
  <2>3. CASE pending' = pending \cup {BotJumpIn} /\ botJumpIn' = FALSE
             /\ UNCHANGED <<actor, beat, timer, holder>>
    <3>1. Typed'
      BY <1>4, <2>3 DEF JumpInCallback, Typed, settings, players, drivers, extras
    <3>2. Steady'
      BY <1>4, <2>1, <2>3 DEF JumpInCallback, Typed, Steady, OneDriver, SettledRound, Remembered, Resting,
       settings, players, drivers, extras
    <3> QED
      BY <3>1, <3>2
  <2> QED
    BY <1>4, <2>2, <2>3 DEF JumpInCallback
<1>5. CASE HumanJumpInCallback
  <2>1. game = "live"
    BY <1>5 DEF HumanJumpInCallback, Steady, Resting
  <2>2. CASE UNCHANGED <<actor, beat, timer, botJumpIn, holder>>
    <3>1. Typed'
      BY <1>5, <2>2 DEF HumanJumpInCallback, Typed, settings, players, drivers, extras
    <3>2. Steady'
      BY <1>5, <2>1, <2>2 DEF HumanJumpInCallback, Typed, Steady, OneDriver, SettledRound, Remembered, Resting,
       settings, players, drivers, extras
    <3> QED
      BY <3>1, <3>2
  <2>3. ASSUME actor # None, NEW p \in Player, NEW a \in Player \cup {None},
               Drive("humanJumpIn", p, a), timer' = Running(a)
        PROVE  Driven'
    <3>1. "humanJumpIn" \in Driving /\ humanJumpIn' \in BOOLEAN
      BY <1>5 DEF Driving, HumanJumpInCallback
    <3> QED
      BY <1>5, <2>1, <2>3, <3>1, DriveKeeps DEF HumanJumpInCallback
  <2> QED
    BY <1>5, <2>2, <2>3 DEF HumanJumpInCallback
<1>6. CASE CatchCallback
  <2>1. game = "live"
    BY <1>6 DEF CatchCallback, Steady, Resting
  <2>2. CASE UNCHANGED <<actor, beat, timer, botJumpIn>>
    <3>1. Typed'
      BY <1>6, <2>2 DEF CatchCallback, Typed, settings, players, drivers, extras
    <3>2. Steady'
      BY <1>6, <2>1, <2>2 DEF CatchCallback, Typed, Steady, OneDriver, SettledRound, Remembered, Resting,
       settings, players, drivers, extras
    <3> QED
      BY <3>1, <3>2
  <2>3. ASSUME actor # None, NEW target \in Player, Applied(target), timer' = Running(target)
        PROVE  Driven'
    <3>1. timer' \in Timers /\ timer'.is = timer.is /\ ~announced /\ holder.at = "rest"
      BY <1>6, <2>3, RunsOn DEF Typed, CatchCallback, Free
    <3>2. Typed'
      BY <1>6, <2>3, <3>1 DEF CatchCallback, Applied, Typed, settings, players, drivers, extras
    <3>3. Steady'
      BY <1>6, <2>1, <2>3, <3>1, Values DEF CatchCallback, Applied, Free, Typed, Steady, OneDriver, SettledRound, Remembered, Resting,
       settings, players, drivers, extras, Driving
    <3> QED
      BY <3>2, <3>3
  <2> QED
    BY <1>6, <2>2, <2>3 DEF CatchCallback
<1>7. ASSUME NEW h \in Human, AutoPlayCallback(h)
      PROVE  Driven'
  <2>1. game = "live" /\ h \in Player /\ h # None
    BY <1>7, Values DEF AutoPlayCallback, Steady, Resting
  <2>2. CASE /\ autoPlay' = autoPlay \ {h}
             /\ UNCHANGED <<actor, beat, timer, botJumpIn, humanJumpIn, holder>>
    <3>1. Typed'
      BY <1>7, <2>2 DEF AutoPlayCallback, Typed, settings, players, drivers, extras
    <3>2. Steady'
      BY <1>7, <2>1, <2>2 DEF AutoPlayCallback, Typed, Steady, OneDriver, SettledRound, Remembered, Resting,
       settings, players, drivers, extras
    <3> QED
      BY <3>1, <3>2
  <2>3. ASSUME actor = h, NEW a \in Player \cup {None}, Drive("autoplay", h, a),
               timer' = Running(a), scheduleAutopilotJumpIn, UNCHANGED autoPlay
        PROVE  Driven'
    <3>1. "autoplay" \in Driving /\ humanJumpIn' \in BOOLEAN
      BY <2>3, MayJumpIn DEF Driving
    <3> QED
      BY <1>7, <2>1, <2>3, <3>1, DriveKeeps DEF AutoPlayCallback
  <2> QED
    BY <1>7, <2>2, <2>3 DEF AutoPlayCallback
<1>8. ASSUME NEW h \in Human, GraceEnds(h)
      PROVE  Driven'
  <2>1. game = "live"
    BY <1>8 DEF GraceEnds, Steady, Resting
  <2>2. autopilot' \in [Player -> BOOLEAN] /\ autoPlay' \subseteq Human
    BY <1>8 DEF GraceEnds, Typed
  <2>3. Typed'
    BY <1>8, <2>2 DEF GraceEnds, Typed, settings, players, drivers, extras
  <2>4. Steady'
    BY <1>8, <2>1 DEF GraceEnds, Typed, Steady, OneDriver, SettledRound, Remembered, Resting,
       settings, players, drivers, extras
  <2> QED
    BY <2>3, <2>4
<1> QED
  BY <1>1, <1>2, <1>3, <1>4, <1>5, <1>6, <1>7, <1>8 DEF Callback

(* What the holder of the lock does when it has projected.                  *)
LEMMA HolderKeeps == Driven /\ (HolderGoesOn \/ Continues) => Driven'
<1> SUFFICES ASSUME Driven, HolderGoesOn \/ Continues PROVE Driven'
  OBVIOUS
<1> USE DEF Driven
<1>0. game = "live" /\ holder \in Holders
  <2>1. holder.at # "rest"
    BY DEF HolderGoesOn, Continues, BotDecides, Stops, AnnouncesEnd, CountsTimeout, Tells,
       HandsOn, BotHandsOn, JumpInHandsOn
  <2> QED
    BY <2>1, Values DEF Steady, Resting, Typed
<1>1. CASE BotDecides
  <2>1. CASE holder' = Idle /\ UNCHANGED <<settings, actor, beat, announced, players, drivers,
                                           botJumpIn, extras, pending>>
    <3>1. Typed'
      BY <2>1, Values DEF Typed, settings, players, drivers, extras
    <3>2. Steady'
      BY <1>0, <2>1, Values DEF Typed, Steady, OneDriver, SettledRound, Remembered, Resting,
       settings, players, drivers, extras
    <3> QED
      BY <3>1, <3>2
  <2>2. CASE DispatchAgain
    BY <1>0, <2>2, AgainKeeps
  <2>3. ASSUME holder.same, NEW a \in Player \cup {None}, Drive("bot", actor, a),
               timer' = Running(a), scheduleAutopilotJumpIn,
               UNCHANGED <<settings, announced, players, botTimer, botCatch, autoPlay, grace,
                           pending>>
        PROVE  Driven'
    <3>1. actor \in Player /\ actor # None /\ "bot" \in Driving
      BY <1>1, <2>3, Values DEF BotDecides, Steady, Remembered, Driving
    <3>2. humanJumpIn' \in BOOLEAN
      BY <2>3, MayJumpIn
    <3> QED
      BY <1>0, <2>3, <3>1, <3>2, DriveKeeps
  <2> QED
    BY <1>1, <2>1, <2>2, <2>3 DEF BotDecides
<1>2. CASE Stops
  <2> DEFINE done == [holder EXCEPT !.at = "projecting", !.same = TRUE, !.acts = 0]
  <2>0. holder.at = "acting" /\ 0 \in 0..MaxActs
    BY <1>2, BoundAssumption DEF Stops
  <2>1. /\ done \in Holders /\ done.who = holder.who /\ done.for = holder.for
        /\ done.at = "projecting" /\ holder.at # "rest"
    BY <1>0, <2>0 DEF Holders
  <2>2. holder' \in {done, Idle}
    BY <1>2 DEF Stops
  <2> HIDE DEF done
  <2>3. Typed'
    BY <1>2, <2>1, <2>2, Values DEF Stops, Typed, settings, players, drivers, extras
  <2>4. Steady'
    BY <1>0, <1>2, <2>1, <2>2, Values DEF Stops, Driving, Typed, Steady, OneDriver, SettledRound, Remembered, Resting,
       settings, players, drivers, extras
  <2> QED
    BY <2>3, <2>4
<1>3. CASE AnnouncesEnd
  <2>1. /\ announced' = TRUE /\ timer' = Stopped /\ ~botTimer' /\ botTimer' \in BOOLEAN
        /\ botJumpIn' = FALSE /\ botCatch' \in BOOLEAN
        /\ timeouts' \in [Player -> 0..AutoAutopilotThreshold]
    BY <1>3, Announces DEF AnnouncesEnd, Steady
  <2>2. autoPlay' \subseteq Human
    BY <1>3 DEF AnnouncesEnd, Typed
  <2>3. Typed'
    BY <1>3, <2>1, <2>2, Values DEF AnnouncesEnd, Typed, settings
  <2>4. Steady'
    BY <1>0, <1>3, <2>1, Values DEF AnnouncesEnd, Driving, Typed, Steady, OneDriver, SettledRound, Remembered, Resting,
       settings, players, drivers, extras
  <2> QED
    BY <2>3, <2>4
<1>4. CASE CountsTimeout
  <2> DEFINE p == holder.for
             auto == autopilot'
  <2>1. /\ p \in Player /\ actor # None /\ ~announced /\ holder.at = "projecting"
        /\ holder.who = "overdue" /\ incrementTimeoutAndAutoAutopilot(p)
        /\ UNCHANGED <<settings, actor, beat, announced, connected, botJumpIn, extras, pending>>
    BY <1>4 DEF CountsTimeout, Holds, Typed, Steady, Remembered
  <2>2. timeouts' \in [Player -> 0..AutoAutopilotThreshold]
    <3>1. timeouts[p] \in 0..AutoAutopilotThreshold
      BY <2>1 DEF Typed
    <3>2. (IF timeouts[p] < AutoAutopilotThreshold THEN timeouts[p] + 1 ELSE timeouts[p])
              \in 0..AutoAutopilotThreshold
      BY <3>1, BoundAssumption
    <3> QED
      BY <2>1, <3>2 DEF incrementTimeoutAndAutoAutopilot, Typed
  <2>3. auto \in [Player -> BOOLEAN]
    BY <2>1 DEF incrementTimeoutAndAutoAutopilot, Typed
  <2>4. \/ holder' = [holder EXCEPT !.at = "telling"] /\ UNCHANGED drivers
        \/ holder' = Idle /\ (startTurnTimer(actor, auto) \/ UNCHANGED drivers)
    BY <2>1 DEF incrementTimeoutAndAutoAutopilot
  <2>5. /\ holder' \in Holders /\ (holder'.who = "nobody" <=> holder'.at = "rest")
        /\ holder'.at \notin {"acting", "thinking"}
        /\ holder'.who = "overdue" => holder'.for \in Player
    BY <1>0, <2>1, <2>4, Values DEF Holders, Driving
  <2> HIDE DEF auto
  <2>6. /\ timer' \in Timers /\ botTimer' \in BOOLEAN /\ (timer'.is # "stopped" => ~botTimer')
    <3>1. CASE startTurnTimer(actor, auto)
      BY <2>3, <3>1, StartsOne DEF Typed
    <3>2. CASE UNCHANGED drivers
      BY <3>2 DEF drivers, Typed, Steady, OneDriver
    <3> QED
      BY <2>4, <3>1, <3>2
  <2>7. Typed'
    BY <2>1, <2>2, <2>3, <2>5, <2>6 DEF Typed, settings, extras, auto
  <2>8. Steady'
    BY <1>0, <2>1, <2>5, <2>6 DEF Steady, OneDriver, SettledRound, Remembered, Resting, settings
  <2> QED
    BY <2>7, <2>8
<1>5. ASSUME holder' = Idle, startTurnTimer(actor, autopilot) \/ UNCHANGED drivers,
             UNCHANGED <<settings, actor, beat, announced, players, botJumpIn, pending>>,
             autoPlay' = autoPlay, grace' = grace,
             humanJumpIn' \in BOOLEAN, botCatch' \in BOOLEAN
      PROVE  Driven'
  <2>1. /\ timer' \in Timers /\ botTimer' \in BOOLEAN /\ (timer'.is # "stopped" => ~botTimer')
        /\ announced => timer' = Stopped /\ ~botTimer'
    <3>1. CASE startTurnTimer(actor, autopilot)
      BY <3>1, StartsOne DEF Typed
    <3>2. CASE UNCHANGED drivers
      BY <3>2 DEF drivers, Typed, Steady, OneDriver, SettledRound
    <3> QED
      BY <1>5, <3>1, <3>2
  <2>2. Typed'
    BY <1>5, <2>1, Values DEF Typed, settings, players
  <2>3. Steady'
    BY <1>0, <1>5, <2>1, Values DEF Steady, OneDriver, SettledRound, Remembered, Resting, settings,
       Driving
  <2> QED
    BY <2>2, <2>3
<1>6. CASE Tells
  BY <1>5, <1>6 DEF Tells, extras, Typed
<1>7. CASE HandsOn
  <2>1. humanJumpIn' \in BOOLEAN
    BY <1>7, Values DEF HandsOn, Typed
  <2> QED
    BY <1>5, <1>7, <2>1 DEF HandsOn, Typed
<1>8. CASE BotHandsOn
  <2>1. CASE /\ botTimer' = FALSE /\ botJumpIn' = TRUE /\ UNCHANGED timer
             /\ botCatch' \in {botCatch, TRUE}
    <3>1. ~announced
      BY <1>8 DEF BotHandsOn, Typed
    <3>2. Typed'
      BY <1>8, <2>1, <3>1, Values DEF BotHandsOn, Typed, settings, players
    <3>3. Steady'
      BY <1>0, <1>8, <2>1, <3>1, Values DEF BotHandsOn, Steady, OneDriver, SettledRound, Remembered,
         Resting, settings, Driving
    <3> QED
      BY <3>2, <3>3
  <2>2. CASE ~(botTimer' = FALSE /\ botJumpIn' = TRUE /\ UNCHANGED timer)
    <3>1. botCatch' \in BOOLEAN
      BY <1>8 DEF BotHandsOn, Typed
    <3> QED
      BY <1>5, <1>8, <2>2, <3>1 DEF BotHandsOn, Typed
  <2> QED
    BY <1>8, <2>1, <2>2 DEF BotHandsOn, Typed
<1>9. CASE JumpInHandsOn
  <2>1. Typed'
    BY <1>9, Values DEF JumpInHandsOn, Typed, settings, players, drivers, extras
  <2>2. Steady'
    BY <1>0, <1>9, Values DEF JumpInHandsOn, Driving, Typed, Steady, OneDriver, SettledRound, Remembered, Resting,
       settings, players, drivers, extras
  <2> QED
    BY <2>1, <2>2
<1>10. CASE Continues
  <2>1. PICK a \in Player \cup {None} :
            /\ Applied(a) /\ timer' = Running(a)
            /\ holder' = [holder EXCEPT !.acts = Acts(holder.for, a, @ + 1)]
    BY <1>10 DEF Continues
  <2>2. /\ actor = holder.for /\ holder.at = "acting" /\ holder.acts < MaxActs
        /\ scheduleAutopilotJumpIn
        /\ UNCHANGED <<settings, announced, players, botTimer, botCatch, autoPlay, grace, pending>>
    BY <1>10 DEF Continues
  <2>3. actor # None /\ ~announced /\ holder.for \in Player
    BY <2>2, Values DEF Typed, Steady, Remembered
  <2>4. /\ holder' \in Holders /\ holder'.who = holder.who /\ holder'.for = holder.for
        /\ holder'.at = "acting"
    <3>1. holder.acts + 1 \in 0..MaxActs
      BY <1>0, <2>2, BoundAssumption DEF Holders
    <3>2. Acts(holder.for, a, holder.acts + 1) \in 0..MaxActs
      BY <3>1, ActsBounded
    <3> QED
      BY <1>0, <2>1, <2>2, <3>2 DEF Holders
  <2>5. timer' \in Timers /\ timer'.is = timer.is /\ humanJumpIn' \in BOOLEAN
    BY <2>1, <2>2, RunsOn, MayJumpIn
  <2>6. actor' = a /\ beat' = ~beat /\ botJumpIn' = FALSE
    BY <2>1 DEF Applied
  <2>7. Typed'
    BY <2>2, <2>3, <2>4, <2>5, <2>6 DEF Typed, settings, players
  <2>8. Steady'
    BY <1>0, <2>2, <2>3, <2>4, <2>5, <2>6 DEF Steady, OneDriver, SettledRound, Remembered, Resting, settings
  <2> QED
    BY <2>7, <2>8
<1> QED
  BY <1>1, <1>2, <1>3, <1>4, <1>6, <1>7, <1>8, <1>9, <1>10 DEF HolderGoesOn

(* What a human's action changes when it is applied: the round went on, so  *)
(* its end was not announced, and who holds the lock may be overtaken.      *)
LEMMA AppliedKeeps ==
    ASSUME Driven, game = "live", actor # None, NEW a \in Player \cup {None}, Applied(a),
           timer' \in {timer, Running(a)}, holder' = Overtaken,
           timeouts' \in [Player -> 0..AutoAutopilotThreshold],
           pending' \subseteq Human \cup {BotJumpIn},
           UNCHANGED <<settings, announced, connected, autopilot, botTimer, extras>>
    PROVE  Driven'
<1> USE DEF Driven
<1>1. timer' \in Timers /\ timer'.is = timer.is /\ ~announced
  BY RunsOn DEF Typed
<1>2. /\ holder' \in Holders /\ holder'.who = holder.who /\ holder'.for = holder.for
      /\ holder'.at = holder.at /\ (holder.at = "thinking" => ~holder'.same)
  BY Interrupted, Overtakes
<1>3. actor' = a /\ beat' = ~beat /\ botJumpIn' = FALSE
  BY DEF Applied
<1>4. Typed'
  BY <1>1, <1>2, <1>3 DEF Typed, settings, extras
<1>5. Steady'
  BY <1>1, <1>2, <1>3 DEF Steady, OneDriver, SettledRound, Remembered, Resting, settings
<1> QED
  BY <1>4, <1>5

LEMMA PostcommitKeeps == Driven /\ Postcommit => Driven'
<1> SUFFICES ASSUME Driven, NEW p \in Human \cup {BotJumpIn}, Dispatches(p) \/ DispatchesEnd(p)
             PROVE  Driven'
  BY DEF Postcommit
<1> USE DEF Driven
<1>1. CASE Dispatches(p)
  <2>1. game = "live" /\ actor # None /\ ~announced
    BY <1>1 DEF Dispatches, Live, Typed
  <2>2. /\ timer' \in Timers /\ botTimer' \in BOOLEAN /\ (timer'.is # "stopped" => ~botTimer')
    BY <1>1, StartsOne DEF Dispatches, Typed
  <2>3. /\ holder' \in Holders /\ holder'.who = holder.who /\ holder'.for = holder.for
        /\ holder'.at = holder.at /\ holder'.same = holder.same
    BY <1>1, Interrupted, Voids DEF Dispatches
  <2>4. humanJumpIn' \in BOOLEAN
    BY <1>1, MayJumpIn DEF Dispatches
  <2>5. Typed'
    BY <1>1, <2>2, <2>3, <2>4 DEF Dispatches, Typed, settings, players
  <2>6. Steady'
    BY <1>1, <2>1, <2>2, <2>3 DEF Dispatches, Steady, OneDriver, SettledRound, Remembered,
       Resting, settings
  <2> QED
    BY <2>5, <2>6
<1>2. CASE DispatchesEnd(p)
  <2>1. game = "live" /\ actor = None /\ holder.at = "rest" /\ holder.who = "nobody"
    BY <1>2 DEF DispatchesEnd, Live, Free, Typed
  <2>2. /\ announced' = TRUE /\ timer' = Stopped /\ ~botTimer' /\ botTimer' \in BOOLEAN
        /\ botJumpIn' = FALSE /\ botCatch' \in BOOLEAN
        /\ timeouts' \in [Player -> 0..AutoAutopilotThreshold]
    BY <1>2, Announces DEF DispatchesEnd, Steady
  <2>3. Typed'
    BY <1>2, <2>1, <2>2, Values DEF DispatchesEnd, Typed, settings
  <2>4. Steady'
    BY <1>2, <2>1, <2>2, Values DEF DispatchesEnd, Steady, OneDriver, SettledRound, Remembered,
       Resting, settings, Driving
  <2> QED
    BY <2>3, <2>4
<1> QED
  BY <1>1, <1>2

LEMMA UsersKeep == Driven /\ Users => Driven'
<1> SUFFICES ASSUME Driven, NEW h \in Human,
             \/ \E a \in Player \cup {None} : Plays(h, a)
             \/ \E target \in Player : Catches(h, target)
             \/ \E a \in Player : Draws(h, a)
             \/ CallsUno(h) \/ AutopilotOnce(h)
             \/ Toggles(h) \/ Disconnects(h) \/ Leaves(h) \/ Rejoins(h)
             PROVE  Driven'
  BY DEF Users
<1> USE DEF Driven
<1>0. h \in Player /\ h # None /\ 0 \in 0..AutoAutopilotThreshold
  BY Values, BoundAssumption
<1>1. ASSUME NEW a \in Player \cup {None}, Plays(h, a)
      PROVE  Driven'
  <2>1. /\ timeouts' \in [Player -> 0..AutoAutopilotThreshold]
        /\ pending' \subseteq Human \cup {BotJumpIn}
    BY <1>0, <1>1 DEF Plays, Typed
  <2> QED
    BY <1>1, <2>1, AppliedKeeps DEF Plays, Live
<1>2. ASSUME NEW target \in Player, Catches(h, target)
      PROVE  Driven'
  <2>1. pending' \subseteq Human \cup {BotJumpIn} /\ timeouts' = timeouts
    BY <1>2 DEF Catches, Typed, players
  <2> QED
    BY <1>2, <2>1, AppliedKeeps DEF Catches, Live, players, Typed
<1>3. ASSUME NEW a \in Player, Draws(h, a)
      PROVE  Driven'
  <2>1. timeouts' \in [Player -> 0..AutoAutopilotThreshold]
    BY <1>0, <1>3 DEF Draws, Typed
  <2> QED
    BY <1>3, <2>1, Values, AppliedKeeps DEF Draws, Live, Typed
<1>4. CASE CallsUno(h)
  BY <1>4, AppliedKeeps DEF CallsUno, Live, drivers, players, Typed
<1>5. CASE AutopilotOnce(h)
  <2>1. PICK a \in Player \cup {None} : Drive("once", h, a) /\ timer' = Running(a)
    BY <1>5 DEF AutopilotOnce
  <2>2. "once" \in Driving /\ humanJumpIn' \in BOOLEAN
    BY <1>5, MayJumpIn DEF AutopilotOnce, Driving
  <2> QED
    BY <1>0, <1>5, <2>1, <2>2, DriveKeeps DEF AutopilotOnce, Live
<1>6. CASE Toggles(h)
  <2>1. /\ autopilot' \in [Player -> BOOLEAN] /\ autoPlay' \subseteq Human
        /\ timeouts' \in [Player -> 0..AutoAutopilotThreshold]
    BY <1>0, <1>6 DEF Toggles, Typed
  <2>2. Typed'
    BY <1>6, <2>1 DEF Toggles, Typed, settings, drivers
  <2>3. Steady'
    BY <1>6 DEF Toggles, Live, Steady, OneDriver, SettledRound, Remembered, Resting, settings,
       drivers
  <2> QED
    BY <2>2, <2>3
<1>7. CASE Disconnects(h)
  <2>1. /\ connected' \in [Player -> BOOLEAN] /\ grace' \subseteq Human
        /\ timer' \in {timer, Stopped}
    BY <1>0, <1>7, PlayerAssumption DEF Disconnects, Typed
  <2>2. Typed'
    BY <1>7, <2>1, Values DEF Disconnects, Typed, settings
  <2>3. Steady'
    BY <1>7, <2>1, Values DEF Disconnects, Live, Steady, OneDriver, SettledRound, Remembered,
       Resting, settings
  <2> QED
    BY <2>2, <2>3
<1>8. CASE Leaves(h)
  <2>1. /\ connected' \in [Player -> BOOLEAN] /\ autopilot' \in [Player -> BOOLEAN]
    BY <1>0, <1>8 DEF Leaves, Typed
  <2>2. /\ holder' \in Holders /\ holder'.who = "leave" /\ holder'.at = "projecting"
    <3> DEFINE n == IF actor = h THEN 1 ELSE 0
    <3>1. n \in 0..MaxActs
      BY BoundAssumption
    <3>2. holder' = [who |-> "leave", for |-> h, at |-> "projecting", valid |-> TRUE,
                     same |-> TRUE, acts |-> n]
      BY <1>8 DEF Leaves, Idle
    <3> HIDE DEF n
    <3> QED
      BY <1>0, <3>1, <3>2 DEF Holders, Driving
  <2>3. Typed'
    BY <1>8, <2>1, <2>2 DEF Leaves, Typed, settings, drivers, extras
  <2>4. Steady'
    BY <1>8, <2>2 DEF Leaves, Live, Steady, OneDriver, SettledRound, Remembered, Resting,
       settings, drivers
  <2> QED
    BY <2>3, <2>4
<1>9. CASE Rejoins(h)
  <2> DEFINE auto == autopilot'
  <2>1. /\ game' = "live" /\ jumpIn' = jumpIn
        /\ connected' \in [Player -> BOOLEAN] /\ auto \in [Player -> BOOLEAN]
        /\ timeouts' \in [Player -> 0..AutoAutopilotThreshold]
        /\ autoPlay' \subseteq Human /\ grace' \subseteq Human
    BY <1>0, <1>9 DEF Rejoins, Typed
  <2>2. /\ announced' \in BOOLEAN /\ (announced' => actor = None)
        /\ announced' => timer = Stopped /\ ~botTimer /\ ~botJumpIn
    BY <1>9 DEF Rejoins, Live, Typed, Steady, SettledRound, Resting
  <2>3. /\ timer' \in Timers /\ botTimer' \in BOOLEAN /\ (timer'.is # "stopped" => ~botTimer')
        /\ announced' => timer' = Stopped /\ ~botTimer'
    <3>1. ensureTurnDriver(auto)
      BY <1>9 DEF Rejoins
    <3> HIDE DEF auto
    <3>2. CASE UNCHANGED drivers
      BY <2>2, <3>2 DEF drivers, Typed, Steady, OneDriver
    <3>3. CASE startTurnTimer(actor, auto)
      BY <2>1, <2>2, <3>3, StartsOne DEF Typed
    <3> QED
      BY <3>1, <3>2, <3>3 DEF ensureTurnDriver
  <2>4. Typed'
    BY <1>9, <2>1, <2>2, <2>3 DEF Rejoins, Typed
  <2>5. Steady'
    BY <1>9, <2>1, <2>2, <2>3 DEF Rejoins, Steady, OneDriver, SettledRound, Remembered, Resting
  <2> QED
    BY <2>4, <2>5
<1> QED
  BY <1>1, <1>2, <1>3, <1>4, <1>5, <1>6, <1>7, <1>8, <1>9

LEMMA RoomKeeps == Driven /\ (NextRound \/ Restarts \/ Dissolves) => Driven'
<1> SUFFICES ASSUME Driven, NextRound \/ Restarts \/ Dissolves PROVE Driven'
  OBVIOUS
<1> USE DEF Driven
<1>1. CASE NextRound
  <2>1. PICK a \in Player : Applied(a) /\ startTurnTimer(a, autopilot)
    BY <1>1 DEF NextRound
  <2>2. /\ timer' \in Timers /\ botTimer' \in BOOLEAN /\ (timer'.is # "stopped" => ~botTimer')
    BY <2>1, StartsOne DEF Typed
  <2>3. actor' = a /\ beat' = ~beat /\ botJumpIn' = FALSE /\ announced' = FALSE
    BY <1>1, <2>1 DEF NextRound, Applied
  <2>4. holder' = holder /\ holder.at = "rest" /\ holder.who = "nobody" /\ game = "live"
    BY <1>1 DEF NextRound, Free, Live, Typed
  <2>5. Typed'
    BY <1>1, <2>2, <2>3, <2>4 DEF NextRound, Typed, settings, players, extras
  <2>6. Steady'
    BY <1>1, <2>2, <2>3, <2>4 DEF NextRound, Steady, OneDriver, SettledRound, Remembered, Resting,
       settings
  <2> QED
    BY <2>5, <2>6
<1>2. CASE Restarts \/ Dissolves
  <2>1. Cleared /\ game' \in {"stored", "gone"} /\ UNCHANGED <<jumpIn, actor, beat, autopilot>>
    BY <1>2 DEF Restarts, Dissolves
  <2>2. /\ connected' \in [Player -> BOOLEAN]
        /\ timeouts' \in [Player -> 0..AutoAutopilotThreshold]
    <3>1. connected' = [p \in Player |-> p \in Bot] \/ connected' = connected
      BY <1>2 DEF Restarts, Dissolves
    <3>2. [p \in Player |-> p \in Bot] \in [Player -> BOOLEAN]
      BY SMT
    <3>3. connected' \in [Player -> BOOLEAN]
      BY <3>1, <3>2 DEF Typed
    <3>4. timeouts' = [p \in Player |-> 0] /\ 0 \in 0..AutoAutopilotThreshold
      BY <2>1, BoundAssumption DEF Cleared
    <3> QED
      BY <3>3, <3>4
  <2>3. Typed'
    BY <2>1, <2>2, Values DEF Cleared, Typed
  <2>4. Steady'
    BY <2>1, Values DEF Cleared, Steady, OneDriver, SettledRound, Remembered, Resting, Driving
  <2> QED
    BY <2>3, <2>4
<1> QED
  BY <1>1, <1>2

LEMMA StaysDriven == Spec => []Driven
<1>1. Driven /\ [Next]_vars => Driven'
  <2> SUFFICES ASSUME Driven, [Next]_vars PROVE Driven'
    OBVIOUS
  <2>1. CASE UNCHANGED vars
    BY <2>1 DEF vars, Driven, Typed, Steady, OneDriver, SettledRound, Remembered, Resting,
       settings, players, drivers, extras
  <2>2. CASE Next
    BY <2>2, CallbackKeeps, HolderKeeps, PostcommitKeeps, UsersKeep, RoomKeeps DEF Next
  <2> QED
    BY <2>1, <2>2
<1> QED
  BY <1>1, InitDriven, PTL DEF Spec

(* The bookkeeping of the drivers stays in shape, and a round whose end is  *)
(* announced has nobody to act.                                             *)
THEOREM TypeCorrect == Spec => []TypeOK
<1>1. Driven => TypeOK
  BY TypedIs DEF Driven
<1> QED
  BY <1>1, StaysDriven, PTL

(* Whoever dispatches, and whatever came in between, the turn timer and a   *)
(* bot's timer never both wait to move the same game on (startTurnTimer).   *)
THEOREM AlwaysOneDriver == Spec => []OneDriver
<1>1. Driven => OneDriver
  BY DEF Driven, Steady
<1> QED
  BY <1>1, StaysDriven, PTL

(* Once the end of a round is announced nothing drives it any more: late    *)
(* callbacks arm no timer, those still on their way neither                 *)
(* (emitTerminalStateIfNeededUnlocked, driveCommittedActionPostcommit).     *)
THEOREM AlwaysSettledRound == Spec => []SettledRound
<1>1. Driven => SettledRound
  BY DEF Driven, Steady
<1> QED
  BY <1>1, StaysDriven, PTL
===============================================================================
